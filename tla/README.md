# Verification of the iroh-lotus ledger node

iroh-lotus replicates a small signed ledger between the nodes of a cluster.
Every change is an *envelope*: a signed message that names its parent by
digest. Envelopes form a tree; every node stores all the envelopes it has seen,
resolves each fork by the same deterministic rule and stands at the end of the
resulting path. Nodes pull from each other until they agree.

This directory holds TLA+ models of that system, the TLC configurations that
check them on small instances, and proofs checked by TLAPS for instances of any
size. `PROJECT.json` lists every run, mutant, mapped source line, finding,
hazard and theorem.

## 1. The system

| Component | State | Operations | Interacts with |
|---|---|---|---|
| **Chain** `state/src/chain.rs` | root, ledger (head); the log and versions in the store | init, adopt, open, insert_batch (store_batch, canonicalize, step), compact (remove_subtree) | the store (statement by statement), the core |
| **Movement** `state/src/change.rs` | change set, orphan set | diff, merge | subscriptions |
| **Ledger** `state/src/ledger.rs` | head; namespaces at a version | init, adopt, apply, verify_envelope, threshold and value rules | the store |
| **Store** `storage/src/*.rs` | envelopes with status, versions, value nodes | commit, install, retain, put/remove_envelope, children, reads | SQLite (WAL, synchronous = NORMAL) |
| **Core** `lotusd/src/core.rs` | store, chain, oldest, keys, subscriptions; the oldest-envelope file | insert, edits, compact, advertise, admit, sync_answer, welcome_root, subscribe, queries | owned by the mainloop |
| **Sync session** `sync/src/*.rs`, `lotusd/src/sync_driver.rs` | phase, cursor, locator | hello, find split, segments, ingest | a stream to the peer, the core of each side |
| **Peers** `peer_link`, `peer_egress`, `peer_ingress` | peer table, links, Pull state, dial back-off, in-flight reads | reconcile, dial, announce, pull, reap | the mainloop, subscriptions, sync sessions |
| **AddrPublish** `addr_publish.rs` | settle timer, publish in flight, state | watch addresses, publish into the ledger | the mainloop |
| **Subscriptions** `subscribe.rs` | merged pending movement per subscriber | register, push, take | the core |
| **Bootstrap, invites** `bootstrap.rs`, `invite.rs` | outstanding invites and the roots they pin; both ends of a join | invite, redeem, welcome, pull, admit, check | core (compaction pins), sync |
| **Mainloop** `server.rs` | request queue, actors, closing order | a turn per message, status, shutdown | everything in `lotusd` |
| **Control RPC** `lotusd-rpc/src/*.rs`, `lotusd/src/server.rs` | one request per connection, frames, watches | read, ask the mainloop, answer, hang up | clients, the mainloop |
| **Client library** `lotus-sdk/src/*.rs` | a call or a stream | connect, call, watch, errors | the control socket |

The command line, the web viewer, rendering and the version stamp keep no
protocol state; they are listed in `PROJECT.json` as not modelled.

What is hard here:

* **Durability.** An insert is several statements, a compaction many, and the
  oldest-envelope file lives outside the database. The process can stop, a
  statement can fail and the power can go between any two.
* **Fork choice as a fold over a shrinking log.** The head is recomputed from
  the root over whatever the log holds, while compaction moves the root and
  deletes the losing branches that justified earlier choices.
* **Versions that share rows.** A commit copies the path to what it changes and
  points at the rest; removal, appending and sweeping must not touch what an
  older version still reads.
* **Rules over values that can be written in pieces.** A reserved namespace may
  be set whole, at a path, by an amendment or by a checkpoint.
* **Two chains moving under a session.** A sync server streams its canonical
  path segment by segment while inserts, reorganisations and compactions move
  that path, and the puller's own chain moves between its questions.
* **Level-triggered work with an "again" flag** (link pulls, peer refreshes,
  address publishing): a wake-up that arrives while work is in flight must not
  be lost.
* **Actors and a mainloop that wait for each other**, over a bounded channel and
  through a shutdown.
* **Promises with a lifetime.** An invite pins a root against compaction, a
  subscription promises that what it reported orphaned never returns, a watch
  that whatever changes after it is told.
* **Answers that may be cut anywhere**: by the client, by the daemon, by a frame
  that does not fit.

For each component, the properties that make it correct:

* Chain: stopping anywhere and reopening gives the head back; the durable root
  always opens; the path above it is always complete; weights are never lost;
  what was reported orphaned stays off; a finished compaction is complete; a
  bad stored envelope cannot wedge the node.
* Ledger and store: the rows cannot be told apart from trees kept whole; every
  version obeys the rules of the reserved namespaces and was signed by keys
  trusted at its parent; what was validated fits the store.
* Sync: two nodes that pull from each other converge on one head; a session
  between honest nodes blames nobody; no announce is lost between pulls.
* Peers: a listed peer has one task, at the address listed last; a head that
  moved reaches every machine that can be reached.
* Subscriptions: what a slow subscriber finds is what it missed, no more and no
  less.
* AddrPublish: the listing settles at the address the endpoint has, and the node
  stays reachable while it is edited.
* Mainloop: nobody waits forever, in a close least of all.
* Bootstrap: the root an invite promised is the one handed over; one token
  admits one node; a joiner that reports success is a member.
* Control RPC and client library: a client is told what happened, and told
  exactly that an answer is complete only when it is.

## 2. Modules

| Module | Models |
|---|---|
| `Envelopes` | the envelope tree, parent hops, the fork rule |
| `Chain` | one node: chain, movement orphans, core insert/compact/open, the store's log and versions, statement by statement |
| `Sync` | several nodes: sync sessions, the locator, pull coalescing and announces, over whole inserts and compactions |
| `Values` | values, paths, nested writes, amendments, predicates |
| `Rules` | signatures, thresholds, value rules, the checks of every message |
| `MemStore` | what a store promises: the backend in memory |
| `Store` | the SQLite tables and the statements on them |
| `Ledger` | ledgers over `Store`; refines `MemStore` |
| `Changes` | change sets, movements, the differ, subscription filters |
| `Listing` | the transports listed for a node and the edits that take them to others |
| `Daemon` | the mainloop, its queue, clients, actors, the address publisher, shutdown (over `Changes` and `Listing`) |
| `Peers` | egress actor, peer tasks, connections, ingress, pulls by their outcome |
| `Bootstrap` | invites, the sponsor and the joiner, compaction and reorganisation under them |
| `Requests` | every control request and what the core answers (over `Rules`) |
| `Control` | frames, connections, handler tasks, watches, the client's calls (over `Requests`) |
| `MCChain`, `MCSync`, `MCLedger`, `MCDaemon`, `MCPeers`, `MCControl` | small instances for TLC |
| `EnvelopesProofs`, `ChainProofs`, `SyncProofs`, `SessionProofs`, `PeersProofs`, `BootstrapProofs`, `ControlProofs`, `DaemonProofs` | lemmas and theorems |

### Chain

State. `log`, `weighed` and `versions` are the store: the digests with a row in
`envelopes`, those whose row carries a verified status, those with a row in
`versions`. `oldest` is the oldest-envelope file together with `Core::oldest`,
which are written together. `synced` is the database as it stands on the disk,
with every digest a power loss may find in the oldest-envelope file.
`root` and `head` are `Chain::root` and the head of `Chain::ledger`. `pc` says
where the one mainloop stands: `idle`, inside `store_batch` (`store`), between a
version's commit and its envelope's row (`put`), inside `canonicalize` (`walk`,
or `open` when starting), inside `Chain::compact` (`prune`), or stopped
(`down`). `trial`, `last`, `allDup` are `store_batch`'s locals and `at` is the
walk's ledger. `orphaned` collects what every published `Movement` called
orphaned; `regressed` records that a compaction moved `oldest` to one of its own
ancestors. The last two are history variables: nothing reads them but
properties.

Data. An envelope is a digest. `Prev`, `Weight`, `Valid` and `Guarded` are
constants because all four are functions of content the digest covers: the
parent, the weight its signatures earn against the parent's trusted keys, whether
`Ledger::apply` accepts it at the parent's version, and whether a signature
threshold stands over it there. Digests are numbers since the fork rule compares
them. `Guarded` matters because `store_batch` applies the copy that arrived, and
verifies it only when it is new: a stored envelope that arrives again is refused
by its threshold, unless its version still stands. The walk applies the stored
copy, whose status is in the log.

Steps. Each statement the store makes durable by itself is one action: the
version commit of `Apply`, the row of `PutEnvelope`, one `remove_envelope` per
`PruneOne`, the single transaction of `Retain`. A run is read one envelope at a
time with the next envelope chosen freely, so runs of every length and content
are covered, duplicates and gaps included. `Storage::parent` hops leave only
stored envelopes (`Hops`), which is what makes an interrupted prune visible to
the walks.

`BeginCompact` lets the cut be any envelope of the logged path that has another
below it: `choose_cut` decides by arrival time, retention and pins, all of which
are the operator's or the clock's.

Faults. `Faults` selects which failures the environment may inject: `crash`
(the process ends anywhere), `storage` (any statement of the store fails, the
reads that report a movement of the head included: `DiffFails`) and `power` (a
crash that also rolls the database back to some earlier transaction boundary,
which WAL with synchronous = NORMAL permits). `write_oldest` syncs the new file
and renames it into place, but does not sync the directory: a power loss finds
the new digest or an earlier one (`Renamed`).

### Sync

State. Per node: `log`, `versions`, `root` and `head`, as in `Chain`, and
`watch`, the head its egress last took from its subscription. Per link: whether
it stands (`up`), whether the peer task has still to see the latest watch value
(`stale`), the announces in flight (`announced`), the acceptor's `Link::pull`
state and the one pull session it may run. `drops` counts lost connections
against `MaxDrops`. `blamed` collects the links a session error closed; nothing
reads it but properties.

Links. `<<p, s>>` is the connection `s` dialled to `p`. Only the dialler
announces on it and only the acceptor pulls, so two nodes that know each other
have two links. A pull is one stream, one `sync::Puller` at `p` and one
`sync::Server` at `s`. The session record holds both machines' phases, the
locator and cursor of the puller, the cursor of the server, and the frames on
their way to the puller. The two frames that go the other way are implied by the
phases: the puller's Hello is in flight while the phases are `hello`/`accept`,
its FindSplit while they are `split`/`find`.

Steps. Every question a machine puts to its core is a round trip through that
node's mainloop, hence one action: anything may happen on either node between
two of them. A server computes each segment from the path as it is then
(`Newer`), with a length the byte budget may cut anywhere up to `MaxBatch`; the
puller judges a batch (`Linked`), inserts it and blames the peer if the chain
took only part of it. An insert and a compaction are single steps here. The
mainloop runs each without interleaving another, and `Chain` is where their
insides, crashes included, are modelled: `Taken` and `IsTip` say what
`store_batch` and the walk leave behind, `Compact` what a finished prune does.
`Stands` follows `store_batch`'s trial ledger through a run, and `Passes` says
where it stops: at a stored envelope with no version and a threshold over it
(`Guarded`, as in `Chain`). A node whose root is still genesis starts with a
version of all it stores.

Announces. `Notify` is the egress draining its merged subscription, `Announce` a
peer task noticing the watch, `Connect` a dial that succeeds and announces first.
Announces travel on streams of their own and may overtake each other.
`OnAnnounce` skips a head the node stands at, opens a pull, or leaves one owed to
the pull that is running; `Settle` runs the one that is owed. `Down` forgets the
link state of both ends, as closing the connection does.

Left out of `Sync`: framing errors and a version mismatch, which no two nodes of
the same build produce; envelopes that do not apply (`Chain` has them). Failing
announces, panicking pulls, the membership check and the dial back-off are in
`Peers`.

### Ledger, Store and MemStore

A head is the sequence of envelope names it was reached by: digests chain, so
two chains never share one. `Store` keeps the tables of `sqlite.rs` as sets of
rows and writes each helper of the backend as an operator from a database to the
next: `new_map_without`, `new_array_removing`, `new_container_retaining`,
`replace_child`, `retain` keep their names. `Ledger` judges an envelope at the
version of its parent as `Ledger::apply` does, row by row, and commits, installs
(an adopted checkpoint), retains, logs and removes. A ledger is a cursor, so any
stored version may be stood on.

`Rules` has `verify_envelope`, `validate_message` and the value rule of every
reserved namespace. A signature is a key and whether it is over this envelope;
forged, unknown and missing ones are in the catalogue.

`MemStore` is the specification: every version a tree of its own, as
`memory.rs` keeps it. `Implements` is `M!MemSpec` with `M == INSTANCE MemStore`
mapped to what reading the tables back yields: a path copy, a shared row or a
sweep that any reader could notice is a step `MemStore` cannot take.

Database operations are atomic here, being transactions; `Chain` has the crashes
between them.

### Daemon, Changes and Listing

One queue of `Capacity` messages; a caller sends, waits for room, waits for its
answer and may hang up. A turn of the mainloop is one action per kind of message.
For a status the mainloop asks egress, ingress and publisher one after the other
and waits for each; to close it stops them, the publisher first, and waits for
each to end. The publisher's own
trip runs on a task nobody joins, which is what keeps a close from deadlocking
(`Attends`).

The core is a canonical path of envelopes, each touching one place. An insert
extends it or replaces its end; `Diff` computes the movement as `ChangeDiffer`
does, pushes it to every subscription that selects it and merges it with what is
pending there. `due` is the history the merge is compared with.

The publisher is `AddrPublish`: settle timer, one trip at a time, the `again`
flag, the outcome and the state the status shows. A publish compares the listing
with the address the endpoint reports, and signs the batch `AdvertiseBatch`
chooses: the array written whole, or edits (`TransportEdits`), one envelope each.
A transport of a kind this build does not know is spare, as any unwanted one is
(`core.rs:761-763`): an edit replaces or removes it.

### Peers

The actor's select loop has one action per branch: node-list wake, head wake,
finished read, reaped task. A read runs on a task of its own (`Refresh`, with its
`again`). A peer task dials, holds, waits out its back-off and dials again, until
cancelled. The far side checks membership against its own ledger, which learns of
this node sometime (`Learn`), enforces the connection limit, and answers
announces with pulls. A pull is served a head and ends with it: what happens in
between is `Sync`. Faults: a dropped connection, an announce that fails or times
out, a pull task that panics, a node-list read that fails.

Two states of the code are named and excluded in the liveness properties, since
nothing in the code leaves them: `Stuck`, after a failed list read and before the
list moves again, and `Silenced`, a connection that stands after an announce on
it failed or a pull on it panicked. `Relist = FALSE` excludes the third, which is
a finding of its own (`peers_relisted`).

### Bootstrap

The sponsor keeps its path, the index its log starts at, pending invites and its
clock; every attempt has a joiner, a session of the sponsor, a control stream and
a pull stream. Others extend the path, reorganise it, revoke keys; the compaction
tick cuts with `ChooseCut`, which respects retention, age and the roots that live
invites pin; the daemon restarts and forgets its invites. An admission is two
inserts, key first. The joiner pulls twice: before it is admitted and after, and
then judges for itself whether it is a member (`Verdict`). A sponsor that cannot
read the root it would hand over refuses, and the invite is spent all the same.
Every read on either side has a timeout, modelled as a step that is possible when
the other side has stopped; the sponsor's last one, for the end of the control
stream, may run out after the joiner has been admitted.

### Control and Requests

`Requests` translates every request of `proto.rs` with the answer the core gives
at the chain it stands on: reads by value, keys or length, chain walks bounded by
count and age, digests, weak writes rebased on the head, compaction, invites.
`Control` puts them on the socket: a frame arrives in pieces and may be cut in
the middle of its prefix or its body; the handler asks the mainloop in one or
more trips, streams what it got, and races all of it against the client hanging
up; the client reads one answer or a stream and ends with one of the errors of
`lotus-sdk`. A frame too long is refused by whoever would write or read it. The
daemon may stop at any moment.

The store may fail under any request that touches it (`TurnFails`) and under a
peer's envelope (`PeerInserts`). A write may stand all the same, and the read
that reports the movement of the head may be the one that fails: `Announces`
then tells no subscription, and the history variable `missed` notes, for each
watch the movement was for, the head it was not told of. `Core::insert`'s next
movement starts from the head it finds, so nothing makes up for it.

### Slips

A definition whose comment starts with "Slip" is a plausible mistake in the
definition that follows it (a dropped guard, a missing cleanup, an off-by-one).
No specification uses it. The mutation runs substitute it and TLC must then
find the property violated: it shows that the property can tell the code from
the mistake.

## 3. Runs

| Run | Instance | Shows |
|---|---|---|
| `chain_open` | 8 envelopes, two of them inherited, the winner no longer applying | a finished compaction is complete and never cuts below the root it replaces; a failed start repairs the log and the node opens |
| `chain_crash` | 8 envelopes, root 1 or adopted root 3, crashes anywhere | types; the root opens; reopening gives the head; the path is held; orphans stay off |
| `chain_faults` | 4 envelopes; crashes, failing statements and power losses | no stored envelope is downgraded |
| `sync_compact` | 2 nodes dialling each other, 5 envelopes, one guarded by a threshold, writes and compactions on both sides at any moment | nobody honest is blamed; logs stay sound; agreement over roots that moved apart; no lost wake-up and no stream cut short for good before the first cut |
| `sync_converge` | 3 nodes in a row, 3 links, one connection lost at any moment | all nodes end at one head |
| `ledger` | 27 envelopes: every message kind at every judgement, forged, stranger and unsigned ones | the tables implement the store in memory; rows stay sound; rules, signatures, no panic |
| `peers` | this node and one peer whose machine moves, is replaced or delisted; one fault of any kind | one live task at the address read last; no wake lost; the table settles; the head spreads |
| `daemon` | one client with any of four requests, one session of a peer, the publisher with an address that moves, a shutdown | merged notifications are exact; orphan watches fire; the node stays reachable and ends listed; nobody waits forever |
| `bootstrap` | two joins in one or two directories, one token, a writer, a clock, one fault | the promised root; one admission per token; a join that succeeds is a membership; every join ends |
| `control` | two connections, 12 pairs of requests, peers that extend and reorganise, a daemon that may stop | what a client is told is what happened; answers are whole or known not to be; a quiet watch misses no movement but one the store failed under; every call ends and frees what it held |
| `peers_relisted` | the same peer delisted and listed again, no fault | finding: listed and never dialled |
| `bootstrap_leftover` | two attempts, two writes of others, no fault | finding: a failed join leaves an admission |

Bounds. The 8-envelope tree holds every shape the code distinguishes: a trunk of
four, a heavier fork with a child of its own beside the trunk's third envelope,
an equal-weight fork decided by digest beside the second, and an envelope that
never applies and would win its fork. The smaller tree keeps a fork decided by
weight with a child above it: a reorganisation, a dead branch and two successive
cuts, at a size where failures may strike any statement. Nothing bounds the
length of runs or the number of crashes in the chain runs: the state spaces are
finite because the trees are.

In the sync instances `MaxBatch` is 1 where the code has 256, so that every
envelope is a segment and the path can move between any two of them.
`sync_converge` starts with two competing branches at the ends and an empty
middle, and `MaxDrops = 1` loses any connection at any moment, a session in
progress included. `sync_compact` has the puller behind by two, a competitor of
the puller's that wins, and cuts on both sides: one at the fork leaves the losing
branch stored without versions, the first envelope of it under a threshold, so
that both ways of `Passes` are taken; two at the heads leave paths that share
nothing, and a pull with no split.

`ledger` holds `MaxVersions = 2` versions at a time over chains of `MaxDepth = 3`,
with `MaxId = 24` rows before a write: a version, its parent and a third sharing
rows with both, which is what a removal or a sweep can get wrong. Integers are
-4..4 and u32 ends at 3, so that every width is reached and passed. `MaxClock = 1`
tells the first stamp of an envelope from a later one.

`peers` has connection `Limit = 1`, three heads, three tasks and two connections
alive at once: a replaced task, its successor and one being reaped. `daemon` has
`Capacity = 1` where the code has 8, so that callers wait for room; the listing
starts with an entry to drop, one of an unknown kind and one to keep. `bootstrap`
retains one envelope (`Keep`) so that one write makes a compaction bite.
`control` has a prefix of two bytes and bodies of up to two, so that a frame can
break in its prefix, between prefix and body and in its body, and a socket
`Buffer` of one frame, so that writes wait. `MaxForeign`, `MaxFaults`, `MaxCalls`,
`MaxHead` and `MaxMinted` only bound how often the environment acts.

No instance is symmetric in its nodes, keys or connections (each is where a
different thing happens), so no symmetry is declared.

Deadlock checking is off where the system really may stop: the sync runs and
`peers` (nothing left to write, announce or pull), `chain_faults` (a database
rolled back behind the oldest-envelope file does not open again), `daemon` and
`control` (a daemon that has exited), `bootstrap` (every attempt made and the
clock run out).

Fairness. `chain_open` assumes a stopped daemon is started again (weak fairness
of `Open`; the shipped unit has `Restart=on-failure`,
`docs/systemd/lotusd.service`) and that a walk under way finishes, since it is a
loop of finite store calls on the mainloop. `sync_converge` assumes that every
task that can run is scheduled: the egress drains its subscription, a peer task
sees its watch and redials after its back-off, announces arrive on connections
that stay up, and both ends of a session progress. `peers` asks the same of each
peer task, each connection and, since the actor's `select!` is biased, of each of
its branches separately: a branch that is starved keeps its wake, and the higher
ones run out of events. `Learn` is fair because the far node pulls the list in
the end. `daemon` needs the least: some task that can run does. `bootstrap` gives
each end of a join its steps, timeouts included. `control` assumes a spawned task
and the mainloop run, a program that awaits its call polls it, and a mainloop
that has returned lets the process exit. No fairness is assumed of authoring,
compaction, crashes, lost connections, clients or operators.

### Findings

Two runs end in a violation of something the repository says of itself:

* `peers_relisted` (`peer_egress.rs:251`): `reconcile` keeps an entry whose
  endpoint is unchanged, also when its task was already cancelled by the list in
  between. The task ends, the reaper removes the entry, and the node stays listed
  and undialled until the list moves again.
* `bootstrap_leftover` (`bootstrap.rs:472`): redeeming an invite lifts its pin. A
  compaction before the joiner pulled ends the pull with no common history, which
  the sponsor takes for a finished one: it admits a joiner whose join has failed.

The models also show the following under settings or in states the passing runs
leave out:

* `Core::insert` reads the changes of a movement back from the store after the
  head moved (`core.rs:271`) and returns that read's error before it publishes
  (`:272`). The head has then moved and no subscriber is ever told, neither of
  this movement nor, as the next one is reported from where this one ended, with
  a later one; a refusal of the run is lost with it. `core.rs:256-258` says "a
  head that moved anywhere else would move without anyone being told" of this
  very path, and `:266-268` "Published before the refusal is returned, never
  instead of it". In `Control` a watch stays quiet beside a read that is out of
  date. `WatchedIsFresh` excludes such a watch by name (`Overlooked`: `missed` is
  newer than the read) and holds for every other; without that conjunct the run
  `control` fails. `Daemon`, `Peers` and `Sync` inject no failing store into an
  insert: what they say of movements and announces is said of the published ones.
* After an interrupted prune and a reorganisation to a shorter branch,
  compaction can move the oldest envelope backward (`core.rs:446`), since the
  walked path reaches below the root and `choose_cut` does not know where the
  root is; `core.rs:404-405` says "moving the oldest envelope forward". So
  `CompactionIsComplete`, which includes it, is checked without crashes.
* A statement failing inside a prune leaves `Chain::root` behind `Core::oldest`
  (`core.rs:475`); later walks start below the cut over a partly pruned log and
  may bring an orphan back, against `change.rs:139`. A restart repairs it. So
  `OrphansStayOff` is checked without failing statements.
* The synced file can outlive the unsynced rows it relies on (`sqlite.rs:200`);
  the node then refuses to start. It needs a power loss and a cut close to the
  head. Nor is the rename of the file synced (`core.rs:1270`): after a prune the
  file may name an envelope the database no longer has. So `OldestOpenable` is
  stated without power losses.
* After a compaction the locator ends on the root's pruned parent
  (`core.rs:908`). A peer whose path forks there streams from it as asked, the
  chain refuses the run, and the honest peer is closed on; a reconnect repeats
  it. So `NeverBlamed` speaks of refused runs only before the first cut.
* Against a compacted server a sparse locator can miss the whole stretch the two
  paths share (`locator.rs:28`), and the pull ends as if nothing were shared.
  Nothing retries with a denser sample.
* A server that compacts past its own cursor ends the stream early with nothing
  announced and no periodic round (`sync/src/server.rs:20`) to carry the rest:
  the puller waits for the server's next head. `QuietMeansHeld` and
  `EarlyEndFollowed` therefore speak of clusters no cut has touched yet.

Met while reading, and not the subject of a run:

* `state/src/lib.rs:13-14` gives the opposite tie-break: the code prefers the
  higher weight, then the higher digest.
* `state/src/chain.rs:18-20` says a refused winner is discarded "along with its
  children"; `step` removes the one envelope, and stored descendants of it stay
  in the log until a prune reaches them.
* A stored envelope whose version is gone is applied, when it arrives again, by
  the copy that arrived, which nothing verified (`chain.rs:305`): under a
  threshold that is refused (`:336`), the refusal is swallowed (`:350`) and what
  follows in the run is an unknown parent, although the stored copy would do. It
  needs a cut that left a losing branch behind, so it refuses no run before the
  first cut. `sync_compact` goes through it.
* A crash between an envelope's version and its row can leave a descendant
  that the prune does not reach through the index: it stays in the log below
  the cut. It is harmless to the head, as `chain_crash` shows.
* `core.rs:185-186` says of `prepare_join` that a join failing after it "can be
  retried"; `join_in_state_dir` writes the oldest-envelope file before the pulls
  (`core.rs:216-220`), and a directory that has one is refused as initialized
  unless the operator asks to overwrite it.
* `lotus-sdk/src/lib.rs:27-30` recommends a watch before the read it guards.
  `Client::watch` returns once the request is written: if the mainloop answers
  the read before it has registered the watch, a change between the two reaches
  neither. `WatchedIsFresh` holds when the read is answered after the watch was
  registered.
* An answer that does not fit a frame ends the stream between frames, which a
  client cannot tell from its regular end ("`None` once the daemon has finished
  answering"); a single answer ends as NoResponse.
* A filtered subscriber is told a `from` that is where the last selected movement
  began, not where the subscriber was last told.
* `watch_orphaned` answers AlreadyOrphaned for a digest the node never knew or
  has pruned (`subscribe.rs:44-48`, `proto.rs:809-812`).
* `core.rs:805-807` calls every stage of a listing a "superset of where this
  node is reachable"; an entry replaced by another is not one. What holds is
  `StaysReachable`: whatever is wanted and was listed stays listed.
* A node-list read that fails is not repeated until the list moves
  (`peer_egress.rs:180-185`).
* `sqlite.rs:22-24` says children are inserted before their parents;
  `insert_value` inserts the container first. Both are in one transaction.

## 4. Proofs

The theorems hold for every finite or infinite set of digests, every acyclic
parent function, every weight assignment and every set of guarded envelopes, from
the `ASSUME`s of the modules.
`Envelopes`, `Chain`, `Sync`: digests are numbers, parents are envelopes, parent
chains do not loop, an adopted root's parent is not in the log, and nodes start
as an insert or a compaction leaves them. `Peers`, `Bootstrap`: the node set is
finite, the bounds are naturals, and `None` is none of the values it stands
beside. `Requests`, `Control`: retention keeps at least one envelope, a prefix and
the largest frame are not empty, and a program asks a method with the parameters
its type gives it, or one the build does not know. `Daemon`: the channel has room
for one message, callers have names of their own, places are paths, and a listing
is a sequence of transports or one of two values set apart, for no listing and
for one under another endpoint id; the endpoint starts at some address. What a single
theorem assumes besides is in its statement and below.

Operators that recurse over data are recursive functions here (`Values`'s walks,
`TouchAll`, `Spare`, `Stages`, `Logged`). The library's induction theorems are out
of reach, since they take an operator, but a set of naturals closed under
successor is not: `NatInd` and, for finite sets, `SetInd` carry every induction
over data that these proofs need, and say that such a function exists.

**The tree** (`EnvelopesProofs`). `Anc[d]` is the least set that holds `d` and is
closed under parents, which needs no recursion; reflexivity, transitivity,
antisymmetry and linearity of the parent chain follow from minimality and
acyclicity. `Parting` says that two envelopes with a common ancestor, neither
above the other, descend from two different children of one envelope.

**Chain** (`ChainProofs`).

1. `TypeCorrect`: types, for every mix of faults.
2. `VersionsStand`: the inductive core, `Standing`. *Grounded* says that a
   version whose parent envelope is stored has its parent's version as well.
   This is what connects the two things compaction looks at: it chooses the cut
   by walking the *log*, and then relies on the cut's *version*. `HopsHeld`
   derives that every stored envelope reached from the head by parent hops has a
   version. The delicate step is `Retain`, which deletes versions: the kept ones
   stay grounded because the cut's parent has left the log (`Doomed` is empty)
   and because the path is linear above the cut.
3. `OldestAlwaysOpenable`: with no power loss, `oldest` is stored and has a
   version at every step. The cut is a version by `HopsHeld`, pruning takes only
   envelopes that do not descend from the cut (`PruneBelow`), and a refused
   winner has no version.
4. `PathAlwaysHeld`: with no failing statement, an open node holds the whole
   path. Inductive with `root = oldest` outside a prune and the same fact for
   the walk's position.
5. `NeverDowngraded`: for every mix of faults; a power loss brings back the
   synced rows, so the invariant covers those as well.
6. `RestartsAtHead`: with no failing statement, and roots and inherited
   envelopes that apply, the walk of a start ends where the node stood. The
   invariant (`RestartInv`) is that the head is the tip of the walk from
   `oldest`, that a walk under way has not left the path to it, and that
   everything stored applies: a walk that ends in a refusal leaves the head
   behind. A prune keeps the children of whatever stays (`PruneKeepsChildren`),
   hence the tip. Power losses are included.
7. `OrphansNeverReturn`: crashes are the only faults, and roots apply. That no
   orphan lies below the head is not inductive: a restart forgets the head, and
   the walk from `oldest` must miss the orphan again on what the log alone
   remembers; and after a crash in mid-prune a later compaction may take `oldest`
   back below a fork whose dead branch is gone and could be stored again.
   `OrphanInv` therefore keeps two facts for each orphan: wherever the head's
   chain leaves the orphan's it takes the heavier sibling (`Parted`), and while
   `oldest` lies below the orphan a stored, applying sibling, with everything
   down to `oldest`, outranks one of the orphan's ancestors (`Outranked`). Ranks
   are compared at verified weight because every version descends from the
   starting root, the one envelope whose status may be unchecked (`Based`).
8. `CompactionsComplete`, an action property: with no faults, a prune that ends
   leaves nothing stored below or beside the cut. `CleanInv` says that outside a
   prune everything stored descends from `oldest`, and that inside one the prune
   will still come to whatever does not (`Sweeps`). It assumes that
   inherited envelopes hang off the root over ones that apply (`HangsOffRoot`):
   the code removes a refused winner alone, and descendants of it that were
   stored already would stay, as the findings describe for crashes.

**Sync** (`SyncProofs`), for any cluster, any links, cuts and number of drops.

1. `TypeCorrect`: types; in particular no batch on any stream exceeds the
   segment budget.
2. `AlwaysSound`: every node's log is its root and descendants of it without
   gaps, its versions are of stored envelopes, and its head is where the walk
   ends. `Sound` is its own inductive invariant. An insert keeps it because what
   `store_batch` takes hangs on the log (`TakenHangs`), which is where versions
   being stored is needed; a compaction because everything above the cut stays
   and the walk from the cut is the rest of the walk (`CutSound`).
3. `HoldersAgree`: two nodes that hold each other's heads stand at the same
   head. If neither head is above the other, `Parting` gives two siblings, one
   on each path; gap-freeness puts both siblings in both logs, and each must
   beat the other (`Ranked`). If one head is above the other, the lower one has
   a stored child and is no tip (`NothingAboveHead`). Arrival order and the
   positions of the roots do not enter.

**Sessions** (`SessionProofs`, over `SyncProofs`). `SessionsHold` proves
`SessionInv`: each session is in one of six stages, in which the two machines'
phases and the stream fit together. In the last two the frames are one chained
run: each batch carries exactly what lies between where the last one ended and
its own end, the first from the split or the puller's cursor, the last to the
server's cursor (`Flows`, `Carries`). From it follow

1. `NoPeerBlamed`: a puller never finds a breach, through reorganisations and
   compactions on either side in mid-session. Its second half, that no run is
   *refused*, holds while no node has compacted, and needs that what a pull goes
   on from has a version (`PullStands`). The proof showed that the hypothesis
   has to be `Uncut`, every root at genesis, and not merely that no root has
   moved: two nodes that start with roots compacted apart can refuse at once.
   An uncut node has a version of all it stores (`PathStands`), so that no
   threshold is met by an unverified copy there.
2. `QuietLinksHold` and `EarlyEndsFollowed`: `Told` says who owes the next
   wake-up. A head that the egress has passed on to a connection is in the
   acceptor's log, or announced, or a pull is owed, or the session under way
   will end with it (`Delivers`). A server that ends early over a cursor that
   left its path no longer delivers; the reorganisation that moved the head is
   then still to be announced.

**Peers** (`PeersProofs`), for any cluster, lists, bounds and number of faults.
`Invariance` proves `PeersInv`, by the part of the state it is about.

1. `ReadsAreCurrent` (`RefreshOK`): a read that the list overtook is followed by
   another, owed by the wake or by the request made while it was in flight.
2. `OneTaskPerNode` (`TableOK`): an entry of the table names a task of its node,
   a task not told to stop has its entry, and only one told to stop ends.
3. `AnnouncesAreHeld` (`TellsOK`): the head last told is the last in the mail;
   once read, the machine stands at it, or a pull runs that was not yet served
   or was served with it, or another is owed.

**Bootstrap** (`BootstrapProofs`), for any number of attempts and directories.
`Invariance` proves `BootInv`: the path (`ChainOK`), the book of invites
(`BookOK`), each attempt's two ends (`AttemptOK`) and the tokens (`TokenOK`).

1. `PromisesAreKept`: what is live in the book names the root the log starts at,
   which a compaction has to respect, and a `Welcome` carries its invite's root.
2. `TokensAdmitOne`: needs `Spent`, a token redeemed but not yet admitted on: it
   is pending no more and belongs to one attempt.
3. `JoinedAreMembers`: an attempt past the wait for its admission was admitted,
   and what it laid down begins at the promised root, however often it pulled.
4. `ListedAreTrusted`: kept by every write, and by every reorganisation because
   the trusting envelope lies below the listing one.

**Control** (`ControlProofs`), for any number of connections, any script of
requests, frame limit, buffer and peers. Bodies and envelopes have no type of
their own, so `CallInv(B, E)` is stated over a set of answers and one of
envelopes, and `CallsOk` says that there are two such sets. Per connection it has
what the client asked and what of it has arrived (`Asks`), where the handler
stands on it (`Works`), what was answered (`Answers`), how the call ended
(`Outcome`), what became of its write (`Wrote`) and what still waits (`Waits`); of
the mainloop's messages, that each connection has at most one and that it is a
trip of the request the client made (`QueueOk`). The step lemmas show that an
action of one connection leaves what is known of the others alone, and the turn
of the mainloop is the one place where they meet.

1. `TellsItsClients`: by `Outcome`. A call ends without an answer only past a
   handler that could not send, and the marker of a stream's end is sent last.
2. `WritesAreAsTold`: by `Wrote` and `QueueOk`. A write is carried out by the one
   message of its connection, so it is carried out once at most, and what the
   client is told is made in the same turn.
3. `StreamsAPrefix`: what was handed over, what is in the pipe and what the
   handler has still to write are, in this order, the start of what the mainloop
   picked (`InLine`), unless the one answer is a failure (`Refused`); all of it,
   unless the process died or a frame did not fit (`Streamed`). That a picked run
   is linked needs the log (`LogOk`: digests name envelopes and the chain is
   linked) and that no later envelope takes the name of a picked one (`RunOk`).
4. `WatchesMissNothing`: `FreshOk` relates a watch to a reader. While the watch
   listens, the reader's value is that of the head, or one of the watch's events,
   sent, in the pipe or pending, names another head. A movement either leaves the
   namespace untouched, in which case the state at both ends agrees on it
   (`StatesOk`), or is published under a digest that no answer names yet, or went
   untold and is noted in `missed` under a head newer than any read before it. That
   merging in a subscription loses no event the watch had not shown is part of
   the same step (`Shows`).

**Daemon** (`DaemonProofs`), for any number of clients, any requests, addresses
and writes of others, on a path of any length. `DaemonInv` has four parts.

1. `CoreInv`, the path: digests ascend along it and no digest is above `made`
   (`GoodPath`), so that a replaced envelope never comes back; its listings are
   sequences of transports (`Ledgered`).
2. `Registry`, from which `FindsWhatItMissed` follows: the movement a subscriber
   finds is, place by place, the union of the movements it was to hear of
   (`Exact`), nothing pends when none is due (`Kept`), and no recorded path covers
   another (`Tidy`). The last one is needed for the first: `touch` drops a path
   that a recorded one covers and those that the new one covers. `TouchAllIs` says
   what touching a set of places amounts to, in whatever order it is gone through;
   `MeetIs` that the differ's two paths meet exactly where the run begins.
3. `Orphans`, for `OrphansAreTold`: what an orphan watch waits for is on the path,
   or was told, or is in its subscription's pending movement (`Hears`). It holds
   across the registration, which reads the path and registers in one turn, and
   across a merge, which keeps orphans; what was told has left for good by
   `GoodPath`.
4. `Publishing`: the trip of a publish under way is one of the addresses.

`EditsKeepReachable` is part of `CoreInv`, since the next batch is planned on the
listing the last one left. `Intact` says what a prefix of a run of edits has made
of the listing: up to a bound its entries are those it had, except where a spare
one was replaced. The bound stays while entries are added and replaced, and sinks
with each removal because the removals go from the end. So the index an edit names
still means the entry it was chosen for, that entry is spare, and a wanted
transport found there is listed at another index as well (`StillListed`).

Model-checked only, and why:

* liveness under fairness: `EventuallyOpens`, `Converges`, `TableSettles`,
  `HeadSpreads`, `PublishSettles`, `CloseEnds`, `JoinsEnd`, `CallsEnd`;
* the refinement `Implements`, `RowsSound`, `RulesHold`, `NeverPanics` and
  `SignedByTrusted` of `Ledger`: `Store` and `MemStore` build and read trees with
  `RECURSIVE` operators, which the prover does not take. As functions they would
  have to be defined over the set of all databases.

## 5. Not modelled, and the plan

Not modelled, and why:

* `lotusctl`, `lotusweb`, rendering, the version stamp: they turn arguments into
  control requests and answers into text or pages; their protocol is `Control`.
* Canonical CBOR, digests, key material and signatures: they enter as identities
  and as the weight a signature verifies to. Nothing the models state depends on
  the bytes.
* Framing of sync and bootstrap streams: typed frames; a broken one only ends the
  connection, which the models let happen at any moment. The framing of the
  control socket is modelled, since how it breaks is what a client sees.
* Command line and configuration of `lotusd`, socket discovery, relay settings,
  the text form of an invite code: read once, before anything runs.
* Of `Chain`, the time stamps and retention arithmetic behind the cut (covered by
  its nondeterminism, and by `ChooseCut` in `Bootstrap`) and the crash windows
  inside creating a fresh state directory.

Components meet in these modules by what they promise each other: `Sync` uses an
insert and a compaction as `Chain` leaves them, `Peers` a pull by its outcome,
`Daemon` the core by its path, `Bootstrap` a pull by what it leaves behind.

What a next step would prove:

1. An abstract fork-choice specification that `Chain` refines, from `RestartInv`.
2. `RulesHold` and `SignedByTrusted` of `Ledger` over a store given by what
   `MemStore` promises, with values as functions from paths to leaves in place of
   recursive trees; then that `Store` keeps the promise, one helper at a time.

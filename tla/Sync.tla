-------------------------------- MODULE Sync --------------------------------
(***************************************************************************)
(* Nodes that keep each other up to date: each authors envelopes of its    *)
(* own, announces its head over the connections it dialled, and pulls from *)
(* whoever announced a head it does not stand at.                          *)
(*                                                                         *)
(* A link <<p, s>> is the connection s dialled to p (s's egress, p's       *)
(* ingress).  Only s announces on it and only p pulls; s serves.  A pull   *)
(* is one bi-stream, one sync::Puller and one sync::Server.  Every         *)
(* question a machine asks its core is a round trip through that node's    *)
(* mainloop, so anything may happen on either node between two of them.    *)
(*                                                                         *)
(* An insert and a compaction are single steps here: the mainloop runs     *)
(* them without interleaving, and Chain checks their inside.               *)
(***************************************************************************)
EXTENDS Envelopes, Sequences

CONSTANTS
  Node,
  Links,     \* <<p, s>>: s has p in its peer table and dials it
  Guarded,   \* envelopes a signature threshold stands over at their parent
  Start,     \* where each node stands: its log, root and head
  Own,       \* the envelopes each node may author
  Cuts,      \* the envelopes each node may compact up to
  MaxBatch,  \* MAX_BATCH_ENVELOPES
  MaxDrops   \* how many connections may be lost

ASSUME NodeAssumption ==
  /\ Guarded \subseteq Digest
  /\ Links \subseteq Node \X Node
  /\ Own \in [Node -> SUBSET Digest]
  /\ Cuts \in [Node -> SUBSET Digest]
  /\ MaxBatch \in Nat \ {0} /\ MaxDrops \in Nat

\* Every node starts as an insert or a compaction leaves one: its log is its
\* root and descendants of it with no gaps, and its head is where the walk
\* from the root ends.
ASSUME StartAssumption ==
  /\ Start \in [Node -> [log : SUBSET Digest, root : Digest, head : Digest]]
  /\ \A n \in Node :
       /\ Start[n].root \in Start[n].log
       /\ \A d \in Start[n].log :
            Start[n].root \in Anc[d] /\ Above(Start[n].root, d) \subseteq Start[n].log
       /\ IsTip(Start[n].log, Start[n].log, Start[n].root, Start[n].head)

VARIABLES
  log,       \* each node's envelope log
  versions,  \* the digests it holds a version of
  root,      \* its chain's root
  head,      \* its chain's head
  watch,     \* the head its egress last passed to its peer tasks
  up,        \* links that stand
  stale,     \* links whose peer task has not seen the latest watch value
  announced, \* announces in flight on a link, each on a stream of its own
  pull,      \* Link::pull at the acceptor
  session,   \* the pull session of a link
  drops,     \* connections lost so far
  blamed     \* <<l, why>>: a session on l closed it and blamed the peer

chains == <<log, versions, root, head>>
links  == <<up, stale, announced, pull, session>>
vars   == <<chains, watch, links, drops, blamed>>

\* A session: the puller's phase, what it offered (locator) and where its
\* run stands (cursor); the server's phase and how far it has sent (sent);
\* the frames on the stream to the puller.  The two frames the other way,
\* the puller's Hello and its FindSplit, are in flight exactly when the
\* puller's phase is "hello" and the server's is "accept", and when they are
\* "split" and "find".
NoSession == [phase |-> "none", locator |-> {}, cursor |-> None,
              server |-> "none", sent |-> None, stream |-> <<>>]
Opened    == [NoSession EXCEPT !.phase = "hello", !.server = "accept"]

-----------------------------------------------------------------------------
(* What a node's core answers.                                             *)

\* walk_canonical: parent hops from the head.  After a compaction the last
\* digest they reach is the root's pruned parent.
Walk(n) == Hops(log[n], head[n])

\* How many envelopes the walk passes before it reaches d.
Offset(n, d) == Cardinality(Above(d, head[n]))

Sampled(k) == k = 0 \/ \E e \in 0 .. k : k = 2^e

\* locator::sample: widening offsets, and the walk's last entry.
Locator(n) ==
  {d \in Walk(n) : Sampled(Offset(n, d)) \/ \A e \in Walk(n) : d \in Anc[e]}

\* locator::split: the newest offered digest on n's own walk.
IsSplit(n, offered, d) ==
  d \in Walk(n) \cap offered /\ \A e \in Walk(n) \cap offered : e \in Anc[d]

\* Slip: a cursor the walk does not meet counts as below all of it.
NewerOrAll(n, d) == (Walk(n) \cap log[n]) \ Anc[d]

\* Slip: the walk starts behind the head.
NewerButHead(n, d) == IF d \in Walk(n) THEN Above(d, head[n]) \ {head[n]} ELSE {}

\* segment: what the walk passes before it meets d; nothing if it never does.
Newer(n, d) == IF d \in Walk(n) THEN Above(d, head[n]) ELSE {}

-----------------------------------------------------------------------------
(* Insert and compaction, as Chain leaves a node.                          *)

\* The copy of x that arrived applies over its parent's version: a new one is
\* verified there first; a stored one is not, and a threshold refuses it.
Passes(L, x) == x \notin L \/ x \notin Guarded

\* The trial ledger reaches d: the run met a version at or just below e, and
\* from there on everything stands already or applies.
Stands(L, V, b, d) ==
  \E e \in b \cap Anc[d] :
    /\ e \in V \/ (Prev[e] \in V /\ Passes(L, e))
    /\ \A x \in Above(e, d) : x \in V \/ Passes(L, x)

\* store_batch: the part of the run before the first unknown envelope the
\* trial ledger does not reach.
Taken(L, V, b) ==
  {d \in b : \A e \in b \cap Anc[d] : e \in L \/ Stands(L, V, b, e)}

\* Slip: the branch seen first keeps the head.
InsertFirstSeen(n, b) ==
  LET got == Taken(log[n], versions[n], b)
      L   == log[n] \cup got
  IN \E t \in L :
       /\ IF \E d \in got : head[n] \in Anc[d]
          THEN IsTip(L, L, root[n], t) ELSE t = head[n]
       /\ log' = [log EXCEPT ![n] = L]
       /\ head' = [head EXCEPT ![n] = t]
       /\ versions' = [versions EXCEPT ![n] =
            @ \cup {d \in got : Stands(log[n], versions[n], b, d)} \cup Above(root[n], t)]
       /\ UNCHANGED root

\* insert_batch: store what can be taken, then walk to the new head, which
\* brings every version on the way back.
Insert(n, b) ==
  LET got == Taken(log[n], versions[n], b)
      L   == log[n] \cup got
  IN \E t \in L :
       /\ IsTip(L, L, root[n], t)
       /\ log' = [log EXCEPT ![n] = L]
       /\ head' = [head EXCEPT ![n] = t]
       /\ versions' = [versions EXCEPT ![n] =
            @ \cup {d \in got : Stands(log[n], versions[n], b, d)} \cup Above(root[n], t)]
       /\ UNCHANGED root

\* An operator's edit, signed here and inserted on top of the head.
Author(n) ==
  /\ \E d \in Own[n] \ (log[n] \cup {Genesis}) :
       Prev[d] = head[n] /\ Insert(n, {d})
  /\ UNCHANGED <<watch, links, drops, blamed>>

\* Slip: dead branches below the cut are left in the log.
CompactPathOnly(n) ==
  /\ \E c \in Cuts[n] \cap Above(root[n], head[n]) :
       /\ log' = [log EXCEPT ![n] = {d \in @ : d = c \/ d \notin Anc[c]}]
       /\ versions' = [versions EXCEPT ![n] = {c} \cup Above(c, head[n])]
       /\ root' = [root EXCEPT ![n] = c]
  /\ UNCHANGED <<head, watch, links, drops, blamed>>

\* The compaction tick: everything but the cut and its descendants goes,
\* and of the versions those on the path stay.
Compact(n) ==
  /\ \E c \in Cuts[n] \cap Above(root[n], head[n]) :
       /\ log' = [log EXCEPT ![n] = {d \in @ : c \in Anc[d]}]
       /\ versions' = [versions EXCEPT ![n] = {c} \cup Above(c, head[n])]
       /\ root' = [root EXCEPT ![n] = c]
  /\ UNCHANGED <<head, watch, links, drops, blamed>>

-----------------------------------------------------------------------------
(* Egress.                                                                 *)

\* Slip: only heads this node wrote are passed on.
NotifyOwn(n) ==
  /\ watch[n] # head[n] /\ head[n] \in Own[n]
  /\ watch' = [watch EXCEPT ![n] = head[n]]
  /\ stale' = [l \in Links |-> stale[l] \/ l[2] = n]
  /\ UNCHANGED <<chains, up, announced, pull, session, drops, blamed>>

\* The egress takes the movement its subscription merged.
Notify(n) ==
  /\ watch[n] # head[n]
  /\ watch' = [watch EXCEPT ![n] = head[n]]
  /\ stale' = [l \in Links |-> stale[l] \/ l[2] = n]
  /\ UNCHANGED <<chains, up, announced, pull, session, drops, blamed>>

\* A peer task sees the head changed and announces it.
Announce(l) ==
  /\ up[l] /\ stale[l]
  /\ stale' = [stale EXCEPT ![l] = FALSE]
  /\ announced' = [announced EXCEPT ![l] = @ \cup {watch[l[2]]}]
  /\ UNCHANGED <<chains, watch, up, pull, session, drops, blamed>>

\* A dial succeeds; hold begins by announcing where the node stands.
Connect(l) ==
  /\ ~up[l]
  /\ up' = [up EXCEPT ![l] = TRUE]
  /\ stale' = [stale EXCEPT ![l] = FALSE]
  /\ announced' = [announced EXCEPT ![l] = {watch[l[2]]}]
  /\ UNCHANGED <<chains, watch, pull, session, drops, blamed>>

\* The connection goes, and both ends' Link state with it.
Down(l) ==
  /\ up' = [up EXCEPT ![l] = FALSE]
  /\ announced' = [announced EXCEPT ![l] = {}]
  /\ pull' = [pull EXCEPT ![l] = "Idle"]
  /\ session' = [session EXCEPT ![l] = NoSession]
  /\ UNCHANGED stale

\* The network loses a connection, or one side times out.
Drop(l) ==
  /\ up[l] /\ drops < MaxDrops
  /\ drops' = drops + 1
  /\ Down(l)
  /\ UNCHANGED <<chains, watch, blamed>>

-----------------------------------------------------------------------------
(* Link: when to pull.                                                     *)

\* Slip: an announce that lands mid-pull is dropped.
WantPullOnce(l) ==
  IF pull[l] = "Idle"
  THEN /\ pull' = [pull EXCEPT ![l] = "Running"]
       /\ session' = [session EXCEPT ![l] = Opened]
  ELSE UNCHANGED <<pull, session>>

\* Link::pull: open one now, or owe one to the pull that is running.
WantPull(l) ==
  IF pull[l] = "Idle"
  THEN /\ pull' = [pull EXCEPT ![l] = "Running"]
       /\ session' = [session EXCEPT ![l] = Opened]
  ELSE /\ pull' = [pull EXCEPT ![l] = "RunningAgain"]
       /\ UNCHANGED session

\* The acceptor reads one announce; announces may overtake each other.
OnAnnounce(l) ==
  /\ \E h \in announced[l] :
       /\ announced' = [announced EXCEPT ![l] = @ \ {h}]
       /\ IF h = head[l[1]] THEN UNCHANGED <<pull, session>> ELSE WantPull(l)
  /\ UNCHANGED <<chains, watch, up, stale, drops, blamed>>

\* A pull that ended in an outcome is settled: run the one that is owed.
Settle(l) ==
  /\ session[l].phase = "ended"
  /\ IF pull[l] = "RunningAgain"
     THEN pull' = [pull EXCEPT ![l] = "Running"]
          /\ session' = [session EXCEPT ![l] = Opened]
     ELSE pull' = [pull EXCEPT ![l] = "Idle"]
          /\ session' = [session EXCEPT ![l] = NoSession]
  /\ UNCHANGED <<chains, watch, up, stale, announced, drops, blamed>>

\* A session error closes the connection over the peer; egress dials again.
Blame(l, why) ==
  /\ blamed' = blamed \cup {<<l, why>>}
  /\ Down(l)
  /\ UNCHANGED <<watch, drops>>

Move(l, s) ==
  /\ session' = [session EXCEPT ![l] = s]
  /\ UNCHANGED <<watch, up, stale, announced, pull, drops, blamed>>

-----------------------------------------------------------------------------
(* sync::Server, at s.                                                     *)

Frame(kind, head_, at, batch) ==
  [kind |-> kind, head |-> head_, at |-> at, batch |-> batch]
HelloFrame(h)  == Frame("Hello", h, None, {})
SplitFrame(d)  == Frame("Split", None, d, {})
NoSplitFrame   == Frame("NoSplit", None, None, {})
RunFrame(b)    == Frame("Envelopes", None, None, b)
CaughtUpFrame  == Frame("CaughtUp", None, None, {})

Send(x, frame) == [x EXCEPT !.stream = Append(@, frame)]

\* The stream is accepted, its Hello read and answered with the head.
ServeHello(l) ==
  /\ session[l].server = "accept"
  /\ Move(l, [Send(session[l], HelloFrame(head[l[2]])) EXCEPT !.server = "find"])
  /\ UNCHANGED chains

\* FindSplit is read and the core has an entry of the locator on its path.
ServeSplit(l) ==
  /\ session[l].server = "find" /\ session[l].phase = "split"
  /\ \E d \in session[l].locator :
       /\ IsSplit(l[2], session[l].locator, d)
       /\ Move(l, [Send(session[l], SplitFrame(d))
                     EXCEPT !.server = "segment", !.sent = d])
  /\ UNCHANGED chains

ServeNoSplit(l) ==
  /\ session[l].server = "find" /\ session[l].phase = "split"
  /\ Walk(l[2]) \cap session[l].locator = {}
  /\ Move(l, [Send(session[l], NoSplitFrame) EXCEPT !.server = "done"])
  /\ UNCHANGED chains

\* Slip: the whole path goes out in one segment.
ServeSegmentWhole(l) ==
  /\ session[l].server = "segment"
  /\ Newer(l[2], session[l].sent) # {}
  /\ Move(l, [Send(session[l], RunFrame(Newer(l[2], session[l].sent)))
                EXCEPT !.sent = head[l[2]]])
  /\ UNCHANGED chains

\* One segment of the current path just after what was sent: some first part
\* of it within the count, which the byte budget may cut shorter.
ServeSegment(l) ==
  /\ session[l].server = "segment"
  /\ \E t \in Newer(l[2], session[l].sent) :
       LET b == Above(session[l].sent, t)
       IN /\ Cardinality(b) <= MaxBatch
          /\ Move(l, [Send(session[l], RunFrame(b)) EXCEPT !.sent = t])
  /\ UNCHANGED chains

\* Nothing newer: caught up, or what was sent has left the path.
ServeCaughtUp(l) ==
  /\ session[l].server = "segment"
  /\ Newer(l[2], session[l].sent) = {}
  /\ Move(l, [Send(session[l], CaughtUpFrame) EXCEPT !.server = "done"])
  /\ UNCHANGED chains

-----------------------------------------------------------------------------
(* sync::Puller, at p.                                                     *)

Received(l)  == Head(session[l].stream)
Read(l)      == [session[l] EXCEPT !.stream = Tail(@)]
Awaits(l, phase) == session[l].phase = phase /\ session[l].stream # <<>>
Ended        == [NoSession EXCEPT !.phase = "ended"]
Breach(l)    == Blame(l, "breach") /\ UNCHANGED chains

\* The peer's head is in the log already, or has to be fetched.
PullHello(l) ==
  /\ Awaits(l, "hello")
  /\ IF Received(l).kind # "Hello" THEN Breach(l)
     ELSE /\ Move(l, IF Received(l).head \in log[l[1]] THEN Ended
                     ELSE [Read(l) EXCEPT !.phase = "locator"])
          /\ UNCHANGED chains

\* The core samples the path and FindSplit goes out.
PullLocator(l) ==
  /\ session[l].phase = "locator"
  /\ Move(l, [session[l] EXCEPT !.phase = "split", !.locator = Locator(l[1])])
  /\ UNCHANGED chains

PullSplit(l) ==
  /\ Awaits(l, "split")
  /\ Received(l).kind # "NoSplit"
  /\ IF Received(l).kind = "Split" /\ Received(l).at \in session[l].locator
     THEN Move(l, [Read(l) EXCEPT !.phase = "batch", !.locator = {},
                                  !.cursor = Received(l).at])
          /\ UNCHANGED chains
     ELSE Breach(l)

PullNoSplit(l) ==
  /\ Awaits(l, "split")
  /\ Received(l).kind = "NoSplit"
  /\ Move(l, Ended)
  /\ UNCHANGED chains

\* The batch is a run that continues from the cursor up to t.
Linked(l, b, t) ==
  /\ t \in b /\ session[l].cursor \in Anc[t]
  /\ b = Above(session[l].cursor, t)
  /\ Cardinality(b) <= MaxBatch

\* A batch is judged, then inserted; a refused insert ends the session over
\* the peer, with whatever part of the run was taken.
PullBatch(l) ==
  /\ Awaits(l, "batch")
  /\ Received(l).kind # "CaughtUp"
  /\ LET p == l[1]
         b == Received(l).batch
     IN IF \E t \in b : Linked(l, b, t)
        THEN /\ Insert(p, b)
             /\ IF Taken(log[p], versions[p], b) = b
                THEN \E t \in b : /\ Linked(l, b, t)
                                  /\ Move(l, [Read(l) EXCEPT !.cursor = t])
                ELSE Blame(l, "refused")
        ELSE Breach(l)

PullCaughtUp(l) ==
  /\ Awaits(l, "batch")
  /\ Received(l).kind = "CaughtUp"
  /\ Move(l, Ended)
  /\ UNCHANGED chains

-----------------------------------------------------------------------------
Init ==
  /\ log = [n \in Node |-> Start[n].log]
  /\ root = [n \in Node |-> Start[n].root]
  /\ head = [n \in Node |-> Start[n].head]
  /\ versions = [n \in Node |->
                   IF Start[n].root = Genesis THEN Start[n].log
                   ELSE {Start[n].root} \cup Above(Start[n].root, Start[n].head)]
  /\ watch = head
  /\ up = [l \in Links |-> FALSE]
  /\ stale = [l \in Links |-> FALSE]
  /\ announced = [l \in Links |-> {}]
  /\ pull = [l \in Links |-> "Idle"]
  /\ session = [l \in Links |-> NoSession]
  /\ drops = 0
  /\ blamed = {}

\* What a link does when its tasks are scheduled, the network willing.
Link(l) ==
  \/ Connect(l) \/ Announce(l) \/ OnAnnounce(l) \/ Settle(l)
  \/ ServeHello(l) \/ ServeSplit(l) \/ ServeNoSplit(l)
  \/ ServeSegment(l) \/ ServeCaughtUp(l)
  \/ PullHello(l) \/ PullLocator(l) \/ PullSplit(l) \/ PullNoSplit(l)
  \/ PullBatch(l) \/ PullCaughtUp(l)

Next ==
  \/ \E n \in Node : Author(n) \/ Compact(n) \/ Notify(n)
  \/ \E l \in Links : Link(l) \/ Drop(l)

Spec == Init /\ [][Next]_vars

\* Every task is scheduled: the egress drains its subscription, a peer task
\* sees its watch and dials again after its back-off, announces arrive, and
\* both ends of a session make progress.
Fairness ==
  /\ \A n \in Node : WF_vars(Notify(n))
  /\ \A l \in Links :
       /\ WF_vars(Connect(l)) /\ WF_vars(Announce(l))
       /\ WF_vars(OnAnnounce(l)) /\ WF_vars(Settle(l))
       /\ WF_vars(ServeHello(l) \/ ServeSplit(l) \/ ServeNoSplit(l)
                    \/ ServeSegment(l) \/ ServeCaughtUp(l))
       /\ WF_vars(PullHello(l) \/ PullLocator(l) \/ PullSplit(l)
                    \/ PullNoSplit(l) \/ PullBatch(l) \/ PullCaughtUp(l))

FairSpec == Spec /\ Fairness

-----------------------------------------------------------------------------
(* Properties.                                                             *)

\* A run within the segment budget.
Batch == {b \in SUBSET Digest : Cardinality(b) <= MaxBatch}

FrameType ==
  [kind : {"Hello", "Split", "NoSplit", "Envelopes", "CaughtUp"},
   head : Digest \cup {None}, at : Digest \cup {None}, batch : Batch]

SessionType ==
  [phase : {"none", "hello", "locator", "split", "batch", "ended"},
   locator : SUBSET Digest, cursor : Digest \cup {None},
   server : {"none", "accept", "find", "segment", "done"},
   sent : Digest \cup {None}, stream : Seq(FrameType)]

\* Types.  Every batch on a stream respects the segment budget: the server
\* machine asserts it of its core.
TypeOK ==
  /\ log \in [Node -> SUBSET Digest] /\ versions \in [Node -> SUBSET Digest]
  /\ root \in [Node -> Digest] /\ head \in [Node -> Digest]
  /\ watch \in [Node -> Digest]
  /\ up \in [Links -> BOOLEAN] /\ stale \in [Links -> BOOLEAN]
  /\ announced \in [Links -> SUBSET Digest]
  /\ pull \in [Links -> {"Idle", "Running", "RunningAgain"}]
  /\ session \in [Links -> SessionType]
  /\ drops \in 0 .. MaxDrops
  /\ blamed \subseteq Links \X {"breach", "refused"}

\* What every insert and every compaction leaves a node with: a log of its
\* root and descendants of it without gaps, versions only of stored
\* envelopes, and a head where the walk from the root ends.  The inductive
\* core of Agreement.
Sound ==
  \A n \in Node :
    /\ root[n] \in log[n]
    /\ \A d \in log[n] : root[n] \in Anc[d] /\ Above(root[n], d) \subseteq log[n]
    /\ versions[n] \subseteq log[n]
    /\ IsTip(log[n], log[n], root[n], head[n])

\* Nobody has compacted: every log reaches down to the Init.
Uncut == \A n \in Node : root[n] = Genesis

\* No session between nodes that run this code ends in a Breach, whatever
\* moves on either side while it runs: every split is an entry of the
\* locator it answers, every batch continues where the last one ended.  And
\* before the first compaction anywhere no run is refused, SyncError::Ingest:
\* "The chain refused the peer's envelopes. The peer's fault".
NeverBlamed ==
  \A l \in Links :
    /\ <<l, "breach">> \notin blamed
    /\ Uncut => <<l, "refused">> \notin blamed

\* Two nodes that each hold the other's head stand at the same head: the
\* fork rule is applied to different logs, in any order of arrival and over
\* roots compaction has moved apart, and still agrees.
Agreement ==
  \A m, n \in Node :
    head[m] \in log[n] /\ head[n] \in log[m] => head[m] = head[n]

\* A link with nothing left to do: connected, the latest head announced and
\* read, no pull running.
Quiet(l) ==
  /\ up[l] /\ ~stale[l] /\ watch[l[2]] = head[l[2]]
  /\ announced[l] = {} /\ pull[l] = "Idle"

\* No wake-up is lost: while nobody has compacted, when a link falls quiet the
\* acceptor holds the dialler's head, however announces, pulls, reorganisations
\* of the server's path and the folding of announces into one more pull
\* interleaved.
QuietMeansHeld ==
  Uncut => \A l \in Links : Quiet(l) => head[l[2]] \in log[l[1]]

\* Server: "a cursor that a reorg detaches from the canonical path ends the
\* stream early at [`CaughtUp`] [...] the next anti-entropy round carries the
\* rest": while nobody has compacted, a stream that ends short of the tip leaves
\* the acceptor with another pull to make or an announce to come.
EarlyEndFollowed ==
  Uncut => \A l \in Links :
    Awaits(l, "batch") /\ Received(l).kind = "CaughtUp"
      => \/ head[l[2]] \in log[l[1]]
         \/ stale[l] \/ watch[l[2]] # head[l[2]]
         \/ announced[l] # {} \/ pull[l] = "RunningAgain"

\* Once nothing new is authored and the network stays, every node ends at
\* the same head.
Converges == <>[](\A m, n \in Node : head[m] = head[n])
=============================================================================

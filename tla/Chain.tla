------------------------------- MODULE Chain -------------------------------
(***************************************************************************)
(* One node's chain over its store: the envelope log, the versions (the    *)
(* ledger state standing at a digest), the oldest-envelope file and the    *)
(* in-memory cursor (state::Chain inside lotusd::Core).                    *)
(*                                                                         *)
(* The core is owned by one mainloop, so operations do not interleave with *)
(* each other; what interleaves is failure.  Every statement the store     *)
(* makes durable on its own is a step of its own, and a crash, a failing   *)
(* statement or a power loss may come between any two.                     *)
(*                                                                         *)
(* A definition marked "Slip" is a plausible mistake in the definition     *)
(* after it.  The specification never uses it; the mutation runs put it in *)
(* that definition's place, to show which property would notice.           *)
(***************************************************************************)
EXTENDS Envelopes

CONSTANTS
  Valid,    \* the envelopes that apply to their parent's version
  Guarded,  \* those a signature threshold stands over at their parent
  Roots,    \* what a node may start from: Genesis, or an adopted root
  Inherited,\* envelopes an earlier build left in the log, versions pruned
  Faults    \* failures the environment may inject

\* What a node inherits hangs off its root; a root's parent was pruned.
ASSUME InheritedAssumption ==
  /\ Roots \subseteq Digest
  /\ Inherited \subseteq Digest \ Roots
  /\ \A r \in Roots \ {Genesis} : Prev[r] \notin Inherited

ASSUME ValidAssumption == Valid \subseteq Digest /\ Guarded \subseteq Digest

ASSUME FaultAssumption == Faults \subseteq {"crash", "storage", "power"}

VARIABLES
  log,       \* digests the envelope log holds
  weighed,   \* those of them stored with a verified status
  versions,  \* digests the store holds a version of
  oldest,    \* the digest in the oldest-envelope file (Core::oldest)
  synced,    \* log, weighed and versions as a power loss would find them,
             \* and every digest it may find in the oldest-envelope file
  root,      \* Chain::root
  head,      \* Chain::head, where the chain's ledger stands
  pc,        \* what the core is doing
  trial,     \* store_batch: the digest the trial ledger stands at
  last,      \* store_batch: the previous envelope of the run
  allDup,    \* store_batch: every envelope so far was already in the log
  result,    \* what the last insert returned
  at,        \* canonicalize: how far the walk has come
  orphaned,  \* every digest a published Movement called orphaned
  regressed  \* a compaction has moved the oldest envelope backward

store  == <<log, weighed, versions, oldest, synced>>
cursor == <<root, head>>
batch  == <<trial, last, allDup>>
told   == <<orphaned, regressed>>
vars   == <<store, cursor, pc, batch, result, at, told>>

-----------------------------------------------------------------------------
Errors == {"UnexpectedInit", "ChainMismatch", "UnknownParent", "Rejected",
           "UnknownHead", "Diverged", "Storage"}

Results == {"none", "ok", "Extended", "Reorged", "Unchanged", "Duplicate",
            "Compacted"} \cup Errors

\* An initialised state directory, the daemon not yet started.  The node
\* stands on the genesis it created, whose status is verified, or on a root a
\* sponsor handed it, stored with the status it arrived with.
Init ==
  /\ \E r \in Roots :
       /\ log = {r} \cup Inherited /\ versions = {r}
       /\ weighed = ({r} \cap {Genesis}) \cup Inherited
       /\ oldest = r /\ root = r /\ head = r
  /\ synced = [log |-> log, weighed |-> weighed, versions |-> versions,
                oldest |-> {oldest}]
  /\ pc = "down"
  /\ trial = None /\ last = None /\ allDup = TRUE
  /\ result = "none"
  /\ at = None
  /\ orphaned = {} /\ regressed = FALSE

-----------------------------------------------------------------------------
(* Insert.  A run of envelopes arrives one at a time; what comes next is   *)
(* chosen as the run is read, so a run of any length is covered.           *)

\* Core::insert, Chain::insert_batch: open the run.
BeginInsert ==
  /\ pc = "idle"
  /\ pc' = "store"
  /\ trial' = None /\ last' = None /\ allDup' = TRUE
  /\ result' = "ok"
  /\ UNCHANGED <<store, cursor, at, told>>

\* insert_batch walks whatever became of the run.
EndBatch ==
  /\ pc = "store"
  /\ pc' = "walk"
  /\ at' = None
  /\ UNCHANGED <<store, cursor, batch, result, told>>

\* Slip: a refused run returns without walking over the prefix it stored.
RefuseWithoutWalk(error) ==
  /\ result' = error
  /\ pc' = "idle"
  /\ at' = None
  /\ UNCHANGED <<store, cursor, batch, told>>

\* store_batch returns an error; the walk still runs.
Refuse(error) ==
  /\ result' = error
  /\ pc' = "walk"
  /\ at' = None
  /\ UNCHANGED <<store, cursor, batch, told>>

\* An Init never continues a run.
RefuseInit(d) ==
  /\ pc = "store"
  /\ d = Genesis
  /\ Refuse("UnexpectedInit")

\* Each envelope chains onto the one before it.
RefuseGap(d) ==
  /\ pc = "store"
  /\ d # Genesis
  /\ last # None /\ Prev[d] # last
  /\ Refuse("ChainMismatch")

Continues(d) == d # Genesis /\ (last = None \/ Prev[d] = last)

\* The ledger standing at d's parent: the trial ledger, or one opened there.
Footing(d) ==
  IF trial # None THEN trial
  ELSE IF Prev[d] \in versions THEN Prev[d] ELSE None

Accept(d, L, W, V, t, next) ==
  /\ log' = L /\ weighed' = W /\ versions' = V
  /\ trial' = t /\ last' = d
  /\ allDup' = (allDup /\ d \in log)
  /\ pc' = next
  /\ UNCHANGED <<oldest, synced, cursor, result, at, told>>

\* Slip: taken into the log with no parent version to verify it against.
FoldKnownUnverified(d) ==
  /\ pc = "store" /\ Continues(d)
  /\ d \in versions
  /\ Accept(d, log \cup {d},
            IF d \in log \/ Footing(d) = None THEN weighed ELSE weighed \cup {d},
            versions, d, "store")

\* A version stands at d already: it applied before.  Taken into the log
\* only when there is a parent version to verify its signatures against.
FoldKnown(d) ==
  /\ pc = "store" /\ Continues(d)
  /\ d \in versions
  /\ IF d \notin log /\ Footing(d) # None
     THEN Accept(d, log \cup {d}, weighed \cup {d}, versions, d, "store")
     ELSE Accept(d, log, weighed, versions, d, "store")

\* A stored envelope this run cannot stand on: the parent's version is gone,
\* or it does not apply.  The copy that arrived is applied, and a stored
\* digest's copy is not verified again, so no threshold is met by it.  Left
\* for the walk to adjudicate, by the status in the log.
FoldStored(d) ==
  /\ pc = "store" /\ Continues(d)
  /\ d \notin versions /\ d \in log
  /\ Footing(d) = None \/ d \notin Valid \/ d \in Guarded
  /\ Accept(d, log, weighed, versions, None, "store")

RefuseUnknownParent(d) ==
  /\ pc = "store" /\ Continues(d)
  /\ d \notin versions /\ d \notin log
  /\ Footing(d) = None
  /\ Refuse("UnknownParent")

RefuseRejected(d) ==
  /\ pc = "store" /\ Continues(d)
  /\ d \notin versions /\ d \notin log
  /\ Footing(d) # None /\ d \notin Valid
  /\ Refuse("Rejected")

\* The trial ledger applies d and commits its version.  A new envelope is
\* put into the log by a statement of its own, after that commit.
Apply(d) ==
  /\ pc = "store" /\ Continues(d)
  /\ d \notin versions /\ Footing(d) # None /\ d \in Valid
  /\ d \in log => d \notin Guarded
  /\ Accept(d, log, weighed, versions \cup {d}, d,
            IF d \in log THEN "store" ELSE "put")

PutEnvelope ==
  /\ pc = "put"
  /\ log' = log \cup {last} /\ weighed' = weighed \cup {last}
  /\ pc' = "store"
  /\ UNCHANGED <<versions, oldest, synced, cursor, batch, result, at, told>>

StoreNext(d) ==
  \/ RefuseInit(d) \/ RefuseGap(d)
  \/ FoldKnown(d) \/ FoldStored(d)
  \/ RefuseUnknownParent(d) \/ RefuseRejected(d)
  \/ Apply(d)

-----------------------------------------------------------------------------
(* canonicalize: one Chain::step at a time down from the root.  pc is      *)
(* "walk" inside an insert and "open" inside Chain::open.                  *)

Walking == pc \in {"walk", "open"}

\* The walk ends in an error: an insert returns it with the head where it
\* stood, an open fails and the daemon does not start.
WalkError(error) ==
  /\ IF pc = "walk"
     THEN /\ pc' = "idle" /\ result' = error
          /\ UNCHANGED cursor
     ELSE /\ pc' = "down" /\ result' = "none"
          /\ root' = oldest /\ head' = oldest
  /\ trial' = None /\ last' = None /\ allDup' = TRUE
  /\ at' = None
  /\ UNCHANGED told

\* Ledger::open at the root.
WalkStart ==
  /\ Walking /\ at = None
  /\ IF root \in versions
     THEN /\ at' = root
          /\ UNCHANGED <<store, cursor, pc, batch, result, told>>
     ELSE WalkError("UnknownHead") /\ UNCHANGED store

\* The winning child has a version, or gains one by applying.
StepDown(w) ==
  /\ Walking /\ at # None
  /\ Winner(log, weighed, at, w)
  /\ w \in versions \/ w \in Valid
  /\ versions' = versions \cup {w}
  /\ at' = w
  /\ UNCHANGED <<log, weighed, oldest, synced, cursor, pc, batch, result, told>>

\* Slip: the refused winner stays in the log.
StepRefusedKept(w) ==
  /\ Walking /\ at # None
  /\ Winner(log, weighed, at, w)
  /\ w \notin versions /\ w \notin Valid
  /\ WalkError("Rejected")
  /\ UNCHANGED store

\* The winning child does not apply: it alone leaves the log.
StepRefused(w) ==
  /\ Walking /\ at # None
  /\ Winner(log, weighed, at, w)
  /\ w \notin versions /\ w \notin Valid
  /\ log' = log \ {w} /\ weighed' = weighed \ {w}
  /\ WalkError("Rejected")
  /\ UNCHANGED <<versions, oldest, synced>>

\* What insert_batch reports for a run that was stored without error.
Report(from, to) ==
  IF result # "ok" THEN result
  ELSE IF to = from
       THEN IF last # None /\ allDup THEN "Duplicate" ELSE "Unchanged"
       ELSE IF from \in Hops(log, to) THEN "Extended" ELSE "Reorged"

\* ChangeDiffer::diff: the two heads are walked back until they meet.
Meet(from, to) == Hops(log, from) \cap Hops(log, to) # {}

\* Movement::orphaned: the old head's side of that walk.
Undone(from, to) == Hops(log, from) \ Hops(log, to)

\* At a tip the walk is over.  An insert publishes the movement, unless the
\* two heads share no ancestor the log still holds.
Arrive ==
  /\ Walking /\ at # None
  /\ Children(log, at) = {}
  /\ head' = at
  /\ IF pc = "walk"
     THEN IF Meet(head, at)
          THEN /\ result' = Report(head, at)
               /\ orphaned' = orphaned \cup Undone(head, at)
          ELSE result' = "Diverged" /\ UNCHANGED orphaned
     ELSE UNCHANGED <<result, orphaned>>
  /\ pc' = "idle"
  /\ trial' = None /\ last' = None /\ allDup' = TRUE
  /\ at' = None
  /\ UNCHANGED <<store, root, regressed>>

-----------------------------------------------------------------------------
(* Compaction.                                                             *)

\* The canonical path as Core::compact_before reads it: parent hops from the
\* head, stored envelopes only.
LoggedPath == Hops(log, head) \cap log

\* write_oldest syncs the new contents, renames them into place and does not
\* sync the directory: a power loss finds them, or what stood before.
Renamed(c) ==
  IF "power" \in Faults THEN [synced EXCEPT !.oldest = @ \cup {c}] ELSE synced

\* choose_cut takes some envelope of the logged path that has another one
\* below it.  Which one depends on arrival times, on the retention settings
\* and on how long the path is, none of which the chain constrains.  The
\* oldest-envelope file is rewritten before anything is pruned.
BeginCompact(c) ==
  /\ pc = "idle"
  /\ c \in LoggedPath \ {Genesis} /\ Prev[c] \in LoggedPath
  /\ oldest' = c
  /\ regressed' = (regressed \/ (c \in Anc[oldest] /\ c # oldest))
  /\ synced' = Renamed(c)
  /\ pc' = "prune"
  /\ result' = "none"
  /\ UNCHANGED <<log, weighed, versions, cursor, batch, at, orphaned>>

\* Slip: one hop down instead of all of them.
AncestorsOneHop == {a \in Hops(log, oldest) : a # oldest /\ Above(a, oldest) = {oldest}}

\* The cut's ancestors, as far down as the log reaches.
Ancestors == Hops(log, oldest) \ {oldest}

\* The stored descendants of a's dead children, reached through the
\* children index.
DeadBranches(a) ==
  {d \in log : /\ a \in Anc[d] /\ d # a
               /\ Above(a, d) \subseteq log
               /\ Above(a, d) \cap Anc[oldest] = {}}

\* Everything one ancestor takes with it.
Doomed(a) == DeadBranches(a) \cup ({a} \cap log)

\* Oldest ancestor first, its dead branches before it, children before their
\* parent.
Prunable(d) ==
  \E a \in Ancestors :
    /\ \A b \in (Ancestors \cap Anc[a]) \ {a} : Doomed(b) = {}
    /\ \/ d \in DeadBranches(a) /\ Children(log, d) = {}
       \/ d = a /\ d \in log /\ DeadBranches(a) = {}

\* Slip: the envelope goes, its recorded status stays.
PruneOneKeepsStatus(d) ==
  /\ pc = "prune"
  /\ Prunable(d)
  /\ log' = log \ {d}
  /\ UNCHANGED <<weighed, versions, oldest, synced, cursor, pc, batch, result, at, told>>

PruneOne(d) ==
  /\ pc = "prune"
  /\ Prunable(d)
  /\ log' = log \ {d} /\ weighed' = weighed \ {d}
  /\ UNCHANGED <<versions, oldest, synced, cursor, pc, batch, result, at, told>>

\* Slip: the cut's own version is not among the kept.
RetainAboveCut ==
  /\ pc = "prune"
  /\ \A a \in Ancestors : Doomed(a) = {}
  /\ versions' = versions \cap Above(oldest, head)
  /\ root' = oldest
  /\ pc' = "idle"
  /\ result' = "Compacted"
  /\ UNCHANGED <<log, weighed, oldest, synced, head, batch, at, told>>

\* Slip: only the two ends of the path are kept.
RetainEnds ==
  /\ pc = "prune"
  /\ \A a \in Ancestors : Doomed(a) = {}
  /\ versions' = versions \cap {oldest, head}
  /\ root' = oldest
  /\ pc' = "idle"
  /\ result' = "Compacted"
  /\ UNCHANGED <<log, weighed, oldest, synced, head, batch, at, told>>

\* Storage::retain drops every version off the path head..cut; then the
\* chain stands on its new root.
Retain ==
  /\ pc = "prune"
  /\ \A a \in Ancestors : Doomed(a) = {}
  /\ versions' = versions \cap (Above(oldest, head) \cup {oldest})
  /\ root' = oldest
  /\ pc' = "idle"
  /\ result' = "Compacted"
  /\ UNCHANGED <<log, weighed, oldest, synced, head, batch, at, told>>

-----------------------------------------------------------------------------
(* Failure and restart.                                                    *)

\* The process is gone; everything in memory with it.
Stop ==
  /\ pc' = "down"
  /\ root' = oldest' /\ head' = oldest'
  /\ trial' = None /\ last' = None /\ allDup' = TRUE
  /\ result' = "none" /\ at' = None

Crash ==
  /\ "crash" \in Faults
  /\ pc # "down"
  /\ UNCHANGED store
  /\ Stop
  /\ UNCHANGED told

\* A statement of the store fails under an insert: the run ends there and
\* the walk still runs.
StoreFails ==
  /\ "storage" \in Faults
  /\ pc \in {"store", "put"}
  /\ Refuse("Storage")

\* A read or a commit fails under the walk.
WalkFails ==
  /\ "storage" \in Faults
  /\ Walking
  /\ WalkError("Storage")
  /\ UNCHANGED store

\* A read fails once the walk has moved the head (the one Report makes, or
\* the diff): the movement is published to nobody, then or later.
DiffFails ==
  /\ "storage" \in Faults
  /\ pc = "walk" /\ at # None /\ at # head
  /\ Children(log, at) = {}
  /\ head' = at
  /\ result' = "Storage"
  /\ pc' = "idle"
  /\ trial' = None /\ last' = None /\ allDup' = TRUE
  /\ at' = None
  /\ UNCHANGED <<store, root, told>>

\* A statement fails under a compaction: the error returns before the
\* chain's own root moves.
PruneFails ==
  /\ "storage" \in Faults
  /\ pc = "prune"
  /\ pc' = "idle"
  /\ result' = "Storage"
  /\ UNCHANGED <<store, cursor, batch, at, told>>

\* The database reaches the disk, and with it perhaps the rename of the
\* oldest-envelope file, which nothing syncs.
Sync ==
  /\ "power" \in Faults
  /\ \E names \in {{oldest}, synced.oldest} :
       synced' = [log |-> log, weighed |-> weighed, versions |-> versions,
                  oldest |-> names]
  /\ UNCHANGED <<log, weighed, versions, oldest, cursor, pc, batch, result, at, told>>

\* With synchronous = NORMAL a power loss rolls the database back to a
\* transaction boundary at or after the last one that reached the disk, and
\* the oldest-envelope file to a name its directory had on the disk.
PowerLoss ==
  /\ "power" \in Faults
  /\ pc # "down"
  /\ log' = synced.log /\ weighed' = synced.weighed
  /\ versions' = synced.versions
  /\ oldest' \in synced.oldest
  /\ synced' = [synced EXCEPT !.oldest = {oldest'}]
  /\ Stop
  /\ UNCHANGED told

\* Core::init_with_state_dir, Chain::open: the oldest envelope must be
\* stored and have a version; the walk follows.
Open ==
  /\ pc = "down"
  /\ oldest \in log /\ oldest \in versions
  /\ root' = oldest
  /\ pc' = "open"
  /\ at' = None
  /\ UNCHANGED <<store, head, batch, result, told>>

-----------------------------------------------------------------------------
Next ==
  \/ BeginInsert
  \/ \E d \in Digest : StoreNext(d)
  \/ PutEnvelope
  \/ EndBatch
  \/ WalkStart
  \/ \E d \in Digest : StepDown(d) \/ StepRefused(d)
  \/ Arrive
  \/ \E d \in Digest : BeginCompact(d) \/ PruneOne(d)
  \/ Retain
  \/ Crash \/ StoreFails \/ WalkFails \/ DiffFails \/ PruneFails \/ Sync \/ PowerLoss
  \/ Open

Spec == Init /\ [][Next]_vars

\* The supervisor starts a stopped daemon again, and a walk under way is
\* driven to its end.
FairSpec ==
  /\ Spec
  /\ WF_vars(Open)
  /\ WF_vars(WalkStart \/ Arrive \/ \E d \in Digest : StepDown(d) \/ StepRefused(d))

-----------------------------------------------------------------------------
(* Properties.                                                             *)

TypeOK ==
  /\ log \subseteq Digest /\ weighed \subseteq log /\ versions \subseteq Digest
  /\ oldest \in Digest /\ root \in Digest /\ head \in Digest
  /\ synced \in [log : SUBSET Digest, weighed : SUBSET Digest,
                 versions : SUBSET Digest, oldest : SUBSET Digest]
  /\ synced.weighed \subseteq synced.log
  /\ pc \in {"idle", "store", "put", "walk", "open", "prune", "down"}
  /\ trial \in Digest \cup {None} /\ last \in Digest \cup {None}
  /\ at \in Digest \cup {None}
  /\ pc = "put" => last # None
  /\ allDup \in BOOLEAN /\ regressed \in BOOLEAN
  /\ result \in Results
  /\ orphaned \subseteq Digest

\* The oldest-envelope file names an envelope the store holds, with its
\* version, at every moment the node could stop (Core::root_envelope expects
\* it, Chain::open refuses otherwise).
OldestOpenable == oldest \in log /\ oldest \in versions

\* Between operations, and at any moment of a prune, a restart would stand
\* the node exactly where it stands: the walk from the durable root, through
\* whatever is left of the log, ends at the head.  (Core::compact_before,
\* Chain::compact: "the head does not move".)
ReopensAtHead ==
  (pc \in {"idle", "prune"} /\ ~regressed) =>
    IsTip(log, weighed, oldest, head)

\* From the oldest envelope to the head everything is stored and has its
\* version, so reads at the head, sync segments and welcome roots never meet
\* a hole.
PathHeld ==
  pc # "down" =>
    /\ oldest \in Anc[head]
    /\ ({oldest} \cup Above(oldest, head)) \subseteq (log \cap versions)

\* No stored envelope ranks below the weight its signatures earned: nothing
\* but an adopted root is ever stored with an unchecked status.
NoDowngrade == \A d \in log \ weighed : d \in Roots \ {Genesis}

\* Whatever a published Movement called orphaned is off the chain for good.
OrphansStayOff == pc # "down" => orphaned \cap Anc[head] = {}

\* A compaction that finishes leaves nothing in the log but the cut and its
\* descendants, and the cut was not below the root it replaces.
CompactionIsComplete ==
  [][(pc = "prune" /\ result' = "Compacted") =>
       ~regressed /\ \A d \in log' : oldest \in Anc[d]]_vars

\* A node that cannot open because a stored winner no longer applies drops
\* it, so a later start succeeds: no walk wedges on re-refusing it.
EventuallyOpens == pc = "down" ~> pc = "idle"
=============================================================================

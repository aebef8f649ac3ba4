---------------------------- MODULE ChainProofs ----------------------------
(***************************************************************************)
(* Proofs about Chain for every envelope tree.                             *)
(***************************************************************************)
EXTENDS Chain, EnvelopesProofs

-----------------------------------------------------------------------------
(* Types.                                                                  *)

LEMMA TypeInit == Init => TypeOK
<1> SUFFICES ASSUME Init PROVE TypeOK
  OBVIOUS
<1>1. /\ log \subseteq Digest /\ weighed \subseteq log /\ versions \subseteq Digest
      /\ oldest \in Digest /\ root \in Digest /\ head \in Digest
  BY DigestAssumption, InheritedAssumption DEF Init
<1>2. synced = [log |-> log, weighed |-> weighed, versions |-> versions,
                oldest |-> {oldest}]
  BY DEF Init
<1>3. /\ synced \in [log : SUBSET Digest, weighed : SUBSET Digest,
                     versions : SUBSET Digest, oldest : SUBSET Digest]
      /\ synced.weighed \subseteq synced.log
  BY <1>1, <1>2
<1>4. allDup \in BOOLEAN /\ regressed \in BOOLEAN
  BY Zenon DEF Init
<1> QED
  BY <1>1, <1>3, <1>4 DEF Init, TypeOK, Results

\* Reading a run keeps the types.
LEMMA TypeStore ==
  ASSUME TypeOK, NEW d \in Digest, StoreNext(d)
  PROVE  TypeOK'
<1> USE DEF store, cursor, batch, told
<1>1. CASE RefuseInit(d) \/ RefuseGap(d) \/ RefuseUnknownParent(d) \/ RefuseRejected(d)
  BY <1>1 DEF TypeOK, RefuseInit, RefuseGap, RefuseUnknownParent,
              RefuseRejected, Refuse, Results, Errors
<1>2. CASE FoldKnown(d)
  <2>1. d # None
    BY DigestAssumption
  <2> QED
    BY <1>2, <2>1 DEF TypeOK, FoldKnown, Accept
<1>3. CASE FoldStored(d)
  BY <1>3 DEF TypeOK, FoldStored, Accept
<1>4. CASE Apply(d)
  <2>1. d # None
    BY DigestAssumption
  <2> QED
    BY <1>4, <2>1 DEF TypeOK, Apply, Accept
<1> QED
  BY <1>1, <1>2, <1>3, <1>4 DEF StoreNext

\* Every step keeps the types.
LEMMA TypeStep == TypeOK /\ [Next]_vars => TypeOK'
<1> SUFFICES ASSUME TypeOK, [Next]_vars PROVE TypeOK'
  OBVIOUS
<1> USE DEF store, cursor, batch, told
<1>1. CASE BeginInsert \/ PutEnvelope \/ EndBatch
  BY <1>1 DEF TypeOK, BeginInsert, PutEnvelope, EndBatch, Results
<1>2. CASE \E d \in Digest : StoreNext(d)
  BY <1>2, TypeStore
<1>3. CASE WalkStart
  BY <1>3 DEF TypeOK, WalkStart, WalkError, Results, Errors
<1>4. CASE \E d \in Digest : StepDown(d)
  BY <1>4 DEF TypeOK, StepDown
<1>5. CASE \E d \in Digest : StepRefused(d)
  BY <1>5 DEF TypeOK, StepRefused, WalkError, Results, Errors
<1>6. CASE Arrive
  <2>1. at \in Digest /\ Anc[head] \subseteq Digest
    BY <1>6, AncType DEF TypeOK, Arrive
  <2>2. Report(head, at) \in Results
    BY DEF TypeOK, Report, Results
  <2>3. Undone(head, at) \subseteq Digest
    BY <2>1 DEF Undone, Hops
  <2> QED
    BY <1>6, <2>1, <2>2, <2>3 DEF TypeOK, Arrive, Results, Errors
<1>7. CASE \E d \in Digest : BeginCompact(d)
  <2>1. PICK d \in Digest : BeginCompact(d)
    BY <1>7
  <2>2. /\ synced' \in [log : SUBSET Digest, weighed : SUBSET Digest,
                        versions : SUBSET Digest, oldest : SUBSET Digest]
        /\ synced'.weighed \subseteq synced'.log
    BY <2>1 DEF TypeOK, BeginCompact, Renamed
  <2> QED
    BY <2>1, <2>2 DEF TypeOK, BeginCompact, Results
<1>8. CASE \E d \in Digest : PruneOne(d)
  BY <1>8 DEF TypeOK, PruneOne
<1>9. CASE Retain
  BY <1>9 DEF TypeOK, Retain, Results
<1>10. CASE Crash \/ PowerLoss
  BY <1>10 DEF TypeOK, Crash, PowerLoss, Stop, Results
<1>11. CASE StoreFails \/ WalkFails \/ DiffFails \/ PruneFails
  BY <1>11 DEF TypeOK, StoreFails, WalkFails, DiffFails, PruneFails, Refuse, WalkError,
               Results, Errors
<1>12. CASE Sync \/ Open
  BY <1>12 DEF TypeOK, Sync, Open
<1>13. CASE UNCHANGED vars
  BY <1>13 DEF TypeOK, vars
<1> QED
  BY <1>1, <1>2, <1>3, <1>4, <1>5, <1>6, <1>7, <1>8, <1>9, <1>10, <1>11,
     <1>12, <1>13 DEF Next

\* Every variable keeps its type, and no status outlives its envelope,
\* whatever faults strike between two statements of the store.
THEOREM TypeCorrect == Spec => []TypeOK
BY TypeInit, TypeStep, PTL DEF Spec

-----------------------------------------------------------------------------
(* Where versions stand, whatever faults strike.                           *)

\* A version whose parent envelope is stored has its parent's version too.
Grounded(L, V) == \A d \in V \ {Genesis} : Prev[d] \in L => Prev[d] \in V

\* The trial ledger and the walk stand on versions; so does an open chain.
Footed ==
  /\ trial # None => trial = last /\ trial \in versions
  /\ pc = "put" => last \in versions
  /\ at # None => at \in versions
  /\ pc # "down" => head \in versions

\* Between operations nothing is under way, and a stopped node's cursor is
\* parked on the oldest-envelope file.
Resting ==
  /\ pc \in {"idle", "prune", "down"} => trial = None /\ at = None
  /\ pc = "down" => head = oldest

\* A compaction under way cuts a stored envelope of the canonical path.
CutOnPath == pc = "prune" => oldest \in log /\ oldest \in Anc[head]

Standing ==
  /\ TypeOK
  /\ Grounded(log, versions)
  /\ Grounded(synced.log, synced.versions)
  /\ Footed
  /\ Resting
  /\ CutOnPath

\* Parent hops from a version meet only versions, for as long as they meet
\* stored envelopes: a cut compaction may choose always has its version.
LEMMA HopsHeld ==
  ASSUME NEW L \in SUBSET Digest, NEW V \in SUBSET Digest, Grounded(L, V),
         NEW x \in V, NEW c \in Hops(L, x) \cap L
  PROVE  c \in V
<1> DEFINE S == {y \in Anc[x] : y \in V \/ (y \in Anc[c] /\ y # c)}
<1>1. x \in Digest /\ c \in Anc[x] /\ c \in Digest
  BY DEF Hops
<1>2. S \in SUBSET Digest /\ x \in S
  BY <1>1, AncType, AncSelf
<1>3. ASSUME NEW y \in S \ {Genesis} PROVE Prev[y] \in S
  <2>1. y \in Digest /\ Prev[y] \in Anc[x]
    BY <1>1, <1>2, AncClosed
  <2>2. CASE y \in V
    <3>1. CASE Prev[y] \in L
      BY <2>1, <2>2, <3>1 DEF Grounded
    <3>2. CASE Prev[y] \notin L
      BY <2>1, <3>2 DEF Hops, Above
    <3> QED
      BY <3>1, <3>2
  <2>3. CASE y \in Anc[c] /\ y # c
    <3>1. Prev[y] \in Anc[c]
      BY <2>3, <1>1, AncClosed
    <3>2. Prev[y] # c
      <4>1. Prev[y] \in Anc[y]
        BY <2>1, AncSelf, AncClosed
      <4> QED
        BY <4>1, <2>3, <2>1, <1>1, AncAntisymmetric
    <3> QED
      BY <3>1, <3>2, <2>1
  <2> QED
    BY <2>2, <2>3
<1>4. c \in S
  BY <1>1, <1>2, <1>3, AncLeast
<1> QED
  BY <1>4

\* Pruning never takes the cut nor anything above it.
LEMMA PruneBelow ==
  ASSUME TypeOK, NEW d \in Digest, Prunable(d)
  PROVE  oldest \notin Anc[d]
<1>1. oldest \in Digest
  BY DEF TypeOK
<1>2. PICK a \in Ancestors : d \in DeadBranches(a) \/ d = a
  BY DEF Prunable
<1>3. a \in Anc[oldest] /\ a # oldest /\ a \in Digest
  BY <1>1, AncType DEF Ancestors, Hops
<1>4. oldest \notin Anc[a]
  BY <1>1, <1>3, AncAntisymmetric
<1>5. CASE d = a
  BY <1>4, <1>5
<1>6. CASE d \in DeadBranches(a)
  BY <1>1, <1>4, <1>6, AncSelf DEF DeadBranches, Above
<1> QED
  BY <1>2, <1>5, <1>6

LEMMA StandingInit == Init => Standing
<1> SUFFICES ASSUME Init PROVE Standing
  OBVIOUS
<1>1. PICK r \in Roots : /\ log = {r} \cup Inherited /\ versions = {r}
                         /\ oldest = r /\ head = r
  BY DEF Init
<1>2. r \in Digest
  BY InheritedAssumption
<1>3. r # Genesis => Prev[r] # r /\ Prev[r] \notin Inherited
  BY <1>2, AncSelf, AncAcyclic, InheritedAssumption
<1>4. Grounded(log, versions)
  BY <1>1, <1>3 DEF Grounded
<1>5. synced.log = log /\ synced.versions = versions
  BY DEF Init
<1>6. Grounded(synced.log, synced.versions)
  BY <1>4, <1>5
<1>7. Footed /\ Resting /\ CutOnPath
  BY <1>1 DEF Init, Footed, Resting, CutOnPath
<1> QED
  BY <1>4, <1>6, <1>7, TypeInit DEF Standing

\* Reading a run: an envelope gains a version only over its parent's.
LEMMA StandingStore ==
  ASSUME Standing, NEW d \in Digest, StoreNext(d)
  PROVE  Standing'
<1> USE DEF store, cursor, batch, told
<1>1. TypeOK /\ TypeOK' /\ d # None
  BY TypeStore, DigestAssumption DEF Standing
<1>2. CASE RefuseInit(d) \/ RefuseGap(d) \/ RefuseUnknownParent(d) \/ RefuseRejected(d)
  <2>1. pc = "store" /\ pc' = "walk" /\ at' = None /\ UNCHANGED <<store, cursor, batch>>
    BY <1>2 DEF RefuseInit, RefuseGap, RefuseUnknownParent, RefuseRejected, Refuse
  <2> QED
    BY <1>1, <2>1 DEF Standing, Grounded, Footed, Resting, CutOnPath
<1>3. CASE FoldKnown(d)
  BY <1>1, <1>3 DEF Standing, Grounded, Footed, Resting, CutOnPath, FoldKnown, Accept
<1>4. CASE FoldStored(d)
  BY <1>1, <1>4 DEF Standing, Grounded, Footed, Resting, CutOnPath, FoldStored, Accept
<1>5. CASE Apply(d)
  <2>1. Prev[d] \in versions
    BY <1>1, <1>5 DEF Standing, Footed, Apply, Continues, Footing
  <2>2. /\ pc' \in {"store", "put"} /\ trial' = d /\ last' = d
        /\ versions' = versions \cup {d}
        /\ UNCHANGED <<log, synced, oldest, head, at>>
    BY <1>5 DEF Apply, Accept
  <2>3. Grounded(log, versions)'
    BY <2>1, <2>2 DEF Standing, Grounded
  <2>4. pc = "store"
    BY <1>5 DEF Apply
  <2> QED
    BY <1>1, <2>2, <2>3, <2>4 DEF Standing, Grounded, Footed, Resting, CutOnPath
<1> QED
  BY <1>2, <1>3, <1>4, <1>5 DEF StoreNext

\* Storage::retain keeps the path from the head to the cut, and nothing the
\* kept versions stand on is lost: below the cut the log is empty.
LEMMA StandingRetain ==
  ASSUME Standing, Retain
  PROVE  Standing'
<1> USE DEF store, cursor, batch, told
<1> DEFINE Path == Above(oldest, head) \cup {oldest}
<1>1. TypeOK /\ TypeOK'
  BY TypeStep DEF Standing, Next
<1>2. /\ oldest \in Digest /\ head \in Digest
      /\ oldest \in log /\ oldest \in Anc[head]
      /\ versions \subseteq Digest
  BY DEF Standing, TypeOK, CutOnPath, Retain
<1>3. head \in Path
  BY <1>2, AncSelf, AncAntisymmetric DEF Above
<1>4. ASSUME NEW d \in versions \cap Path, d # Genesis, Prev[d] \in log
      PROVE  Prev[d] \in versions \cap Path
  <2>1. d \in Digest /\ d \in Anc[head] /\ Prev[d] \in Digest
    BY <1>2, <1>4, EnvelopeAssumption DEF Above
  <2>2. Prev[d] \in versions
    BY <1>4 DEF Standing, Grounded
  <2>3. CASE d = oldest
    <3>1. Above(Prev[d], d) = {d}
      BY <2>1, <1>4, AncStep, AncAcyclic DEF Above
    <3>2. Prev[d] \in Anc[d] /\ Prev[d] # d
      BY <2>1, <1>4, AncStep, AncSelf, AncAcyclic
    <3>3. Prev[d] \in Ancestors
      BY <3>1, <3>2, <2>3, <1>2 DEF Ancestors, Hops
    <3>4. Prev[d] \notin log
      BY <3>3 DEF Retain, Doomed
    <3> QED
      BY <3>4, <1>4
  <2>4. CASE d # oldest
    <3>1. d \notin Anc[oldest]
      BY <2>4, <1>4 DEF Above
    <3>2. oldest \in Anc[d]
      BY <3>1, <2>1, <1>2, AncLinear
    <3>3. oldest \in Anc[Prev[d]]
      BY <3>2, <2>4, <2>1, <1>4, AncStep
    <3>4. Prev[d] \in Anc[head]
      BY <2>1, <1>2, <1>4, AncClosed
    <3>5. Prev[d] \in Anc[oldest] => Prev[d] = oldest
      BY <3>3, <1>2, AncAntisymmetric
    <3> QED
      BY <3>4, <3>5, <2>2 DEF Above
  <2> QED
    BY <2>3, <2>4
<1>5. versions' = versions \cap Path /\ pc = "prune" /\ pc' = "idle"
      /\ UNCHANGED <<log, synced, oldest, head, trial, last, at>>
  BY DEF Retain
<1>6. Grounded(log, versions)'
  BY <1>4, <1>5 DEF Grounded
<1>7. head' \in versions'
  BY <1>3, <1>5 DEF Standing, Footed
<1> HIDE DEF Path
<1> QED
  BY <1>1, <1>5, <1>6, <1>7 DEF Standing, Grounded, Footed, Resting, CutOnPath

\* Writing the oldest-envelope file leaves the database on the disk alone.
LEMMA RenamedKeeps ==
  ASSUME TypeOK, NEW c \in Digest
  PROVE  /\ Renamed(c).log = synced.log
         /\ Renamed(c).weighed = synced.weighed
         /\ Renamed(c).versions = synced.versions
BY DEF TypeOK, Renamed

LEMMA StandingStep == Standing /\ [Next]_vars => Standing'
<1> SUFFICES ASSUME Standing, [Next]_vars PROVE Standing'
  OBVIOUS
<1> USE DEF store, cursor, batch, told
<1>1. TypeOK /\ TypeOK'
  BY TypeStep DEF Standing
<1> USE <1>1
<1>2. CASE BeginInsert \/ PutEnvelope \/ EndBatch
  BY <1>2 DEF Standing, Grounded, Footed, Resting, CutOnPath,
              BeginInsert, PutEnvelope, EndBatch
<1>3. CASE \E d \in Digest : StoreNext(d)
  BY <1>3, StandingStore
<1>4. CASE WalkStart
  BY <1>4 DEF Standing, Grounded, Footed, Resting, CutOnPath, WalkStart,
              WalkError, Walking
<1>5. CASE \E d \in Digest : StepDown(d)
  <2>1. PICK d \in Digest : StepDown(d)
    BY <1>5
  <2>2. Prev[d] = at /\ at \in versions
    BY <2>1 DEF Standing, Footed, StepDown, Winner, Children
  <2>3. /\ Walking /\ versions' = versions \cup {d} /\ at' = d
        /\ UNCHANGED <<log, synced, oldest, head, pc, trial, last>>
    BY <2>1 DEF StepDown
  <2>4. Grounded(log, versions)'
    BY <2>2, <2>3 DEF Standing, Grounded
  <2> QED
    BY <2>3, <2>4 DEF Standing, Grounded, Footed, Resting, CutOnPath, Walking
<1>6. CASE \E d \in Digest : StepRefused(d)
  BY <1>6 DEF Standing, Grounded, Footed, Resting, CutOnPath, StepRefused,
              WalkError, Walking
<1>7. CASE Arrive
  BY <1>7 DEF Standing, Grounded, Footed, Resting, CutOnPath, Arrive, Walking
<1>8. CASE \E d \in Digest : BeginCompact(d)
  <2>1. PICK c \in Digest : BeginCompact(c)
    BY <1>8
  <2>2. synced'.log = synced.log /\ synced'.versions = synced.versions
    BY <2>1, RenamedKeeps DEF BeginCompact
  <2> QED
    BY <2>1, <2>2 DEF Standing, Grounded, Footed, Resting, CutOnPath, BeginCompact,
                      LoggedPath, Hops
<1>9. CASE \E d \in Digest : PruneOne(d)
  <2>1. PICK d \in Digest : PruneOne(d)
    BY <1>9
  <2>2. d # oldest
    BY <2>1, PruneBelow, AncSelf DEF PruneOne
  <2> QED
    BY <2>1, <2>2 DEF Standing, Grounded, Footed, Resting, CutOnPath, PruneOne
<1>10. CASE Retain
  BY <1>10, StandingRetain
<1>11. CASE Crash
  BY <1>11 DEF Standing, Grounded, Footed, Resting, CutOnPath, Crash, Stop
<1>12. CASE StoreFails \/ WalkFails \/ DiffFails \/ PruneFails
  BY <1>12 DEF Standing, Grounded, Footed, Resting, CutOnPath, StoreFails,
               WalkFails, DiffFails, PruneFails, Refuse, WalkError, Walking
<1>13. CASE Sync
  BY <1>13 DEF Standing, Grounded, Footed, Resting, CutOnPath, Sync
<1>14. CASE PowerLoss
  BY <1>14 DEF Standing, Grounded, Footed, Resting, CutOnPath, PowerLoss, Stop
<1>15. CASE Open
  BY <1>15 DEF Standing, Grounded, Footed, Resting, CutOnPath, Open
<1>16. CASE UNCHANGED vars
  BY <1>16 DEF Standing, Grounded, Footed, Resting, CutOnPath, vars
<1> QED
  BY <1>2, <1>3, <1>4, <1>5, <1>6, <1>7, <1>8, <1>9, <1>10, <1>11, <1>12,
     <1>13, <1>14, <1>15, <1>16 DEF Next

\* Every version whose parent envelope is stored stands on its parent's
\* version, and every ledger the core holds open stands on a version, under
\* any mix of crashes, failing statements and power losses.
THEOREM VersionsStand == Spec => []Standing
BY StandingInit, StandingStep, PTL DEF Spec

-----------------------------------------------------------------------------
(* The oldest-envelope file.                                               *)

LEMMA OldestStep ==
  ASSUME "power" \notin Faults
  PROVE  Standing /\ OldestOpenable /\ [Next]_vars => OldestOpenable'
<1> SUFFICES ASSUME Standing, OldestOpenable, [Next]_vars PROVE OldestOpenable'
  OBVIOUS
<1> USE DEF store, cursor, batch, told
<1>1. TypeOK
  BY DEF Standing
<1>2. CASE \E d \in Digest : BeginCompact(d)
  <2>1. PICK c \in Digest : BeginCompact(c)
    BY <1>2
  <2>2. head \in versions /\ Grounded(log, versions)
    BY <2>1 DEF Standing, Footed, BeginCompact
  <2>3. c \in versions
    BY <2>1, <2>2, <1>1, HopsHeld DEF BeginCompact, LoggedPath, TypeOK
  <2> QED
    BY <2>1, <2>3 DEF BeginCompact, LoggedPath, OldestOpenable
<1>3. CASE \E d \in Digest : PruneOne(d)
  <2>1. PICK d \in Digest : PruneOne(d)
    BY <1>3
  <2>2. d # oldest
    BY <2>1, <1>1, PruneBelow, AncSelf DEF PruneOne
  <2> QED
    BY <2>1, <2>2 DEF PruneOne, OldestOpenable
<1>4. CASE Retain
  BY <1>4 DEF Retain, OldestOpenable
<1>5. CASE \E d \in Digest : StepRefused(d)
  BY <1>5 DEF StepRefused, OldestOpenable
<1>6. CASE \E d \in Digest : StoreNext(d)
  BY <1>6 DEF StoreNext, RefuseInit, RefuseGap, RefuseUnknownParent,
     RefuseRejected, Refuse, FoldKnown, FoldStored, Apply, Accept, OldestOpenable
<1>7. CASE PutEnvelope \/ \E d \in Digest : StepDown(d)
  BY <1>7 DEF PutEnvelope, StepDown, OldestOpenable
<1>8. CASE PowerLoss
  BY <1>8 DEF PowerLoss
<1>9. CASE UNCHANGED <<log, versions, oldest>>
  BY <1>9 DEF OldestOpenable
<1>10. CASE \/ BeginInsert \/ EndBatch \/ WalkStart \/ Arrive \/ Crash
            \/ StoreFails \/ WalkFails \/ DiffFails \/ PruneFails \/ Sync \/ Open
            \/ UNCHANGED vars
  BY <1>9, <1>10 DEF BeginInsert, EndBatch, WalkStart, Arrive, Crash, StoreFails,
     WalkFails, DiffFails, PruneFails, Refuse, Sync, Open, vars
<1> QED
  BY <1>2, <1>3, <1>4, <1>5, <1>6, <1>7, <1>8, <1>10 DEF Next

\* Short of a power loss, the oldest-envelope file always names a stored
\* envelope with its version: the node can be stopped at any statement of an
\* insert or a compaction, and core.rs's expectation of the root holds.
THEOREM OldestAlwaysOpenable ==
  ASSUME "power" \notin Faults
  PROVE  Spec => []OldestOpenable
<1>1. Init => OldestOpenable
  BY DEF Init, OldestOpenable
<1>2. OldestOpenable /\ Standing /\ [Next]_vars => OldestOpenable'
  BY OldestStep
<1> QED
  BY <1>1, <1>2, StandingInit, StandingStep, PTL DEF Spec

-----------------------------------------------------------------------------
(* The path from the oldest envelope to the head.                          *)

\* Everything from the oldest envelope up to d is stored with its version.
Held(d) ==
  /\ oldest \in Anc[d]
  /\ ({oldest} \cup Above(oldest, d)) \subseteq (log \cap versions)

\* PathHeld is not inductive: the head moves to wherever a walk arrives, so
\* the walk must have come from the oldest envelope over held ones.
PathInv ==
  /\ PathHeld
  /\ pc # "prune" => root = oldest
  /\ at # None => Held(at)

\* A compaction's cut is a version, and so is everything above it.
LEMMA PathBegin ==
  ASSUME Standing, NEW c \in Digest, BeginCompact(c)
  PROVE  Held(head)'
<1>1. /\ head \in versions /\ Grounded(log, versions)
      /\ log \in SUBSET Digest /\ versions \in SUBSET Digest /\ head \in Digest
  BY DEF Standing, Footed, TypeOK, BeginCompact
<1>2. c \in Anc[head] /\ c \in log /\ Above(c, head) \subseteq log
  BY DEF BeginCompact, LoggedPath, Hops
<1>3. ASSUME NEW x \in {c} \cup Above(c, head) PROVE x \in versions
  <2>1. x \in Anc[head] /\ x \in log /\ x \in Digest
    BY <1>1, <1>2, AncType DEF Above
  <2>2. c \in Anc[x]
    <3>1. CASE x = c
      BY <3>1, AncSelf
    <3>2. CASE x \in Above(c, head)
      BY <3>2, <2>1, <1>1, <1>2, AncLinear DEF Above
    <3> QED
      BY <3>1, <3>2
  <2>3. Above(x, head) \subseteq log
    BY <2>1, <2>2, <1>2, AncTransitive DEF Above
  <2> QED
    BY <2>1, <2>3, <1>1, HopsHeld DEF Hops
<1> QED
  BY <1>2, <1>3 DEF BeginCompact, Held, Above, cursor

LEMMA PathStep ==
  ASSUME "storage" \notin Faults
  PROVE  Standing /\ PathInv /\ [Next]_vars => PathInv'
<1> SUFFICES ASSUME Standing, PathInv, [Next]_vars PROVE PathInv'
  OBVIOUS
<1> USE DEF store, cursor, batch, told
<1>1. TypeOK
  BY DEF Standing
<1>2. ASSUME NEW d, Held(d), UNCHANGED oldest,
             log \cap versions \subseteq log' \cap versions'
      PROVE  Held(d)'
  BY <1>2 DEF Held, Above
<1>3. pc # "down" => Held(head)
  BY DEF PathInv, PathHeld, Held
<1>4. (pc' # "down" => Held(head)') => PathHeld'
  BY DEF PathHeld, Held
<1>5. CASE \E d \in Digest : BeginCompact(d)
  <2>1. PICK c \in Digest : BeginCompact(c)
    BY <1>5
  <2>2. at' = None /\ pc' = "prune"
    BY <2>1 DEF Standing, Resting, BeginCompact
  <2> QED
    BY <2>1, <2>2, <1>4, PathBegin DEF PathInv
<1>6. CASE \E d \in Digest : PruneOne(d)
  <2>1. PICK d \in Digest : PruneOne(d)
    BY <1>6
  <2>2. /\ pc = "prune" /\ pc' = "prune" /\ at' = None /\ log' = log \ {d}
        /\ UNCHANGED <<versions, oldest, head>>
    BY <2>1 DEF Standing, Resting, PruneOne
  <2>3. oldest \notin Anc[d]
    BY <2>1, <1>1, PruneBelow DEF PruneOne
  <2>4. Held(head)
    BY <2>2, <1>3
  <2>5. ASSUME NEW x \in {oldest} \cup Above(oldest, head) PROVE x # d
    <3>1. oldest \in Digest /\ head \in Digest
      BY <1>1 DEF TypeOK
    <3>2. oldest \in Anc[x]
      BY <3>1, <2>4, <2>5, AncSelf, AncLinear DEF Held, Above
    <3> QED
      BY <3>2, <2>3
  <2>6. Held(head)'
    BY <2>2, <2>4, <2>5 DEF Held, Above
  <2> QED
    BY <2>2, <2>6, <1>4 DEF PathInv
<1>7. CASE Retain
  <2>1. /\ pc = "prune" /\ at' = None /\ root' = oldest'
        /\ versions' = versions \cap (Above(oldest, head) \cup {oldest})
        /\ UNCHANGED <<log, oldest, head>>
    BY <1>7 DEF Standing, Resting, Retain
  <2>2. Held(head)'
    BY <2>1, <1>3 DEF Held, Above
  <2> QED
    BY <2>1, <2>2, <1>4 DEF PathInv
<1>8. CASE \E d \in Digest : StepDown(d)
  <2>1. PICK d \in Digest : StepDown(d)
    BY <1>8
  <2>2. /\ Walking /\ at # None /\ d \in log /\ d # Genesis /\ Prev[d] = at /\ at' = d
        /\ versions' = versions \cup {d}
        /\ UNCHANGED <<log, oldest, root, head, pc>>
    BY <2>1 DEF StepDown, Winner, Children
  <2>3. Held(at) /\ Anc[d] = {d} \cup Anc[at]
    BY <2>2, AncStep DEF PathInv
  <2>4. Held(d)'
    BY <2>2, <2>3 DEF Held, Above
  <2>5. pc' # "down" => Held(head)'
    BY <2>2, <1>2, <1>3
  <2> QED
    BY <2>2, <2>4, <2>5, <1>4 DEF PathInv
<1>9. CASE Arrive
  <2>1. /\ at # None /\ head' = at /\ at' = None
        /\ UNCHANGED <<log, versions, oldest, root>> /\ Walking
    BY <1>9 DEF Arrive
  <2>2. Held(head)'
    BY <2>1 DEF PathInv, Held, Above
  <2> QED
    BY <2>1, <2>2, <1>4 DEF PathInv, Walking
<1>10. CASE WalkStart
  <2>1. CASE root \in versions
    <3>1. /\ at' = root /\ UNCHANGED <<log, versions, oldest, root, head, pc>> /\ Walking
      BY <1>10, <2>1 DEF WalkStart
    <3>2. root = oldest /\ oldest \in Digest /\ oldest \in log /\ oldest \in versions
      BY <3>1, <1>1, <1>3 DEF PathInv, Held, Walking, TypeOK
    <3>3. Held(root)'
      BY <3>1, <3>2, AncSelf DEF Held, Above
    <3>4. pc' # "down" => Held(head)'
      BY <3>1, <1>2, <1>3
    <3> QED
      BY <3>1, <3>3, <3>4, <1>4 DEF PathInv
  <2>2. CASE root \notin versions
    <3>1. Walking /\ pc # "down" /\ root = oldest
      BY <1>10 DEF WalkStart, Walking, PathInv
    <3> QED
      BY <3>1, <2>2, <1>3 DEF Held
  <2> QED
    BY <2>1, <2>2
<1>11. CASE \E d \in Digest : StepRefused(d)
  <2>1. PICK d \in Digest : StepRefused(d)
    BY <1>11
  <2>2. /\ Walking /\ d \notin versions /\ log' = log \ {d} /\ at' = None
        /\ UNCHANGED <<versions, oldest>>
    BY <2>1 DEF StepRefused, WalkError
  <2>3. root = oldest
    BY <2>2 DEF PathInv, Walking
  <2>4. pc' \in {"idle", "down"} /\ (pc' = "idle" => UNCHANGED head) /\ root' = oldest'
    BY <2>1, <2>2, <2>3 DEF StepRefused, WalkError
  <2>5. pc' # "down" => Held(head)'
    BY <2>2, <2>4, <1>2, <1>3 DEF Walking
  <2> QED
    BY <2>2, <2>4, <2>5, <1>4 DEF PathInv
<1>12. CASE Crash \/ PowerLoss
  BY <1>12, <1>4 DEF Crash, PowerLoss, Stop, PathInv
<1>13. CASE Open
  <2>1. /\ pc = "down" /\ root' = oldest /\ at' = None /\ oldest \in log /\ oldest \in versions
        /\ UNCHANGED <<log, versions, oldest, head>>
    BY <1>13 DEF Open
  <2>2. head = oldest /\ oldest \in Digest
    BY <2>1, <1>1 DEF Standing, Resting, TypeOK
  <2>3. Held(head)'
    BY <2>1, <2>2, AncSelf DEF Held, Above
  <2> QED
    BY <2>1, <2>3, <1>4 DEF PathInv
<1>14. CASE StoreFails \/ WalkFails \/ DiffFails \/ PruneFails
  BY <1>14 DEF StoreFails, WalkFails, DiffFails, PruneFails
<1>15. CASE /\ log \cap versions \subseteq log' \cap versions'
            /\ UNCHANGED <<oldest, root, head>>
            /\ pc # "down" /\ pc # "prune" /\ pc' # "prune"
            /\ at' = at \/ at' = None
  <2>1. Held(head)' /\ (at # None => Held(at))
    BY <1>15, <1>2, <1>3 DEF PathInv
  <2>2. at' # None => Held(at)'
    <3> SUFFICES ASSUME at' # None PROVE Held(at)'
      OBVIOUS
    <3>1. at' = at /\ Held(at)
      BY <1>15, <2>1
    <3> QED
      BY <3>1, <1>15 DEF Held, Above
  <2> QED
    BY <1>15, <2>1, <2>2, <1>4 DEF PathInv
<1>16. CASE BeginInsert \/ EndBatch \/ PutEnvelope \/ \E d \in Digest : StoreNext(d)
  BY <1>15, <1>16 DEF BeginInsert, EndBatch, PutEnvelope, StoreNext, RefuseInit,
     RefuseGap, RefuseUnknownParent, RefuseRejected, Refuse, FoldKnown, FoldStored,
     Apply, Accept
<1>17. CASE Sync \/ UNCHANGED vars
  BY <1>17 DEF Sync, vars, PathInv, PathHeld, Held, Above
<1> QED
  BY <1>5, <1>6, <1>7, <1>8, <1>9, <1>10, <1>11, <1>12, <1>13, <1>14, <1>16,
     <1>17 DEF Next

\* As long as no statement of the store fails outright, an open node holds
\* every envelope and every version from its oldest envelope to its head,
\* through crashes, power losses and interrupted compactions.
THEOREM PathAlwaysHeld ==
  ASSUME "storage" \notin Faults
  PROVE  Spec => []PathHeld
<1>1. Init => PathInv
  BY DEF Init, PathInv, PathHeld
<1>2. Standing /\ PathInv /\ [Next]_vars => PathInv'
  BY PathStep
<1>3. PathInv => PathHeld
  BY DEF PathInv
<1> QED
  BY <1>1, <1>2, <1>3, StandingInit, StandingStep, PTL DEF Spec

-----------------------------------------------------------------------------
(* Weights.                                                                *)

\* A power loss brings back what was synced, so that must be weighed too.
WeightInv ==
  NoDowngrade /\ \A d \in synced.log \ synced.weighed : d \in Roots \ {Genesis}

\* No fault ever leaves an envelope in the log at a weight below the one its
\* signatures earned: only a root taken from a sponsor is stored unchecked.
THEOREM NeverDowngraded == Spec => []NoDowngrade
<1> USE DEF store, cursor, batch, told
<1>1. ASSUME Init PROVE WeightInv
  <2>1. synced.log = log /\ synced.weighed = weighed
    BY <1>1 DEF Init
  <2>2. NoDowngrade
    BY <1>1 DEF Init, NoDowngrade
  <2> QED
    BY <2>1, <2>2 DEF WeightInv, NoDowngrade
<1>2. TypeOK /\ WeightInv /\ [Next]_vars => WeightInv'
  <2> SUFFICES ASSUME TypeOK, WeightInv, [Next]_vars PROVE WeightInv'
    OBVIOUS
  <2>1. CASE UNCHANGED <<log, weighed, synced>>
    BY <2>1 DEF WeightInv, NoDowngrade
  <2>2. CASE BeginInsert \/ EndBatch \/ WalkStart \/ Arrive \/ Retain \/ Crash
             \/ StoreFails \/ WalkFails \/ DiffFails \/ PruneFails \/ Open \/ UNCHANGED vars
    BY <2>1, <2>2 DEF BeginInsert, EndBatch, WalkStart, Arrive, Retain, Crash,
       StoreFails, WalkFails, DiffFails, PruneFails, Refuse, Open, vars
  <2>3. CASE \E d \in Digest : StepDown(d)
    BY <2>1, <2>3 DEF StepDown
  <2>4. CASE PutEnvelope
    BY <2>4 DEF PutEnvelope, WeightInv, NoDowngrade
  <2>5. CASE \E d \in Digest : StepRefused(d) \/ PruneOne(d)
    BY <2>5 DEF StepRefused, PruneOne, WeightInv, NoDowngrade
  <2>6. CASE \E d \in Digest : StoreNext(d)
    BY <2>6 DEF StoreNext, RefuseInit, RefuseGap, RefuseUnknownParent,
       RefuseRejected, Refuse, FoldKnown, FoldStored, Apply, Accept, WeightInv,
       NoDowngrade
  <2>7. CASE \E d \in Digest : BeginCompact(d)
    <3>1. /\ synced'.log = synced.log /\ synced'.weighed = synced.weighed
          /\ UNCHANGED <<log, weighed>>
      BY <2>7, RenamedKeeps DEF BeginCompact
    <3> QED
      BY <3>1 DEF WeightInv, NoDowngrade
  <2>8. CASE Sync \/ PowerLoss
    <3>1. \/ /\ synced'.log = log /\ synced'.weighed = weighed
             /\ UNCHANGED <<log, weighed>>
          \/ /\ synced'.log = synced.log /\ synced'.weighed = synced.weighed
             /\ log' = synced.log /\ weighed' = synced.weighed
      BY <2>8 DEF Sync, PowerLoss, TypeOK
    <3> QED
      BY <3>1 DEF WeightInv, NoDowngrade
  <2> QED
    BY <2>2, <2>3, <2>4, <2>5, <2>6, <2>7, <2>8 DEF Next
<1>3. WeightInv => NoDowngrade
  BY DEF WeightInv
<1> QED
  BY <1>1, <1>2, <1>3, TypeInit, TypeStep, PTL DEF Spec

-----------------------------------------------------------------------------
(* Where a restart stands.                                                 *)

\* An envelope above a on a parent chain through a has a below it, and its
\* parent is a or above a.
LEMMA AboveStep ==
  ASSUME NEW h \in Digest, NEW a \in Anc[h], NEW x \in Above(a, h)
  PROVE  /\ x \in Digest /\ x # Genesis /\ x # a
         /\ a \in Anc[x] /\ Prev[x] \in Digest
         /\ a \in Anc[Prev[x]] /\ Prev[x] \in Anc[h]
<1>1. a \in Digest /\ x \in Digest /\ x \in Anc[h] /\ x \notin Anc[a]
  BY AncType DEF Above
<1>2. x # Genesis /\ x # a
  BY <1>1, AncFromGenesis, AncSelf
<1>3. a \in Anc[x]
  BY <1>1, AncLinear
<1>4. Prev[x] \in Digest /\ Prev[x] \in Anc[h]
  BY <1>1, <1>2, EnvelopeAssumption, AncClosed
<1>5. a \in Anc[Prev[x]]
  BY <1>1, <1>2, <1>3, AncStep
<1> QED
  BY <1>1, <1>2, <1>3, <1>4, <1>5

\* Pruning leaves the children of the cut, and of everything above it, alone.
LEMMA PruneKeepsChildren ==
  ASSUME TypeOK, NEW d \in Digest, Prunable(d),
         NEW p \in Digest, oldest \in Anc[p]
  PROVE  Children(log \ {d}, p) = Children(log, p)
<1>1. oldest \notin Anc[d]
  BY PruneBelow
<1>2. ASSUME NEW v \in Children(log, p) PROVE v # d
  <2>1. v \in Digest /\ v # Genesis /\ Prev[v] = p
    BY DEF Children, TypeOK
  <2>2. oldest \in Anc[v]
    BY <2>1, AncStep
  <2> QED
    BY <2>2, <1>1
<1> QED
  BY <1>2 DEF Children

\* So the walk from the cut ends where it ended.
LEMMA PruneKeepsTip ==
  ASSUME TypeOK, NEW d \in Digest, Prunable(d),
         IsTip(log, weighed, oldest, head)
  PROVE  IsTip(log \ {d}, weighed \ {d}, oldest, head)
<1>1. /\ head \in Digest /\ oldest \in Anc[head]
      /\ \A x \in Above(oldest, head) : Winner(log, weighed, Prev[x], x)
      /\ Children(log, head) = {}
  BY DEF TypeOK, IsTip, OnPath
<1>2. Children(log \ {d}, head) = {}
  BY <1>1, PruneKeepsChildren
<1>3. ASSUME NEW x \in Above(oldest, head)
      PROVE  Winner(log \ {d}, weighed \ {d}, Prev[x], x)
  <2>1. Prev[x] \in Digest /\ oldest \in Anc[Prev[x]]
    BY <1>1, AboveStep
  <2>2. Children(log \ {d}, Prev[x]) = Children(log, Prev[x])
    BY <2>1, PruneKeepsChildren
  <2>3. \A v \in Children(log, Prev[x]) : v # d
    BY <2>2 DEF Children
  <2>4. \A v \in Children(log, Prev[x]) : Rank(weighed \ {d}, v) = Rank(weighed, v)
    BY <2>3 DEF Rank
  <2>5. Winner(log, weighed, Prev[x], x)
    BY <1>1
  <2> QED
    BY <2>2, <2>4, <2>5 DEF Winner, Beats
<1> QED
  BY <1>1, <1>2, <1>3 DEF IsTip, OnPath

\* ReopensAtHead is not inductive: the head moves to wherever a walk arrives,
\* so the walk must have taken winners all the way from the oldest envelope;
\* and a walk that ends in a refusal leaves the head behind, so everything
\* stored must apply.
RestartInv ==
  /\ ReopensAtHead
  /\ at # None => Walking /\ OnPath(log, weighed, oldest, at)
  /\ log \subseteq Valid /\ versions \subseteq Valid
  /\ synced.log \subseteq Valid /\ synced.versions \subseteq Valid

LEMMA RestartInit ==
  ASSUME Roots \cup Inherited \subseteq Valid
  PROVE  Init => RestartInv
<1> SUFFICES ASSUME Init PROVE RestartInv
  OBVIOUS
<1>1. log \subseteq Valid /\ versions \subseteq Valid
  BY DEF Init
<1>2. synced.log = log /\ synced.versions = versions
  BY DEF Init
<1>3. pc = "down" /\ at = None
  BY DEF Init
<1> QED
  BY <1>1, <1>2, <1>3 DEF RestartInv, ReopensAtHead

LEMMA RestartStep ==
  ASSUME "storage" \notin Faults
  PROVE  Standing /\ PathInv /\ RestartInv /\ [Next]_vars => RestartInv'
<1> SUFFICES ASSUME Standing, PathInv, RestartInv, [Next]_vars PROVE RestartInv'
  OBVIOUS
<1> USE DEF store, cursor, batch, told
<1>1. /\ TypeOK /\ Footed /\ Resting
      /\ log \subseteq Valid /\ versions \subseteq Valid
      /\ synced.log \subseteq Valid /\ synced.versions \subseteq Valid
  BY DEF Standing, RestartInv
<1>2. CASE \E d \in Digest : BeginCompact(d)
  <2>1. PICK c \in Digest : BeginCompact(c)
    BY <1>2
  <2>2. /\ pc = "idle" /\ pc' = "prune" /\ oldest' = c /\ at' = at
        /\ regressed' = (regressed \/ (c \in Anc[oldest] /\ c # oldest))
        /\ UNCHANGED <<log, weighed, versions, synced.log, synced.versions, head>>
        /\ c \in Anc[head]
    BY <2>1, <1>1, RenamedKeeps DEF BeginCompact, LoggedPath, Hops
  <2>3. at' = None
    BY <2>2, <1>1 DEF Resting
  <2>4. ASSUME ~regressed' PROVE IsTip(log, weighed, c, head)
    <3>1. ~regressed /\ ~(c \in Anc[oldest] /\ c # oldest)
      BY <2>2, <2>4
    <3>2. IsTip(log, weighed, oldest, head)
      BY <3>1, <2>2 DEF RestartInv, ReopensAtHead
    <3>3. head \in Digest /\ oldest \in Anc[head] /\ c \in Digest
      BY <3>2, <1>1 DEF IsTip, OnPath, TypeOK
    <3>4. oldest \in Anc[c]
      BY <3>1, <3>3, <2>2, AncLinear, AncSelf
    <3>5. Above(c, head) \subseteq Above(oldest, head)
      BY <3>3, <3>4, AncTransitive DEF Above
    <3> QED
      BY <3>2, <3>5, <2>2 DEF IsTip, OnPath
  <2>5. ReopensAtHead'
    BY <2>2, <2>4 DEF ReopensAtHead
  <2> QED
    BY <2>2, <2>3, <2>5, <1>1 DEF RestartInv
<1>3. CASE \E d \in Digest : PruneOne(d)
  <2>1. PICK d \in Digest : PruneOne(d)
    BY <1>3
  <2>2. /\ pc = "prune" /\ pc' = "prune" /\ Prunable(d)
        /\ log' = log \ {d} /\ weighed' = weighed \ {d} /\ at' = None
        /\ UNCHANGED <<versions, synced, oldest, head, regressed>>
    BY <2>1, <1>1 DEF PruneOne, Resting
  <2>3. ~regressed => IsTip(log \ {d}, weighed \ {d}, oldest, head)
    BY <2>2, <1>1, PruneKeepsTip DEF RestartInv, ReopensAtHead
  <2>4. ReopensAtHead'
    BY <2>2, <2>3 DEF ReopensAtHead
  <2> QED
    BY <2>2, <2>4, <1>1 DEF RestartInv
<1>4. CASE Retain
  <2>1. /\ pc = "prune" /\ pc' = "idle" /\ at' = None
        /\ versions' \subseteq versions
        /\ UNCHANGED <<log, weighed, synced, oldest, head, regressed>>
    BY <1>4, <1>1 DEF Retain, Resting
  <2>2. ReopensAtHead'
    BY <2>1 DEF RestartInv, ReopensAtHead
  <2> QED
    BY <2>1, <2>2, <1>1 DEF RestartInv
<1>5. CASE \E d \in Digest : StepDown(d)
  <2>1. PICK d \in Digest : StepDown(d)
    BY <1>5
  <2>2. /\ pc' = pc /\ pc \in {"walk", "open"} /\ at # None /\ at' = d
        /\ Winner(log, weighed, at, d) /\ d \in Valid
        /\ versions' = versions \cup {d}
        /\ UNCHANGED <<log, weighed, synced, oldest>>
    BY <2>1, <1>1 DEF StepDown, Walking
  <2>3. d # Genesis /\ Prev[d] = at /\ at \in Digest
    BY <2>2, <1>1 DEF Winner, Children, TypeOK
  <2>4. OnPath(log, weighed, oldest, at)
    BY <2>2 DEF RestartInv
  <2>5. Anc[d] = {d} \cup Anc[at]
    BY <2>3, AncStep
  <2>6. OnPath(log, weighed, oldest, d)
    BY <2>2, <2>3, <2>4, <2>5 DEF OnPath, Above
  <2>7. ReopensAtHead'
    BY <2>2 DEF ReopensAtHead
  <2> QED
    BY <2>2, <2>6, <2>7, <1>1 DEF RestartInv, Walking
<1>6. CASE Arrive
  <2>1. /\ at # None /\ Children(log, at) = {} /\ head' = at /\ at' = None
        /\ UNCHANGED <<log, weighed, versions, synced, oldest>>
    BY <1>6 DEF Arrive
  <2>2. IsTip(log, weighed, oldest, at)
    BY <2>1 DEF RestartInv, IsTip
  <2>3. ReopensAtHead'
    BY <2>1, <2>2 DEF ReopensAtHead
  <2> QED
    BY <2>1, <2>3, <1>1 DEF RestartInv
<1>7. CASE WalkStart
  <2>1. Walking /\ root = oldest /\ oldest \in versions /\ oldest \in Digest
    BY <1>7, <1>1 DEF WalkStart, Walking, PathInv, PathHeld, TypeOK
  <2>2. /\ at' = oldest /\ pc' \in {"walk", "open"}
        /\ UNCHANGED <<log, weighed, versions, synced, oldest>>
    BY <2>1, <1>7 DEF WalkStart, Walking
  <2>3. OnPath(log, weighed, oldest, oldest)
    BY <2>1, AncSelf DEF OnPath, Above
  <2>4. ReopensAtHead'
    BY <2>2 DEF ReopensAtHead
  <2> QED
    BY <2>2, <2>3, <2>4, <1>1 DEF RestartInv, Walking
<1>8. CASE \E d \in Digest : StepRefused(d)
  BY <1>8, <1>1 DEF StepRefused, Winner, Children
<1>9. CASE Crash \/ PowerLoss
  <2>1. /\ pc' = "down" /\ at' = None /\ UNCHANGED <<synced.log, synced.versions>>
        /\ \/ UNCHANGED <<log, versions>>
           \/ log' = synced.log /\ versions' = synced.versions
    BY <1>9, <1>1 DEF Crash, PowerLoss, Stop, TypeOK
  <2>2. ReopensAtHead'
    BY <2>1 DEF ReopensAtHead
  <2> QED
    BY <2>1, <2>2, <1>1 DEF RestartInv
<1>10. CASE StoreFails \/ WalkFails \/ DiffFails \/ PruneFails
  BY <1>10 DEF StoreFails, WalkFails, DiffFails, PruneFails
<1>11. CASE Sync
  <2>1. UNCHANGED <<log, weighed, versions, oldest, head, pc, at, regressed>>
    BY <1>11 DEF Sync
  <2>2. synced'.log = log /\ synced'.versions = versions
    BY <1>11 DEF Sync
  <2>3. ReopensAtHead' /\ (at' # None => (Walking /\ OnPath(log, weighed, oldest, at))')
    BY <2>1 DEF RestartInv, ReopensAtHead, OnPath, Above, Walking
  <2> QED
    BY <2>1, <2>2, <2>3, <1>1 DEF RestartInv
<1>12. CASE /\ pc' \notin {"idle", "prune"} /\ at' = None /\ UNCHANGED synced
            /\ log' \subseteq Valid /\ versions' \subseteq Valid
  BY <1>12, <1>1 DEF RestartInv, ReopensAtHead
<1>13. CASE BeginInsert \/ EndBatch \/ Open \/ PutEnvelope
  <2>1. at' = None
    BY <1>13, <1>1 DEF BeginInsert, EndBatch, Open, PutEnvelope, Resting,
       RestartInv, Walking
  <2> QED
    BY <2>1, <1>12, <1>13, <1>1 DEF BeginInsert, EndBatch, Open, PutEnvelope, Footed
<1>14. CASE \E d \in Digest : StoreNext(d)
  <2>1. pc = "store"
    BY <1>14 DEF StoreNext, RefuseInit, RefuseGap, RefuseUnknownParent,
       RefuseRejected, FoldKnown, FoldStored, Apply
  <2>2. at = None
    BY <2>1 DEF RestartInv, Walking
  <2> QED
    BY <2>2, <1>12, <1>14, <1>1 DEF StoreNext, RefuseInit, RefuseGap,
       RefuseUnknownParent, RefuseRejected, Refuse, FoldKnown, FoldStored, Apply, Accept
<1>15. CASE UNCHANGED vars
  BY <1>15 DEF vars, RestartInv, ReopensAtHead, OnPath, Above, Walking
<1> QED
  BY <1>2, <1>3, <1>4, <1>5, <1>6, <1>7, <1>8, <1>9, <1>10, <1>11, <1>13,
     <1>14, <1>15 DEF Next

\* As long as no statement of the store fails outright and nothing the node
\* starts from is refused, a node stopped between operations or anywhere
\* inside a compaction starts again at the head it had, unless a compaction
\* after an interrupted one cut below the oldest envelope.  Crashes and power
\* losses may have come before.
THEOREM RestartsAtHead ==
  ASSUME "storage" \notin Faults, Roots \cup Inherited \subseteq Valid
  PROVE  Spec => []ReopensAtHead
<1>1. Init => PathInv
  BY DEF Init, PathInv, PathHeld
<1>2. Standing /\ PathInv /\ [Next]_vars => PathInv'
  BY PathStep
<1>3. Init => RestartInv
  BY RestartInit
<1>4. Standing /\ PathInv /\ RestartInv /\ [Next]_vars => RestartInv'
  BY RestartStep
<1>5. RestartInv => ReopensAtHead
  BY DEF RestartInv
<1> QED
  BY <1>1, <1>2, <1>3, <1>4, <1>5, StandingInit, StandingStep, PTL DEF Spec

-----------------------------------------------------------------------------
(* Orphans.                                                                *)

\* The fork rule over verified weights is a strict order.
LEMMA BeatsOrder ==
  ASSUME NEW x \in Digest, NEW y \in Digest, NEW z \in Digest
  PROVE  /\ Beats(Digest, z, y) /\ Beats(Digest, y, x) => Beats(Digest, z, x)
         /\ ~(Beats(Digest, x, y) /\ Beats(Digest, y, x))
<1>1. x \in Nat /\ y \in Nat /\ z \in Nat
  BY DigestAssumption
<1>2. /\ Rank(Digest, x) \in Nat /\ Rank(Digest, y) \in Nat
      /\ Rank(Digest, z) \in Nat
  BY EnvelopeAssumption DEF Rank
<1> QED
  BY <1>1, <1>2 DEF Beats

\* Two children of one envelope are never on the same parent chain.
LEMMA SiblingsApart ==
  ASSUME NEW h \in Digest, NEW x \in Anc[h], NEW y \in Anc[h],
         x # Genesis, y # Genesis, Prev[x] = Prev[y]
  PROVE  x = y
<1>1. x \in Digest /\ y \in Digest
  BY AncType
<1>2. x \in Anc[y] \/ y \in Anc[x]
  BY AncLinear
<1>3. x \notin Anc[Prev[y]] /\ y \notin Anc[Prev[x]]
  BY <1>1, AncAcyclic
<1> QED
  BY <1>1, <1>2, <1>3, AncStep

\* Every version descends from the root the node started on, and nothing
\* else is stored with an unchecked status: above the oldest envelope every
\* stored envelope ranks at its verified weight.
Based ==
  \E r \in Roots : /\ log \ weighed \subseteq {r}
                   /\ \A d \in versions : r \in Anc[d]

\* The walk takes winners all the way from the oldest envelope.
WalkWins == at # None => Walking /\ OnPath(log, weighed, oldest, at)

\* Between the oldest envelope and o the log holds, with everything below it
\* down to the oldest, an envelope that beats the sibling o descends from.
Outranked(o) ==
  \E x \in Above(oldest, o), y \in log \ {Genesis} :
    /\ Prev[y] = Prev[x]
    /\ Beats(Digest, y, x)
    /\ Above(oldest, y) \subseteq log \cap Valid

\* h's chain leaves o's where it takes the heavier sibling.
Parted(o, h) ==
  /\ o \notin Anc[h]
  /\ \A x \in Anc[o] \ {Genesis}, y \in Anc[h] \ {Genesis} :
       (x # y /\ Prev[x] = Prev[y]) => Beats(Digest, y, x)

\* OrphansStayOff is not inductive: a restart forgets the head, and the walk
\* from the oldest envelope must then miss the orphan again, on what the log
\* alone remembers; and a later compaction may move the oldest envelope below
\* the fork, where the dead branch is gone and could be stored again.
OffChain(o) ==
  /\ Parted(o, head)
  /\ oldest \in Anc[o] => Outranked(o)
  /\ pc \notin {"down", "open"} => head \notin Anc[o]

OrphanInv ==
  /\ Based
  /\ versions \subseteq Valid
  /\ WalkWins
  /\ \A o \in orphaned : OffChain(o)

\* On the walk's path an envelope beats every stored sibling by verified
\* weight.
LEMMA WinnersBeat ==
  ASSUME TypeOK, Based, oldest \in versions,
         NEW h \in Digest, OnPath(log, weighed, oldest, h),
         NEW x \in Above(oldest, h),
         NEW y \in log \ {Genesis}, Prev[y] = Prev[x], y # x
  PROVE  Beats(Digest, x, y)
<1>1. oldest \in Digest /\ oldest \in Anc[h] /\ y \in Digest /\ weighed \subseteq Digest
  BY DEF TypeOK, OnPath
<1>2. x \in Digest /\ x # Genesis /\ x # oldest /\ oldest \in Anc[Prev[x]]
      /\ oldest \in Anc[x]
  BY <1>1, AboveStep
<1>3. Winner(log, weighed, Prev[x], x)
  BY DEF OnPath
<1>4. Beats(weighed, x, y) /\ x \in log
  BY <1>3 DEF Winner, Children
<1>5. oldest \in Anc[y] /\ y # oldest
  BY <1>1, <1>2, AncStep, AncAcyclic
<1>6. PICK r \in Roots : log \ weighed \subseteq {r} /\ r \in Anc[oldest]
  BY DEF Based
<1>7. x \notin Anc[oldest] /\ y \notin Anc[oldest]
  BY <1>1, <1>2, <1>5, AncAntisymmetric
<1>8. x \in weighed /\ y \in weighed
  BY <1>4, <1>6, <1>7
<1> QED
  BY <1>1, <1>2, <1>4, <1>8 DEF Beats, Rank

\* So the walk never takes an outranked envelope.
LEMMA OutrankedMissed ==
  ASSUME TypeOK, Based, oldest \in versions,
         NEW h \in Digest, OnPath(log, weighed, oldest, h),
         NEW o \in Digest, oldest \in Anc[o], NEW x \in Above(oldest, o),
         NEW y \in log \ {Genesis}, Prev[y] = Prev[x], Beats(Digest, y, x)
  PROVE  x \notin Anc[h]
<1> SUFFICES ASSUME x \in Anc[h] PROVE FALSE
  OBVIOUS
<1>1. x \in Digest /\ y \in Digest
  BY AboveStep DEF TypeOK
<1>2. y # x
  BY <1>1, BeatsOrder
<1>3. x \in Above(oldest, h)
  BY DEF Above
<1>4. Beats(Digest, x, y)
  BY <1>2, <1>3, WinnersBeat
<1> QED
  BY <1>1, <1>4, BeatsOrder

\* What the walk reaches at its end misses an earlier orphan.
LEMMA ArriveMissesOld ==
  ASSUME TypeOK, Based, oldest \in versions, oldest \in Anc[head],
         at \in Digest, OnPath(log, weighed, oldest, at), Children(log, at) = {},
         NEW o \in Digest, OffChain(o)
  PROVE  Parted(o, at) /\ at \notin Anc[o]
<1>1. /\ oldest \in Digest /\ head \in Digest /\ log \subseteq Digest
      /\ oldest \in Anc[at] /\ Anc[oldest] \subseteq Anc[head]
  BY AncTransitive DEF TypeOK, OnPath
<1>2. ASSUME oldest \in Anc[o]
      PROVE  \E x \in Above(oldest, o), y \in log \ {Genesis} :
               /\ Prev[y] = Prev[x] /\ Beats(Digest, y, x)
               /\ Above(oldest, y) \subseteq log
               /\ x \in Digest /\ x # Genesis /\ x \in Anc[o] /\ y \in Digest
               /\ x \notin Anc[at] /\ oldest \in Anc[Prev[x]]
  <2>1. PICK x \in Above(oldest, o), y \in log \ {Genesis} :
           /\ Prev[y] = Prev[x] /\ Beats(Digest, y, x)
           /\ Above(oldest, y) \subseteq log
    BY <1>2 DEF OffChain, Outranked
  <2>2. x \in Digest /\ x # Genesis /\ oldest \in Anc[Prev[x]] /\ x \in Anc[o]
    BY <1>2, AboveStep DEF Above
  <2>3. x \notin Anc[at]
    BY <1>2, <2>1, OutrankedMissed
  <2> QED
    BY <1>1, <2>1, <2>2, <2>3
<1>3. at \notin Anc[o]
  <2> SUFFICES ASSUME at \in Anc[o] PROVE FALSE
    OBVIOUS
  <2>1. oldest \in Anc[o]
    BY <1>1, AncTransitive
  <2>2. PICK x \in Above(oldest, o), y \in log \ {Genesis} :
           /\ Prev[y] = Prev[x] /\ Above(oldest, y) \subseteq log
           /\ x \in Digest /\ x # Genesis /\ x \in Anc[o] /\ y \in Digest
           /\ x \notin Anc[at]
    BY <1>2, <2>1
  <2>3. at \in Anc[x] /\ at # x
    BY <2>2, AncLinear, AncSelf
  <2>4. at \in Anc[Prev[y]]
    BY <2>2, <2>3, AncStep
  <2>5. at \in Anc[y] /\ at # y
    BY <2>2, <2>4, AncStep, AncAcyclic
  <2>6. PICK z \in Above(at, y) : z # Genesis /\ Prev[z] = at
    BY <2>2, <2>5, FirstAbove
  <2>7. z \in Above(oldest, y)
    BY <2>6, <1>1, AncTransitive DEF Above
  <2> QED
    BY <2>2, <2>6, <2>7 DEF Children
<1>4. o \notin Anc[at]
  <2> SUFFICES ASSUME o \in Anc[at] PROVE FALSE
    OBVIOUS
  <2>1. CASE oldest \in Anc[o]
    <3>1. PICK x \in Anc[o] : x \notin Anc[at]
      BY <1>2, <2>1
    <3> QED
      BY <3>1, AncTransitive
  <2>2. CASE oldest \notin Anc[o]
    <3>1. o \in Anc[oldest]
      BY <1>1, <2>2, AncLinear
    <3> QED
      BY <3>1, <1>1 DEF OffChain, Parted
  <2> QED
    BY <2>1, <2>2
<1>5. ASSUME NEW x \in Anc[o] \ {Genesis}, NEW y \in Anc[at] \ {Genesis},
             x # y, Prev[x] = Prev[y]
      PROVE  Beats(Digest, y, x)
  <2>1. x \in Digest /\ y \in Digest
    BY AncType
  <2>2. CASE y \in Anc[oldest]
    BY <2>2, <1>1, <1>5 DEF OffChain, Parted
  <2>3. CASE y \notin Anc[oldest]
    <3>1. y \in Above(oldest, at)
      BY <2>3 DEF Above
    <3>2. oldest \in Anc[Prev[x]] /\ y \in log
      BY <3>1, <1>1, <1>5, AboveStep DEF OnPath, Winner, Children
    <3>3. x \notin Anc[Prev[x]] /\ Prev[x] \in Digest
      BY <2>1, <1>5, AncAcyclic, EnvelopeAssumption
    <3>4. x \notin Anc[oldest] /\ oldest \in Anc[x]
      BY <3>2, <3>3, <2>1, AncTransitive, AncStep
    <3>5. oldest \in Anc[o]
      BY <3>4, AncTransitive
    <3>6. PICK u \in Above(oldest, o), v \in log \ {Genesis} :
             /\ Prev[v] = Prev[u] /\ Beats(Digest, v, u)
             /\ Above(oldest, v) \subseteq log
             /\ u \in Digest /\ u # Genesis /\ u \in Anc[o] /\ v \in Digest
             /\ u \notin Anc[at]
      BY <1>2, <3>5
    <3>7. CASE u = x
      <4>1. v # y => Beats(Digest, y, v)
        BY <3>1, <3>6, <3>7, <1>5, WinnersBeat
      <4> QED
        BY <4>1, <3>6, <3>7, <2>1, BeatsOrder
    <3>8. CASE u # x /\ u \in Anc[x]
      <4>1. u \in Anc[Prev[y]]
        BY <3>8, <2>1, <1>5, AncStep
      <4>2. Prev[y] \in Anc[at]
        BY <1>5, AncClosed
      <4> QED
        BY <4>1, <4>2, <3>6, AncTransitive
    <3>9. CASE u # x /\ x \in Anc[u]
      <4>1. x \in Anc[v]
        BY <3>6, <3>9, <2>1, AncStep
      <4>2. x \in log
        BY <4>1, <3>4, <3>6 DEF Above
      <4> QED
        BY <4>2, <3>1, <1>5, WinnersBeat
    <3> QED
      BY <3>6, <3>7, <3>8, <3>9, AncLinear
  <2> QED
    BY <2>2, <2>3
<1> QED
  BY <1>3, <1>4, <1>5 DEF Parted

\* What the walk leaves behind is outranked from then on.
LEMMA ArriveOrphans ==
  ASSUME TypeOK, Based, versions \subseteq Valid, Held(head), Held(at),
         at \in Digest, OnPath(log, weighed, oldest, at), Children(log, at) = {},
         NEW o \in Undone(head, at)
  PROVE  Parted(o, at) /\ at \notin Anc[o] /\ Outranked(o)
<1>1. /\ oldest \in Digest /\ head \in Digest /\ log \subseteq Digest
      /\ oldest \in Anc[at] /\ oldest \in Anc[head] /\ oldest \in versions
      /\ Above(oldest, at) \subseteq log \cap versions
      /\ Above(oldest, head) \subseteq log
  BY DEF TypeOK, Held
<1>2. /\ o \in Anc[head] /\ Above(o, head) \subseteq log /\ o \in Digest
      /\ o \notin Hops(log, at)
  BY <1>1, AncType DEF Undone, Hops
<1>3. oldest \in Anc[o]
  <2> SUFFICES ASSUME oldest \notin Anc[o] PROVE FALSE
    OBVIOUS
  <2>1. o \in Anc[oldest]
    BY <1>1, <1>2, AncLinear
  <2>2. o \in Anc[at] /\ Anc[oldest] \subseteq Anc[head]
    BY <2>1, <1>1, AncTransitive
  <2>3. Above(o, at) \subseteq log
    BY <2>2, <1>1, <1>2 DEF Above
  <2> QED
    BY <2>2, <2>3, <1>2 DEF Hops
<1>4. o \notin Anc[at]
  <2> SUFFICES ASSUME o \in Anc[at] PROVE FALSE
    OBVIOUS
  <2>1. Above(o, at) \subseteq Above(oldest, at)
    BY <1>2, <1>3, AncTransitive DEF Above
  <2> QED
    BY <2>1, <1>1, <1>2 DEF Hops
<1>5. ASSUME NEW x \in Anc[o], x \notin Anc[oldest] PROVE x \in log
  BY <1>1, <1>2, <1>5, AncTransitive DEF Above
<1>6. at \notin Anc[o]
  <2> SUFFICES ASSUME at \in Anc[o] PROVE FALSE
    OBVIOUS
  <2>1. at # o
    BY <1>4, AncSelf
  <2>2. PICK z \in Above(at, o) : z # Genesis /\ Prev[z] = at
    BY <2>1, <1>2, FirstAbove
  <2>3. z \in Anc[o] /\ z \notin Anc[oldest]
    BY <2>2, <1>1, AncTransitive DEF Above
  <2> QED
    BY <2>2, <2>3, <1>5 DEF Children
<1>7. PICK x \in Anc[o] \ Anc[at], y \in Anc[at] \ Anc[o] :
         x # Genesis /\ y # Genesis /\ Prev[x] = Prev[y]
  BY <1>2, <1>4, <1>6, Parting
<1>8. x \notin Anc[oldest] /\ y \notin Anc[oldest] /\ x # y
  BY <1>1, <1>2, <1>3, <1>7, AncTransitive
<1>9. x \in log /\ y \in log /\ y \in Above(oldest, at) /\ x \in Above(oldest, o)
  BY <1>1, <1>5, <1>7, <1>8 DEF Above
<1>10. Beats(Digest, y, x)
  BY <1>1, <1>7, <1>8, <1>9, WinnersBeat
<1>11. Above(oldest, y) \subseteq log \cap Valid
  BY <1>1, <1>7, AncTransitive DEF Above
<1>12. Outranked(o)
  BY <1>7, <1>9, <1>10, <1>11 DEF Outranked
<1>13. ASSUME NEW u \in Anc[o] \ {Genesis}, NEW v \in Anc[at] \ {Genesis},
              u # v, Prev[u] = Prev[v]
       PROVE  Beats(Digest, v, u)
  <2>1. u \in Digest /\ v \in Digest
    BY <1>2, AncType
  <2>2. v \notin Anc[oldest]
    BY <1>2, <1>3, <1>13, SiblingsApart, AncTransitive
  <2>3. v \in Above(oldest, at)
    BY <2>2 DEF Above
  <2>4. oldest \in Anc[Prev[u]] /\ Prev[u] \in Digest
    BY <2>3, <1>1, <1>13, AboveStep
  <2>5. u \notin Anc[oldest]
    BY <2>1, <2>4, <1>13, AncAcyclic, AncTransitive
  <2>6. u \in log
    BY <2>5, <1>5
  <2> QED
    BY <2>3, <2>6, <1>1, <1>13, WinnersBeat
<1> QED
  BY <1>4, <1>6, <1>12, <1>13 DEF Parted

\* An outranked orphan stays so as long as nothing that applies is lost above
\* the oldest envelope.
LEMMA OutrankedKept ==
  ASSUME TypeOK, NEW o \in Digest, oldest \in Anc[o], Outranked(o),
         UNCHANGED oldest,
         \A e \in log \cap Valid : oldest \in Anc[e] => e \in log'
  PROVE  Outranked(o)'
<1>1. oldest \in Digest /\ log \subseteq Digest
  BY DEF TypeOK
<1>2. PICK x \in Above(oldest, o), y \in log \ {Genesis} :
         /\ Prev[y] = Prev[x] /\ Beats(Digest, y, x)
         /\ Above(oldest, y) \subseteq log \cap Valid
  BY DEF Outranked
<1>3. oldest \in Anc[Prev[y]] /\ y \in Digest
  BY <1>1, <1>2, AboveStep
<1>4. oldest \in Anc[y] /\ y # oldest
  BY <1>2, <1>3, AncStep, AncAcyclic
<1>5. y \in Above(oldest, y)
  BY <1>1, <1>3, <1>4, AncSelf, AncAntisymmetric DEF Above
<1>6. \A e \in Above(oldest, y) : oldest \in Anc[e]
  BY <1>3, <1>4, AboveStep
<1>7. Above(oldest, y) \subseteq log' \cap Valid
  BY <1>2, <1>6
<1>8. \E u \in Above(oldest, o), v \in log' \ {Genesis} :
         /\ Prev[v] = Prev[u] /\ Beats(Digest, v, u)
         /\ Above(oldest, v) \subseteq log' \cap Valid
  BY <1>2, <1>5, <1>7
<1> QED
  BY <1>8 DEF Outranked, Above

\* A version is gained only over its parent's.
LEMMA BasedKept ==
  ASSUME TypeOK, Based, log' \ weighed' \subseteq log \ weighed,
         \A d \in versions' : d \in versions
            \/ (d \in Digest \ {Genesis} /\ Prev[d] \in versions)
  PROVE  Based'
<1>1. PICK r \in Roots : /\ log \ weighed \subseteq {r}
                         /\ \A d \in versions : r \in Anc[d]
  BY DEF Based
<1>2. ASSUME NEW d \in versions' PROVE r \in Anc[d]
  BY <1>1, AncStep
<1> QED
  BY <1>1, <1>2 DEF Based

LEMMA OrphanInit ==
  ASSUME Roots \subseteq Valid
  PROVE  Init => OrphanInv
<1> SUFFICES ASSUME Init PROVE OrphanInv
  OBVIOUS
<1>1. PICK r \in Roots : /\ log = {r} \cup Inherited /\ versions = {r}
                         /\ weighed = ({r} \cap {Genesis}) \cup Inherited
  BY DEF Init
<1>2. r \in Anc[r]
  BY AncSelf, InheritedAssumption
<1>3. Based
  BY <1>1, <1>2 DEF Based
<1>4. at = None /\ orphaned = {}
  BY DEF Init
<1> QED
  BY <1>1, <1>3, <1>4 DEF OrphanInv, WalkWins

\* A compaction's cut: whatever descends from it off the canonical path
\* leaves that path above the cut, through envelopes that are all held.
LEMMA OrphanBegin ==
  ASSUME Standing, OrphanInv, NEW c \in Digest, BeginCompact(c)
  PROVE  OrphanInv'
<1> USE DEF store, cursor, batch, told
<1>1. TypeOK /\ Resting
  BY DEF Standing
<1>2. /\ pc = "idle" /\ pc' = "prune" /\ oldest' = c
      /\ UNCHANGED <<log, weighed, versions, head, at, orphaned>>
      /\ c \in Anc[head] /\ head \in Digest
  BY <1>1 DEF BeginCompact, LoggedPath, Hops, TypeOK
<1>3. at' = None
  BY <1>1, <1>2 DEF Resting
<1>4. Above(c, head) \subseteq log \cap versions
  BY <1>2, PathBegin DEF Held, Above
<1>5. versions \subseteq Valid /\ Based'
  BY <1>2 DEF OrphanInv, Based
<1>6. ASSUME NEW o \in orphaned PROVE OffChain(o)'
  <2>1. o \in Digest /\ OffChain(o)
    BY <1>1 DEF TypeOK, OrphanInv
  <2>2. /\ o \notin Anc[head] /\ head \notin Anc[o]
        /\ \A x \in Anc[o] \ {Genesis}, y \in Anc[head] \ {Genesis} :
             (x # y /\ Prev[x] = Prev[y]) => Beats(Digest, y, x)
    BY <2>1, <1>2 DEF OffChain, Parted
  <2>3. Parted(o, head)' /\ head' \notin Anc[o]
    BY <2>2, <1>2 DEF Parted
  <2>4. ASSUME c \in Anc[o]
        PROVE  \E x \in Above(c, o), y \in log \ {Genesis} :
                 /\ Prev[y] = Prev[x] /\ Beats(Digest, y, x)
                 /\ Above(c, y) \subseteq log \cap Valid
    <3>1. PICK x \in Anc[o] \ Anc[head], y \in Anc[head] \ Anc[o] :
             x # Genesis /\ y # Genesis /\ Prev[x] = Prev[y]
      BY <2>1, <2>2, <1>2, Parting
    <3>2. x \in Above(c, o) /\ y \in Above(c, head)
      BY <3>1, <2>1, <2>4, <1>2, AncTransitive DEF Above
    <3>3. Beats(Digest, y, x)
      BY <3>1, <2>2
    <3>4. Above(c, y) \subseteq log \cap Valid
      BY <3>1, <1>2, <1>4, <1>5, AncTransitive DEF Above
    <3> QED
      BY <3>1, <3>2, <3>3, <3>4, <1>4
  <2>5. c \in Anc[o] => Outranked(o)'
    BY <2>4, <1>2 DEF Outranked, Above
  <2> QED
    BY <2>3, <2>5, <1>2 DEF OffChain
<1> QED
  BY <1>2, <1>3, <1>5, <1>6 DEF OrphanInv, WalkWins

LEMMA OrphanArrive ==
  ASSUME Standing, PathInv, OrphanInv, Arrive
  PROVE  OrphanInv'
<1> USE DEF store, cursor, batch, told
<1>1. TypeOK /\ Based /\ versions \subseteq Valid
  BY DEF Standing, OrphanInv
<1>2. /\ at # None /\ Children(log, at) = {} /\ head' = at /\ at' = None
      /\ pc \in {"walk", "open"} /\ pc' = "idle"
      /\ orphaned' \subseteq orphaned \cup Undone(head, at)
      /\ UNCHANGED <<log, weighed, versions, oldest>>
  BY DEF Arrive, Walking
<1>3. at \in Digest /\ OnPath(log, weighed, oldest, at) /\ Held(at) /\ Held(head)
  BY <1>1, <1>2 DEF TypeOK, OrphanInv, WalkWins, PathInv, PathHeld, Held
<1>4. oldest \in versions /\ oldest \in Anc[head]
  BY <1>3 DEF Held
<1>5. ASSUME NEW o \in orphaned'
      PROVE  /\ Parted(o, at) /\ at \notin Anc[o]
             /\ oldest \in Anc[o] => Outranked(o)
  <2>1. CASE o \in orphaned
    <3>1. o \in Digest /\ OffChain(o)
      BY <2>1, <1>1 DEF TypeOK, OrphanInv
    <3> QED
      BY <3>1, <1>1, <1>2, <1>3, <1>4, ArriveMissesOld DEF OffChain
  <2>2. CASE o \in Undone(head, at)
    BY <2>2, <1>1, <1>2, <1>3, ArriveOrphans
  <2> QED
    BY <1>2, <2>1, <2>2
<1>6. ASSUME NEW o \in orphaned' PROVE OffChain(o)'
  <2>1. Outranked(o) => Outranked(o)'
    BY <1>2 DEF Outranked, Above
  <2>2. Parted(o, at) => Parted(o, head)'
    BY <1>2 DEF Parted
  <2> QED
    BY <1>2, <1>5, <2>1, <2>2 DEF OffChain
<1>7. Based'
  BY <1>1, <1>2 DEF Based
<1> QED
  BY <1>1, <1>2, <1>6, <1>7 DEF OrphanInv, WalkWins

\* A node that stops parks its head on the oldest envelope, which is on the
\* chain it stood on.
LEMMA OrphanStops ==
  ASSUME Standing, OrphanInv, oldest \in Anc[head], pc' = "down", at' = None,
         head' = oldest, UNCHANGED <<versions, oldest, orphaned>>,
         log \cap Valid \subseteq log',
         log' \ weighed' \subseteq log \ weighed
  PROVE  OrphanInv'
<1>1. TypeOK /\ Based /\ versions \subseteq Valid
  BY DEF Standing, OrphanInv
<1>2. Based'
  BY <1>1, BasedKept
<1>3. ASSUME NEW o \in orphaned' PROVE OffChain(o)'
  <2>1. o \in Digest /\ OffChain(o) /\ head \in Digest
    BY <1>1 DEF TypeOK, OrphanInv
  <2>2. Anc[oldest] \subseteq Anc[head]
    BY <2>1, AncTransitive
  <2>3. Parted(o, head)'
    BY <2>1, <2>2 DEF OffChain, Parted
  <2>4. oldest \in Anc[o] => Outranked(o)'
    BY <2>1, <1>1, OutrankedKept DEF OffChain
  <2> QED
    BY <2>1, <2>3, <2>4 DEF OffChain
<1> QED
  BY <1>1, <1>2, <1>3 DEF OrphanInv, WalkWins

\* An operation that leaves the oldest envelope and the head alone, and loses
\* nothing that applies above the oldest envelope.
LEMMA OrphanStays ==
  ASSUME Standing, OrphanInv, UNCHANGED <<oldest, head, orphaned>>,
         pc' \notin {"down", "open"} => pc \notin {"down", "open"},
         \A e \in log \cap Valid : oldest \in Anc[e] => e \in log',
         log' \ weighed' \subseteq log \ weighed,
         versions' \subseteq Valid,
         \A d \in versions' : d \in versions
            \/ (d \in Digest \ {Genesis} /\ Prev[d] \in versions),
         WalkWins'
  PROVE  OrphanInv'
<1>1. TypeOK /\ Based
  BY DEF Standing, OrphanInv
<1>2. Based'
  BY <1>1, BasedKept
<1>3. ASSUME NEW o \in orphaned' PROVE OffChain(o)'
  <2>1. o \in Digest /\ OffChain(o)
    BY <1>1 DEF TypeOK, OrphanInv
  <2>2. Parted(o, head)' /\ (pc' \notin {"down", "open"} => head' \notin Anc[o])
    BY <2>1 DEF OffChain, Parted
  <2>3. oldest \in Anc[o] => Outranked(o)'
    BY <2>1, <1>1, OutrankedKept DEF OffChain
  <2> QED
    BY <2>2, <2>3 DEF OffChain
<1> QED
  BY <1>2, <1>3 DEF OrphanInv

LEMMA OrphanStep ==
  ASSUME Faults \subseteq {"crash"}
  PROVE  Standing /\ PathInv /\ OrphanInv /\ [Next]_vars => OrphanInv'
<1> SUFFICES ASSUME Standing, PathInv, OrphanInv, [Next]_vars PROVE OrphanInv'
  OBVIOUS
<1> USE DEF store, cursor, batch, told
<1>1. TypeOK /\ Footed /\ Resting /\ versions \subseteq Valid /\ WalkWins
  BY DEF Standing, OrphanInv
<1>2. pc # "down" => oldest \in Anc[head] /\ oldest \in versions
  BY DEF PathInv, PathHeld
<1>3. CASE \E d \in Digest : BeginCompact(d)
  BY <1>3, OrphanBegin
<1>4. CASE Arrive
  BY <1>4, OrphanArrive
<1>5. CASE \E d \in Digest : PruneOne(d)
  <2>1. PICK d \in Digest : PruneOne(d)
    BY <1>5
  <2>2. /\ pc = "prune" /\ pc' = "prune" /\ Prunable(d) /\ at' = None
        /\ log' = log \ {d} /\ weighed' = weighed \ {d}
        /\ UNCHANGED <<versions, oldest, head, orphaned>>
    BY <2>1, <1>1 DEF PruneOne, Resting
  <2>3. oldest \notin Anc[d]
    BY <2>2, <1>1, PruneBelow
  <2>4. WalkWins'
    BY <2>2 DEF WalkWins
  <2> QED
    BY <2>2, <2>3, <2>4, <1>1, OrphanStays
<1>6. CASE Retain
  <2>1. /\ pc = "prune" /\ pc' = "idle" /\ at' = None /\ versions' \subseteq versions
        /\ UNCHANGED <<log, weighed, oldest, head, orphaned>>
    BY <1>6, <1>1 DEF Retain, Resting
  <2>2. WalkWins'
    BY <2>1 DEF WalkWins
  <2> QED
    BY <2>1, <2>2, <1>1, OrphanStays
<1>7. CASE WalkStart
  <2>1. Walking /\ root = oldest /\ oldest \in versions /\ oldest \in Digest
    BY <1>7, <1>1, <1>2 DEF WalkStart, Walking, PathInv, TypeOK
  <2>2. /\ at' = oldest /\ UNCHANGED <<log, weighed, versions, oldest, head, pc, orphaned>>
    BY <2>1, <1>7 DEF WalkStart
  <2>3. OnPath(log, weighed, oldest, oldest)
    BY <2>1, AncSelf DEF OnPath, Above
  <2>4. WalkWins'
    BY <2>1, <2>2, <2>3 DEF WalkWins, Walking
  <2> QED
    BY <2>2, <2>4, <1>1, OrphanStays
<1>8. CASE \E d \in Digest : StepDown(d)
  <2>1. PICK d \in Digest : StepDown(d)
    BY <1>8
  <2>2. /\ Walking /\ at # None /\ at' = d /\ Winner(log, weighed, at, d)
        /\ d \in Valid /\ versions' = versions \cup {d}
        /\ UNCHANGED <<log, weighed, oldest, head, pc, orphaned>>
    BY <2>1, <1>1 DEF StepDown
  <2>3. d # Genesis /\ Prev[d] = at /\ at \in versions
    BY <2>2, <1>1 DEF Winner, Children, Footed
  <2>4. Anc[d] = {d} \cup Anc[at] /\ OnPath(log, weighed, oldest, at)
    BY <2>2, <2>3, <1>1, AncStep DEF WalkWins
  <2>5. OnPath(log, weighed, oldest, d)
    BY <2>2, <2>3, <2>4 DEF OnPath, Above
  <2>6. WalkWins'
    BY <2>2, <2>5 DEF WalkWins, Walking
  <2> QED
    BY <2>2, <2>3, <2>6, <1>1, OrphanStays
<1>9. CASE \E d \in Digest : StepRefused(d)
  <2>1. PICK d \in Digest : StepRefused(d)
    BY <1>9
  <2>2. /\ d \notin Valid /\ log' = log \ {d} /\ weighed' = weighed \ {d}
        /\ at' = None /\ pc \in {"walk", "open"}
        /\ UNCHANGED <<versions, oldest, orphaned>>
        /\ \/ pc = "walk" /\ pc' = "idle" /\ UNCHANGED head
           \/ pc' = "down" /\ head' = oldest
    BY <2>1 DEF StepRefused, WalkError, Walking
  <2>3. WalkWins'
    BY <2>2 DEF WalkWins
  <2>4. CASE pc = "walk" /\ pc' = "idle" /\ UNCHANGED head
    BY <2>2, <2>3, <2>4, <1>1, OrphanStays
  <2>5. CASE pc' = "down" /\ head' = oldest
    BY <2>2, <2>5, <1>1, <1>2, OrphanStops
  <2> QED
    BY <2>2, <2>4, <2>5
<1>10. CASE Crash
  BY <1>10, <1>1, <1>2, OrphanStops DEF Crash, Stop
<1>11. CASE StoreFails \/ WalkFails \/ DiffFails \/ PruneFails \/ Sync \/ PowerLoss
  BY <1>11 DEF StoreFails, WalkFails, DiffFails, PruneFails, Sync, PowerLoss
<1>12. CASE Open
  <2>1. /\ pc = "down" /\ pc' = "open" /\ at' = None
        /\ UNCHANGED <<log, weighed, versions, oldest, head, orphaned>>
    BY <1>12 DEF Open
  <2>2. WalkWins'
    BY <2>1 DEF WalkWins
  <2> QED
    BY <2>1, <2>2, <1>1, OrphanStays
<1>13. CASE /\ pc \in {"idle", "store", "put"} /\ pc' \in {"store", "put", "walk"}
            /\ at' \in {at, None} /\ log \subseteq log'
            /\ log' \ weighed' \subseteq log \ weighed
            /\ \A d \in versions' : d \in versions
                 \/ (d \in Valid /\ d \in Digest \ {Genesis} /\ Prev[d] \in versions)
            /\ UNCHANGED <<oldest, head, orphaned>>
  <2>1. at' = None
    BY <1>13, <1>1 DEF WalkWins, Walking
  <2>2. WalkWins'
    BY <2>1 DEF WalkWins
  <2> QED
    BY <1>13, <2>2, <1>1, OrphanStays
<1>14. CASE BeginInsert \/ EndBatch \/ PutEnvelope
  BY <1>13, <1>14 DEF BeginInsert, EndBatch, PutEnvelope
<1>15. CASE \E d \in Digest : StoreNext(d)
  <2>1. PICK d \in Digest : StoreNext(d)
    BY <1>15
  <2>2. CASE Apply(d)
    <3>1. Prev[d] \in versions /\ d # Genesis
      BY <2>2, <1>1 DEF Footed, Apply, Continues, Footing
    <3> QED
      BY <2>2, <3>1, <1>13 DEF Apply, Accept
  <2>3. CASE FoldKnown(d) \/ FoldStored(d)
    BY <2>3, <1>13 DEF FoldKnown, FoldStored, Accept
  <2>4. CASE RefuseInit(d) \/ RefuseGap(d) \/ RefuseUnknownParent(d) \/ RefuseRejected(d)
    BY <2>4, <1>13 DEF RefuseInit, RefuseGap, RefuseUnknownParent, RefuseRejected, Refuse
  <2> QED
    BY <2>1, <2>2, <2>3, <2>4 DEF StoreNext
<1>16. CASE UNCHANGED vars
  <2>1. WalkWins'
    BY <1>16, <1>1 DEF vars, WalkWins, Walking, OnPath, Above
  <2> QED
    BY <1>16, <2>1, <1>1, OrphanStays DEF vars
<1> QED
  BY <1>3, <1>4, <1>5, <1>6, <1>7, <1>8, <1>9, <1>10, <1>11, <1>12, <1>14,
     <1>15, <1>16 DEF Next

\* Through crashes at any statement, interrupted compactions and stored
\* envelopes that no longer apply, nothing a published Movement called
\* orphaned is ever on the chain again: a client told its change was undone
\* may resubmit it without its taking effect twice.
THEOREM OrphansNeverReturn ==
  ASSUME Faults \subseteq {"crash"}, Roots \subseteq Valid
  PROVE  Spec => []OrphansStayOff
<1>1. Init => PathInv
  BY DEF Init, PathInv, PathHeld
<1>2. Standing /\ PathInv /\ [Next]_vars => PathInv'
  BY PathStep
<1>3. Init => OrphanInv
  BY OrphanInit
<1>4. Standing /\ PathInv /\ OrphanInv /\ [Next]_vars => OrphanInv'
  BY OrphanStep
<1>5. OrphanInv => OrphansStayOff
  BY DEF OrphanInv, OffChain, Parted, OrphansStayOff
<1> QED
  BY <1>1, <1>2, <1>3, <1>4, <1>5, StandingInit, StandingStep, PTL DEF Spec

-----------------------------------------------------------------------------
(* What a finished compaction leaves.                                      *)

\* Every stored envelope above the oldest has its parent stored, and that
\* parent applies.
Linked ==
  \A d \in log : (oldest \in Anc[d] /\ d # oldest) => Prev[d] \in log \cap Valid

\* The prune will come to d.
Sweeps(d) == \E a \in Ancestors : d \in Doomed(a)

\* Nothing is stored below the oldest envelope except while a compaction
\* runs, and then the prune will come to it; a version outlives its envelope
\* only then, and precedes it only between the two statements of one insert.
CleanInv ==
  /\ ~regressed
  /\ versions \subseteq Valid
  /\ Linked
  /\ pc # "prune" => \A d \in log \cup versions : oldest \in Anc[d]
  /\ pc \notin {"prune", "put"} => versions \subseteq log
  /\ pc = "put" => /\ versions \subseteq log \cup {last}
                   /\ last # Genesis /\ Prev[last] \in log \cap Valid
  /\ pc = "prune" => /\ result = "none"
                     /\ \A d \in log : oldest \in Anc[d] \/ Sweeps(d)

\* Linked envelopes are stored all the way down to the oldest.
LEMMA LinkedDown ==
  ASSUME TypeOK, Linked, NEW d \in log, oldest \in Anc[d]
  PROVE  Above(oldest, d) \subseteq log
<1> DEFINE S == {y \in Anc[d] : y \in log \/ y \in Anc[oldest]}
<1>1. d \in Digest /\ oldest \in Digest
  BY DEF TypeOK
<1>2. S \in SUBSET Digest /\ d \in S
  BY <1>1, AncType, AncSelf
<1>3. ASSUME NEW y \in S \ {Genesis} PROVE Prev[y] \in S
  <2>1. Prev[y] \in Anc[d]
    BY <1>1, AncClosed
  <2>2. CASE y \in Anc[oldest]
    BY <2>1, <2>2, <1>1, AncClosed
  <2>3. CASE y \notin Anc[oldest]
    <3>1. oldest \in Anc[y] /\ y # oldest /\ y \in log
      BY <2>3, <1>1, AncLinear, AncSelf
    <3> QED
      BY <3>1, <2>1 DEF Linked
  <2> QED
    BY <2>2, <2>3
<1>4. Anc[d] \subseteq S
  BY <1>1, <1>2, <1>3, AncLeast
<1> QED
  BY <1>4 DEF Above

\* A new cut: whatever does not descend from it hangs off its path, over
\* stored envelopes.
LEMMA SweepBegins ==
  ASSUME TypeOK, Linked, \A e \in log : oldest \in Anc[e],
         NEW c \in log, NEW d \in log, c \notin Anc[d]
  PROVE  \E a \in Hops(log, c) \ {c} :
           \/ d = a
           \/ /\ a \in Anc[d] /\ d # a
              /\ Above(a, d) \subseteq log
              /\ Above(a, d) \cap Anc[c] = {}
<1>1. /\ c \in Digest /\ d \in Digest /\ oldest \in Digest
      /\ oldest \in Anc[c] /\ oldest \in Anc[d]
      /\ Above(oldest, c) \subseteq log /\ Above(oldest, d) \subseteq log
  BY LinkedDown DEF TypeOK
<1>2. CASE d \in Anc[c]
  <2>1. Above(d, c) \subseteq log /\ d # c
    BY <1>1, AncTransitive, AncSelf DEF Above
  <2> QED
    BY <2>1, <1>2 DEF Hops
<1>3. CASE d \notin Anc[c]
  <2>1. PICK x \in Anc[d] \ Anc[c], y \in Anc[c] \ Anc[d] :
           x # Genesis /\ y # Genesis /\ Prev[x] = Prev[y]
    BY <1>1, <1>3, Parting
  <2>2. x \in Digest /\ x \in Above(oldest, d)
    BY <2>1, <1>1, AncTransitive, AncType DEF Above
  <2> DEFINE a == Prev[x]
  <2>3. a \in Digest /\ oldest \in Anc[a] /\ a \in Anc[d] /\ a \in Anc[c]
    BY <2>1, <2>2, <1>1, AboveStep, AncClosed
  <2>4. a # c /\ a # d
    BY <2>3, <1>3
  <2>5. Above(a, d) \subseteq log /\ Above(a, c) \subseteq log
    BY <2>3, <1>1, AncTransitive DEF Above
  <2>6. ASSUME NEW z \in Above(a, d), z \in Anc[c] PROVE FALSE
    <3>1. z \in Anc[d] /\ z \notin Anc[a] /\ z \in Digest
      BY <1>1, AncType DEF Above
    <3>2. x \notin Anc[z]
      BY <2>1, <2>6, <1>1, AncTransitive
    <3>3. z \in Anc[x] /\ z # x
      BY <3>1, <3>2, <2>1, <1>1, AncLinear, AncSelf
    <3> QED
      BY <3>1, <3>3, <2>1, <2>2, AncStep
  <2> HIDE DEF a
  <2> QED
    BY <2>3, <2>4, <2>5, <2>6 DEF Hops
<1> QED
  BY <1>2, <1>3

\* Pruning one envelope leaves the rest of what it will come to within reach.
LEMMA SweepGoesOn ==
  ASSUME TypeOK, NEW d \in Digest, Prunable(d),
         log' = log \ {d}, UNCHANGED oldest,
         NEW e \in log, e # d, Sweeps(e)
  PROVE  Sweeps(e)'
<1>1. oldest \in Digest /\ log \subseteq Digest
  BY DEF TypeOK
<1>2. PICK a \in Ancestors : e \in Doomed(a)
  BY DEF Sweeps
<1>3. PICK b \in Ancestors :
         /\ \A f \in (Ancestors \cap Anc[b]) \ {b} : Doomed(f) = {}
         /\ \/ d \in DeadBranches(b) /\ Children(log, d) = {}
            \/ d = b /\ d \in log /\ DeadBranches(b) = {}
  BY DEF Prunable
<1>4. /\ a \in Anc[oldest] /\ a # oldest /\ a \in Digest
      /\ Above(a, oldest) \subseteq log
      /\ b \in Anc[oldest] /\ b \in Digest
  BY <1>1, AncType DEF Ancestors, Hops
<1>5. e \in DeadBranches(a) \/ e = a
  BY <1>2 DEF Doomed
<1>6. /\ d \notin Above(a, oldest)
      /\ e \in DeadBranches(a) => d \notin Above(a, e)
  <2>1. CASE d \in DeadBranches(b) /\ Children(log, d) = {}
    <3>1. b \in Anc[d] /\ d # b /\ Above(b, d) \cap Anc[oldest] = {}
      BY <2>1 DEF DeadBranches
    <3>2. d \notin Anc[oldest]
      BY <3>1, <1>4, AncSelf, AncAntisymmetric DEF Above
    <3>3. ASSUME e \in DeadBranches(a), d \in Above(a, e) PROVE FALSE
      <4>1. /\ a \in Anc[e] /\ Above(a, e) \subseteq log /\ e \in Digest
            /\ d \in Anc[e] /\ d \notin Anc[a]
        BY <3>3, <1>1 DEF DeadBranches, Above
      <4>2. a \in Anc[d]
        BY <4>1, AncLinear
      <4>3. PICK z \in Above(d, e) : z # Genesis /\ Prev[z] = d
        BY <4>1, FirstAbove
      <4>4. z \in Above(a, e)
        BY <4>2, <4>3, AncTransitive DEF Above
      <4> QED
        BY <4>1, <4>3, <4>4, <2>1 DEF Children
    <3> QED
      BY <3>2, <3>3 DEF Above
  <2>2. CASE d = b /\ DeadBranches(b) = {}
    <3>1. a # b
      BY <2>2, <1>5
    <3>2. a \notin Anc[b]
      BY <3>1, <1>2, <1>3
    <3>3. b \in Anc[a]
      BY <3>2, <1>1, <1>4, AncLinear
    <3> QED
      BY <3>3, <2>2 DEF Above
  <2> QED
    BY <1>3, <2>1, <2>2
<1>7. a \in Ancestors'
  BY <1>4, <1>6 DEF Ancestors, Hops, Above
<1>8. e \in Doomed(a)'
  <2>1. CASE e = a
    BY <2>1 DEF Doomed
  <2>2. CASE e \in DeadBranches(a)
    BY <2>2, <1>6 DEF Doomed, DeadBranches, Above
  <2> QED
    BY <1>5, <2>1, <2>2
<1> QED
  BY <1>7, <1>8 DEF Sweeps

\* What an earlier build may leave for a compaction to finish: envelopes that
\* hang off the root over ones that apply.
HangsOffRoot ==
  \A r \in Roots, d \in Inherited :
    r \in Anc[d] /\ Prev[d] \in {r} \cup (Inherited \cap Valid)

LEMMA CleanInit ==
  ASSUME Roots \subseteq Valid, HangsOffRoot
  PROVE  Init => CleanInv
<1> SUFFICES ASSUME Init PROVE CleanInv
  OBVIOUS
<1>1. PICK r \in Roots : /\ log = {r} \cup Inherited /\ versions = {r} /\ oldest = r
  BY DEF Init
<1>2. r \in Digest /\ r \in Anc[r]
  BY AncSelf, InheritedAssumption
<1>3. \A d \in log \cup versions : oldest \in Anc[d]
  BY <1>1, <1>2 DEF HangsOffRoot
<1>4. Linked
  BY <1>1 DEF Linked, HangsOffRoot
<1>5. pc = "down" /\ ~regressed
  BY DEF Init
<1> QED
  BY <1>1, <1>3, <1>4, <1>5 DEF CleanInv

LEMMA CleanBegin ==
  ASSUME Standing, CleanInv, NEW c \in Digest, BeginCompact(c)
  PROVE  CleanInv'
<1> USE DEF store, cursor, batch, told
<1>1. TypeOK
  BY DEF Standing
<1>2. /\ pc = "idle" /\ pc' = "prune" /\ oldest' = c /\ result' = "none"
      /\ regressed' = (regressed \/ (c \in Anc[oldest] /\ c # oldest))
      /\ UNCHANGED <<log, versions>> /\ c \in log
  BY DEF BeginCompact, LoggedPath
<1>3. /\ ~regressed /\ Linked /\ versions \subseteq Valid
      /\ \A e \in log : oldest \in Anc[e]
      /\ oldest \in Digest /\ log \subseteq Digest
  BY <1>1, <1>2 DEF CleanInv, TypeOK
<1>4. c \in Anc[oldest] => c = oldest
  BY <1>2, <1>3, AncAntisymmetric
<1>5. regressed' = FALSE
  BY <1>2, <1>3, <1>4
<1>6. ASSUME NEW d \in log, c \in Anc[d], d # c PROVE d # oldest
  BY <1>4, <1>6
<1>7. Linked'
  BY <1>2, <1>3, <1>6 DEF Linked
<1>8. ASSUME NEW d \in log, c \notin Anc[d] PROVE Sweeps(d)'
  <2>1. PICK a \in Hops(log, c) \ {c} :
           \/ d = a
           \/ /\ a \in Anc[d] /\ d # a
              /\ Above(a, d) \subseteq log
              /\ Above(a, d) \cap Anc[c] = {}
    BY <1>1, <1>2, <1>3, <1>8, SweepBegins
  <2>2. a \in Ancestors'
    BY <1>2 DEF Ancestors, Hops, Above
  <2>3. d \in Doomed(a)'
    BY <2>1, <1>2 DEF Doomed, DeadBranches, Above
  <2> QED
    BY <2>2, <2>3 DEF Sweeps
<1>9. \A d \in log' : oldest' \in Anc[d] \/ Sweeps(d)'
  BY <1>2, <1>8
<1> QED
  BY <1>2, <1>3, <1>5, <1>7, <1>9 DEF CleanInv

LEMMA CleanPrune ==
  ASSUME Standing, CleanInv, NEW d \in Digest, PruneOne(d)
  PROVE  CleanInv'
<1> USE DEF store, cursor, batch, told
<1>1. TypeOK
  BY DEF Standing
<1>2. /\ pc = "prune" /\ pc' = "prune" /\ Prunable(d) /\ log' = log \ {d}
      /\ UNCHANGED <<versions, oldest, result, regressed>>
  BY DEF PruneOne
<1>3. oldest \notin Anc[d] /\ oldest \in Digest /\ log \subseteq Digest
  BY <1>1, <1>2, PruneBelow DEF TypeOK
<1>4. ASSUME NEW e \in log', oldest \in Anc[e], e # oldest
      PROVE  Prev[e] \in log' \cap Valid
  <2>1. e \in Digest /\ Prev[e] \in log \cap Valid
    BY <1>2, <1>3, <1>4 DEF CleanInv, Linked
  <2>2. e # Genesis
    BY <1>4, AncGenesis
  <2>3. oldest \in Anc[Prev[e]]
    BY <2>1, <2>2, <1>4, AncStep
  <2> QED
    BY <2>1, <2>3, <1>2, <1>3
<1>5. ASSUME NEW e \in log' PROVE oldest' \in Anc[e] \/ Sweeps(e)'
  <2>1. e \in log /\ e # d
    BY <1>2
  <2>2. oldest \in Anc[e] \/ Sweeps(e)
    BY <2>1, <1>2 DEF CleanInv
  <2>3. Sweeps(e) => Sweeps(e)'
    BY <2>1, <1>1, <1>2, SweepGoesOn
  <2> QED
    BY <2>2, <2>3, <1>2
<1>6. Linked'
  BY <1>2, <1>4 DEF Linked
<1> QED
  BY <1>2, <1>5, <1>6 DEF CleanInv

LEMMA CleanStep ==
  ASSUME Faults = {}
  PROVE  Standing /\ PathInv /\ CleanInv /\ [Next]_vars => CleanInv'
<1> SUFFICES ASSUME Standing, PathInv, CleanInv, [Next]_vars PROVE CleanInv'
  OBVIOUS
<1> USE DEF store, cursor, batch, told
<1>1. /\ TypeOK /\ Footed /\ ~regressed /\ versions \subseteq Valid /\ Linked
      /\ oldest \in Digest /\ log \subseteq Digest
  BY DEF Standing, CleanInv, TypeOK
<1>2. CASE \E d \in Digest : BeginCompact(d)
  BY <1>2, CleanBegin
<1>3. CASE \E d \in Digest : PruneOne(d)
  BY <1>3, CleanPrune
<1>4. CASE Retain
  <2>1. /\ pc = "prune" /\ pc' = "idle"
        /\ versions' = versions \cap (Above(oldest, head) \cup {oldest})
        /\ \A a \in Ancestors : Doomed(a) = {}
        /\ UNCHANGED <<log, oldest, head, regressed>>
    BY <1>4 DEF Retain
  <2>2. \A d \in log : oldest \in Anc[d]
    BY <2>1 DEF CleanInv, Sweeps
  <2>3. versions' \subseteq log
    BY <2>1 DEF PathInv, PathHeld
  <2> QED
    BY <2>1, <2>2, <2>3, <1>1 DEF CleanInv, Linked
<1>5. CASE \E d \in Digest : StepDown(d)
  <2>1. PICK d \in Digest : StepDown(d)
    BY <1>5
  <2>2. /\ pc' = pc /\ pc \in {"walk", "open"} /\ d \in log /\ d \in Valid
        /\ versions' = versions \cup {d}
        /\ UNCHANGED <<log, oldest, regressed>>
    BY <2>1, <1>1 DEF StepDown, Walking, Winner, Children
  <2> QED
    BY <2>2, <1>1 DEF CleanInv, Linked
<1>6. CASE \E d \in Digest : StepRefused(d)
  <2>1. PICK d \in Digest : StepRefused(d)
    BY <1>6
  <2>2. /\ pc \in {"walk", "open"} /\ pc' \in {"idle", "down"}
        /\ d \notin versions /\ d \notin Valid /\ log' = log \ {d}
        /\ UNCHANGED <<versions, oldest, regressed>>
    BY <2>1 DEF StepRefused, WalkError, Walking
  <2>3. Linked'
    BY <2>2, <1>1 DEF Linked
  <2> QED
    BY <2>2, <2>3, <1>1 DEF CleanInv
<1>7. CASE \E d \in Digest : Apply(d)
  <2>1. PICK d \in Digest : Apply(d)
    BY <1>7
  <2>2. /\ pc = "store" /\ pc' = (IF d \in log THEN "store" ELSE "put")
        /\ last' = d /\ d # Genesis /\ d \in Valid
        /\ versions' = versions \cup {d}
        /\ UNCHANGED <<log, oldest, regressed>>
    BY <2>1 DEF Apply, Accept, Continues
  <2>3. Prev[d] \in versions
    BY <2>1, <1>1 DEF Footed, Apply, Continues, Footing
  <2>4. versions \subseteq log /\ oldest \in Anc[Prev[d]]
    BY <2>2, <2>3 DEF CleanInv
  <2>5. oldest \in Anc[d]
    BY <2>2, <2>4, AncStep
  <2> QED
    BY <2>2, <2>3, <2>4, <2>5, <1>1 DEF CleanInv, Linked
<1>8. CASE PutEnvelope
  <2>1. /\ pc = "put" /\ pc' = "store" /\ log' = log \cup {last}
        /\ UNCHANGED <<versions, oldest, regressed>>
    BY <1>8 DEF PutEnvelope
  <2>2. last \in versions /\ versions \subseteq log \cup {last}
        /\ Prev[last] \in log \cap Valid
    BY <2>1, <1>1 DEF Footed, CleanInv
  <2>3. Linked'
    BY <2>1, <2>2, <1>1 DEF Linked
  <2> QED
    BY <2>1, <2>2, <2>3, <1>1 DEF CleanInv
<1>9. CASE \E d \in Digest : FoldKnown(d)
  <2>1. PICK d \in Digest : FoldKnown(d)
    BY <1>9
  <2>2. pc = "store" /\ d \in versions
    BY <2>1 DEF FoldKnown
  <2>3. d \in log
    BY <2>2 DEF CleanInv
  <2>4. pc' = "store" /\ UNCHANGED <<log, versions, oldest, regressed>>
    BY <2>1, <2>3 DEF FoldKnown, Accept
  <2> QED
    BY <2>2, <2>4, <1>1 DEF CleanInv, Linked
<1>10. CASE /\ pc \notin {"prune", "put"} /\ pc' \notin {"prune", "put"}
            /\ UNCHANGED <<log, versions, oldest, regressed>>
  BY <1>10, <1>1 DEF CleanInv, Linked
<1>11. CASE BeginInsert \/ EndBatch \/ WalkStart \/ Arrive \/ Open
  BY <1>10, <1>11 DEF BeginInsert, EndBatch, WalkStart, WalkError, Walking, Arrive, Open
<1>12. CASE \E d \in Digest : StoreNext(d)
  <2>1. PICK d \in Digest : StoreNext(d)
    BY <1>12
  <2>2. CASE RefuseInit(d) \/ RefuseGap(d) \/ RefuseUnknownParent(d)
             \/ RefuseRejected(d) \/ FoldStored(d)
    BY <2>2, <1>10 DEF RefuseInit, RefuseGap, RefuseUnknownParent, RefuseRejected,
       Refuse, FoldStored, Accept
  <2> QED
    BY <2>1, <2>2, <1>7, <1>9 DEF StoreNext
<1>13. CASE Crash \/ StoreFails \/ WalkFails \/ DiffFails \/ PruneFails \/ Sync \/ PowerLoss
  BY <1>13 DEF Crash, StoreFails, WalkFails, DiffFails, PruneFails, Sync, PowerLoss
<1>14. CASE UNCHANGED vars
  BY <1>14, <1>1 DEF vars, CleanInv, Linked, Sweeps, Ancestors, Hops, Above, Doomed,
                     DeadBranches
<1> QED
  BY <1>2, <1>3, <1>4, <1>5, <1>6, <1>8, <1>11, <1>12, <1>13, <1>14 DEF Next

\* Without faults a compaction that reports success has cut above the root it
\* replaces and has left nothing in the log but the cut and what descends
\* from it, whatever branches the log held and whatever an earlier build left
\* hanging off the root.
THEOREM CompactionsComplete ==
  ASSUME Faults = {}, Roots \subseteq Valid, HangsOffRoot
  PROVE  Spec => CompactionIsComplete
<1>1. Init => PathInv
  BY DEF Init, PathInv, PathHeld
<1>2. Standing /\ PathInv /\ [Next]_vars => PathInv'
  BY PathStep
<1>3. Init => CleanInv
  BY CleanInit
<1>4. Standing /\ PathInv /\ CleanInv /\ [Next]_vars => CleanInv'
  BY CleanStep
<1>5. CleanInv /\ [Next]_vars =>
        [(pc = "prune" /\ result' = "Compacted") =>
           ~regressed /\ \A d \in log' : oldest \in Anc[d]]_vars
  <2> SUFFICES ASSUME CleanInv, [Next]_vars, pc = "prune", result' = "Compacted",
                      ~UNCHANGED vars
               PROVE  ~regressed /\ \A d \in log' : oldest \in Anc[d]
    OBVIOUS
  <2>1. result = "none" /\ ~regressed /\ \A d \in log : oldest \in Anc[d] \/ Sweeps(d)
    BY DEF CleanInv
  <2>2. Retain
    BY <2>1 DEF Next, BeginInsert, StoreNext, RefuseInit, RefuseGap, FoldKnown,
       FoldStored, RefuseUnknownParent, RefuseRejected, Apply, PutEnvelope, EndBatch,
       WalkStart, StepDown, StepRefused, Walking, Arrive, BeginCompact, PruneOne,
       Crash, StoreFails, WalkFails, DiffFails, PruneFails, Sync, PowerLoss, Open
  <2> QED
    BY <2>1, <2>2 DEF Retain, Sweeps
<1> QED
  BY <1>1, <1>2, <1>3, <1>4, <1>5, StandingInit, StandingStep, PTL
     DEF Spec, CompactionIsComplete
=============================================================================

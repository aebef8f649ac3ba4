----------------------------- MODULE SyncProofs -----------------------------
(***************************************************************************)
(* Theorems about Sync, for every cluster, envelope tree, choice of cuts   *)
(* and number of lost connections.                                         *)
(***************************************************************************)
EXTENDS Sync, EnvelopesProofs, FiniteSetTheorems

-----------------------------------------------------------------------------
(* Types.                                                                  *)

\* The empty run is within any budget.
LEMMA EmptyBatch == {} \in Batch
<1>1. Cardinality({}) = 0
  BY FS_EmptySet
<1> QED
  BY <1>1, NodeAssumption DEF Batch

\* The frames a server sends.
LEMMA FrameTypes ==
  /\ \A h \in Digest : HelloFrame(h) \in FrameType
  /\ \A d \in Digest : SplitFrame(d) \in FrameType
  /\ NoSplitFrame \in FrameType
  /\ \A b \in Batch : RunFrame(b) \in FrameType
  /\ CaughtUpFrame \in FrameType
BY EmptyBatch DEF FrameType, Frame, HelloFrame, SplitFrame, NoSplitFrame,
                  RunFrame, CaughtUpFrame

LEMMA SessionTypes ==
  NoSession \in SessionType /\ Opened \in SessionType /\ Ended \in SessionType
<1>1. NoSession \in SessionType
  BY DEF NoSession, SessionType
<1> QED
  BY <1>1 DEF NoSession, Opened, Ended, SessionType

\* Sending keeps a session's type.
LEMMA SendType ==
  ASSUME NEW x \in SessionType, NEW f \in FrameType
  PROVE  Send(x, f) \in SessionType
<1>1. x.stream \in Seq(FrameType)
  BY DEF SessionType
<1>2. Append(x.stream, f) \in Seq(FrameType)
  BY <1>1
<1> QED
  BY <1>2 DEF Send, SessionType

\* Reading the frame at the front does too.
LEMMA ReadType ==
  ASSUME TypeOK, NEW l \in Links, session[l].stream # <<>>
  PROVE  Read(l) \in SessionType /\ Received(l) \in FrameType
<1>1. session[l] \in SessionType /\ session[l].stream \in Seq(FrameType)
  BY DEF TypeOK, SessionType
<1>2. Tail(session[l].stream) \in Seq(FrameType)
      /\ Head(session[l].stream) \in FrameType
  BY <1>1
<1> QED
  BY <1>1, <1>2 DEF Read, Received, SessionType

\* A step of one session, its new state typed.
LEMMA MoveType ==
  ASSUME TypeOK, NEW l \in Links, NEW s \in SessionType, Move(l, s)
  PROVE  /\ session' \in [Links -> SessionType]
         /\ UNCHANGED <<watch, up, stale, announced, pull, drops, blamed>>
BY DEF Move, TypeOK

\* The parts of TypeOK about the chains and about everything else.
ChainsTyped ==
  /\ log \in [Node -> SUBSET Digest] /\ versions \in [Node -> SUBSET Digest]
  /\ root \in [Node -> Digest] /\ head \in [Node -> Digest]

LinksTyped ==
  /\ watch \in [Node -> Digest]
  /\ up \in [Links -> BOOLEAN] /\ stale \in [Links -> BOOLEAN]
  /\ announced \in [Links -> SUBSET Digest]
  /\ pull \in [Links -> {"Idle", "Running", "RunningAgain"}]
  /\ session \in [Links -> SessionType]
  /\ drops \in 0 .. MaxDrops
  /\ blamed \subseteq Links \X {"breach", "refused"}

LEMMA TypeParts == TypeOK <=> ChainsTyped /\ LinksTyped
BY DEF TypeOK, ChainsTyped, LinksTyped

LEMMA InsertType ==
  ASSUME TypeOK, NEW n \in Node, NEW b \in SUBSET Digest, Insert(n, b)
  PROVE  ChainsTyped'
<1> DEFINE got == Taken(log[n], versions[n], b)
           L   == log[n] \cup got
<1>1. got \subseteq Digest /\ L \subseteq Digest
  BY DEF Taken, TypeOK
<1>2. PICK t \in L :
        /\ log' = [log EXCEPT ![n] = L]
        /\ head' = [head EXCEPT ![n] = t]
        /\ versions' = [versions EXCEPT ![n] =
             @ \cup {d \in got : Stands(log[n], versions[n], b, d)} \cup Above(root[n], t)]
        /\ root' = root
  BY DEF Insert
<1>3. t \in Digest /\ Above(root[n], t) \subseteq Digest
  BY <1>1, AncType DEF Above
<1>4. {d \in got : Stands(log[n], versions[n], b, d)} \subseteq Digest
  BY <1>1
<1> HIDE DEF got, L
<1> QED
  BY <1>1, <1>2, <1>3, <1>4 DEF TypeOK, ChainsTyped

\* A link goes down.
LEMMA DownType ==
  ASSUME LinksTyped, NEW l \in Links, Down(l)
  PROVE  /\ up' \in [Links -> BOOLEAN] /\ stale' \in [Links -> BOOLEAN]
         /\ announced' \in [Links -> SUBSET Digest]
         /\ pull' \in [Links -> {"Idle", "Running", "RunningAgain"}]
         /\ session' \in [Links -> SessionType]
BY SessionTypes DEF LinksTyped, Down

LEMMA BlameType ==
  ASSUME LinksTyped, NEW l \in Links, NEW why \in {"breach", "refused"}, Blame(l, why)
  PROVE  LinksTyped'
<1>1. blamed' \subseteq Links \X {"breach", "refused"} /\ UNCHANGED <<watch, drops>>
  BY DEF Blame, LinksTyped
<1>2. Down(l)
  BY DEF Blame
<1> QED
  BY <1>1, <1>2, DownType DEF LinksTyped

\* Edits, compactions and what the egress passes on.
LEMMA TypeNode ==
  ASSUME TypeOK, NEW n \in Node, Author(n) \/ Compact(n) \/ Notify(n)
  PROVE  TypeOK'
<1>1. CASE Author(n)
  <2>1. PICK d \in Digest : Insert(n, {d})
    BY <1>1, NodeAssumption DEF Author
  <2>2. ChainsTyped'
    BY <2>1, InsertType
  <2>3. LinksTyped'
    BY <1>1, TypeParts DEF Author, links, LinksTyped
  <2> QED
    BY <2>2, <2>3 DEF TypeOK, ChainsTyped, LinksTyped
<1>2. CASE Compact(n)
  <2>1. PICK c \in Cuts[n] \cap Above(root[n], head[n]) :
          /\ log' = [log EXCEPT ![n] = {d \in @ : c \in Anc[d]}]
          /\ versions' = [versions EXCEPT ![n] = {c} \cup Above(c, head[n])]
          /\ root' = [root EXCEPT ![n] = c]
          /\ head' = head
    BY <1>2 DEF Compact
  <2>2. c \in Digest /\ Above(c, head[n]) \subseteq Digest
    BY <2>1, AncType DEF TypeOK, Above
  <2>3. ChainsTyped'
    BY <2>1, <2>2 DEF TypeOK, ChainsTyped
  <2>4. LinksTyped'
    BY <1>2, TypeParts DEF Compact, links, LinksTyped
  <2> QED
    BY <2>3, <2>4 DEF TypeOK, ChainsTyped, LinksTyped
<1>3. CASE Notify(n)
  BY <1>3 DEF Notify, TypeOK, chains
<1> QED
  BY <1>1, <1>2, <1>3

\* Dialling, announcing, and deciding when to pull.
LEMMA TypeLink ==
  ASSUME TypeOK, NEW l \in Links,
         Connect(l) \/ Announce(l) \/ OnAnnounce(l) \/ Settle(l) \/ Drop(l)
  PROVE  TypeOK'
<1> USE DEF chains
<1>1. l[1] \in Node /\ l[2] \in Node
  BY NodeAssumption
<1>2. CASE Connect(l) \/ Announce(l)
  <2>1. watch[l[2]] \in Digest
    BY <1>1 DEF TypeOK
  <2>2. announced' \in [Links -> SUBSET Digest]
    BY <1>2, <2>1 DEF Connect, Announce, TypeOK
  <2>3. up' \in [Links -> BOOLEAN] /\ stale' \in [Links -> BOOLEAN]
    BY <1>2 DEF Connect, Announce, TypeOK
  <2> QED
    BY <1>2, <2>2, <2>3 DEF Connect, Announce, TypeOK
<1>3. CASE OnAnnounce(l)
  <2>1. pull' \in [Links -> {"Idle", "Running", "RunningAgain"}]
        /\ session' \in [Links -> SessionType]
    BY <1>3, SessionTypes DEF OnAnnounce, WantPull, TypeOK
  <2>2. announced' \in [Links -> SUBSET Digest]
    BY <1>3 DEF OnAnnounce, TypeOK
  <2> QED
    BY <1>3, <2>1, <2>2 DEF OnAnnounce, TypeOK
<1>4. CASE Settle(l)
  <2>1. pull' \in [Links -> {"Idle", "Running", "RunningAgain"}]
        /\ session' \in [Links -> SessionType]
    BY <1>4, SessionTypes DEF Settle, TypeOK
  <2> QED
    BY <1>4, <2>1 DEF Settle, TypeOK
<1>5. CASE Drop(l)
  <2>1. drops' \in 0 .. MaxDrops
    BY <1>5, NodeAssumption DEF Drop, TypeOK
  <2>2. Down(l) /\ LinksTyped
    BY <1>5, TypeParts DEF Drop
  <2> QED
    BY <1>5, <2>1, <2>2, DownType DEF Drop, TypeOK
<1> QED
  BY <1>2, <1>3, <1>4, <1>5

\* A session step that leaves the chains alone.
LEMMA TypeMove ==
  ASSUME TypeOK, NEW l \in Links, NEW s \in SessionType, Move(l, s), UNCHANGED chains
  PROVE  TypeOK'
BY MoveType DEF TypeOK, chains

\* The serving side.
LEMMA TypeServe ==
  ASSUME TypeOK, NEW l \in Links,
         \/ ServeHello(l) \/ ServeSplit(l) \/ ServeNoSplit(l)
         \/ ServeSegment(l) \/ ServeCaughtUp(l)
  PROVE  TypeOK'
<1>1. session[l] \in SessionType /\ head[l[2]] \in Digest
  BY NodeAssumption DEF TypeOK
<1>2. CASE ServeHello(l)
  <2>1. Send(session[l], HelloFrame(head[l[2]])) \in SessionType
    BY <1>1, FrameTypes, SendType
  <2>2. [Send(session[l], HelloFrame(head[l[2]])) EXCEPT !.server = "find"] \in SessionType
    BY <2>1 DEF SessionType
  <2> QED
    BY <1>2, <2>2, TypeMove DEF ServeHello
<1>3. CASE ServeSplit(l)
  <2>1. PICK d \in session[l].locator :
          Move(l, [Send(session[l], SplitFrame(d))
                     EXCEPT !.server = "segment", !.sent = d])
    BY <1>3 DEF ServeSplit
  <2>2. d \in Digest
    BY <1>1 DEF SessionType
  <2>3. Send(session[l], SplitFrame(d)) \in SessionType
    BY <1>1, <2>2, FrameTypes, SendType
  <2>4. [Send(session[l], SplitFrame(d)) EXCEPT !.server = "segment", !.sent = d]
          \in SessionType
    BY <2>2, <2>3 DEF SessionType
  <2> QED
    BY <1>3, <2>1, <2>4, TypeMove DEF ServeSplit
<1>4. CASE ServeNoSplit(l)
  <2>1. Send(session[l], NoSplitFrame) \in SessionType
    BY <1>1, FrameTypes, SendType
  <2>2. [Send(session[l], NoSplitFrame) EXCEPT !.server = "done"] \in SessionType
    BY <2>1 DEF SessionType
  <2> QED
    BY <1>4, <2>2, TypeMove DEF ServeNoSplit
<1>5. CASE ServeSegment(l)
  <2> DEFINE b(t) == Above(session[l].sent, t)
  <2>1. PICK t \in Newer(l[2], session[l].sent) :
          /\ Cardinality(b(t)) <= MaxBatch
          /\ Move(l, [Send(session[l], RunFrame(b(t))) EXCEPT !.sent = t])
    BY <1>5 DEF ServeSegment
  <2>2. t \in Digest
    BY <1>1, AncType DEF Newer, Above
  <2>3. b(t) \in Batch
    BY <2>1, <2>2, AncType DEF Above, Batch
  <2>4. Send(session[l], RunFrame(b(t))) \in SessionType
    BY <1>1, <2>3, FrameTypes, SendType
  <2>5. [Send(session[l], RunFrame(b(t))) EXCEPT !.sent = t] \in SessionType
    BY <2>2, <2>4 DEF SessionType
  <2> QED
    BY <1>5, <2>1, <2>5, TypeMove DEF ServeSegment
<1>6. CASE ServeCaughtUp(l)
  <2>1. Send(session[l], CaughtUpFrame) \in SessionType
    BY <1>1, FrameTypes, SendType
  <2>2. [Send(session[l], CaughtUpFrame) EXCEPT !.server = "done"] \in SessionType
    BY <2>1 DEF SessionType
  <2> QED
    BY <1>6, <2>2, TypeMove DEF ServeCaughtUp
<1> QED
  BY <1>2, <1>3, <1>4, <1>5, <1>6

\* A session that ends in a breach touches no chain.
LEMMA TypeBreach ==
  ASSUME TypeOK, NEW l \in Links, Breach(l)
  PROVE  TypeOK'
<1>1. LinksTyped'
  BY BlameType, TypeParts DEF Breach
<1>2. ChainsTyped'
  BY DEF Breach, chains, TypeOK, ChainsTyped
<1> QED
  BY <1>1, <1>2 DEF TypeOK, ChainsTyped, LinksTyped

\* The pulling side.
LEMMA TypePull ==
  ASSUME TypeOK, NEW l \in Links,
         \/ PullHello(l) \/ PullLocator(l) \/ PullSplit(l) \/ PullNoSplit(l)
         \/ PullBatch(l) \/ PullCaughtUp(l)
  PROVE  TypeOK'
<1>1. session[l] \in SessionType /\ l[1] \in Node
  BY NodeAssumption DEF TypeOK
<1>2. CASE PullHello(l)
  <2>1. CASE Breach(l)
    BY <2>1, TypeBreach
  <2>2. CASE ~Breach(l)
    <3>1. Read(l) \in SessionType
      BY <1>2, ReadType DEF PullHello, Awaits
    <3>2. [Read(l) EXCEPT !.phase = "locator"] \in SessionType
      BY <3>1 DEF SessionType
    <3> QED
      BY <1>2, <2>2, <3>2, SessionTypes, TypeMove DEF PullHello
  <2> QED
    BY <2>1, <2>2
<1>3. CASE PullLocator(l)
  <2>1. Locator(l[1]) \subseteq Digest
    BY <1>1, AncType DEF Locator, Walk, Hops, TypeOK
  <2>2. [session[l] EXCEPT !.phase = "split", !.locator = Locator(l[1])] \in SessionType
    BY <1>1, <2>1 DEF SessionType
  <2> QED
    BY <1>3, <2>2, TypeMove DEF PullLocator
<1>4. CASE PullSplit(l)
  <2>1. CASE Breach(l)
    BY <2>1, TypeBreach
  <2>2. CASE ~Breach(l)
    <3>1. Read(l) \in SessionType /\ Received(l) \in FrameType
      BY <1>4, ReadType DEF PullSplit, Awaits
    <3>2. [Read(l) EXCEPT !.phase = "batch", !.locator = {}, !.cursor = Received(l).at]
            \in SessionType
      BY <3>1 DEF SessionType, FrameType
    <3> QED
      BY <1>4, <2>2, <3>2, TypeMove DEF PullSplit
  <2> QED
    BY <2>1, <2>2
<1>5. CASE PullNoSplit(l) \/ PullCaughtUp(l)
  BY <1>5, SessionTypes, TypeMove DEF PullNoSplit, PullCaughtUp
<1>6. CASE PullBatch(l)
  <2>1. CASE Breach(l)
    BY <2>1, TypeBreach
  <2>2. CASE ~Breach(l)
    <3>1. Read(l) \in SessionType /\ Received(l) \in FrameType
      BY <1>6, ReadType DEF PullBatch, Awaits
    <3>2. Received(l).batch \in SUBSET Digest
      BY <3>1 DEF FrameType, Batch
    <3>3. Insert(l[1], Received(l).batch)
      BY <1>6, <2>2 DEF PullBatch
    <3>4. ChainsTyped'
      BY <1>1, <3>2, <3>3, InsertType
    <3>5. CASE Blame(l, "refused")
      BY <3>4, <3>5, BlameType, TypeParts DEF TypeOK, ChainsTyped, LinksTyped
    <3>6. CASE ~Blame(l, "refused")
      <4>1. PICK t \in Received(l).batch : Move(l, [Read(l) EXCEPT !.cursor = t])
        BY <1>6, <2>2, <3>6 DEF PullBatch
      <4>2. [Read(l) EXCEPT !.cursor = t] \in SessionType
        BY <3>1, <3>2 DEF SessionType
      <4> QED
        BY <3>4, <4>1, <4>2, MoveType DEF TypeOK, ChainsTyped
    <3> QED
      BY <3>5, <3>6
  <2> QED
    BY <2>1, <2>2
<1> QED
  BY <1>2, <1>3, <1>4, <1>5, <1>6

LEMMA TypeInit == Init => TypeOK
<1> SUFFICES ASSUME Init PROVE TypeOK
  OBVIOUS
<1>1. \A n \in Node : /\ Start[n].log \subseteq Digest /\ Start[n].root \in Digest
                      /\ Start[n].head \in Digest
  BY StartAssumption
<1>2. \A n \in Node :
        {Start[n].root} \cup Above(Start[n].root, Start[n].head) \subseteq Digest
  BY <1>1, AncType DEF Above
<1>3. drops \in 0 .. MaxDrops /\ blamed = {}
  BY NodeAssumption DEF Init
<1>4. session \in [Links -> SessionType]
  BY SessionTypes DEF Init
<1> QED
  BY <1>1, <1>2, <1>3, <1>4 DEF Init, TypeOK

LEMMA TypeStep == TypeOK /\ [Next]_vars => TypeOK'
<1> SUFFICES ASSUME TypeOK, [Next]_vars PROVE TypeOK'
  OBVIOUS
<1>1. CASE Next
  BY <1>1, TypeNode, TypeLink, TypeServe, TypePull DEF Next, Link
<1>2. CASE UNCHANGED vars
  BY <1>2 DEF vars, chains, links, TypeOK
<1> QED
  BY <1>1, <1>2

\* Types, and no batch above the segment budget on any stream.
THEOREM TypeCorrect == Spec => []TypeOK
BY TypeInit, TypeStep, PTL DEF Spec

-----------------------------------------------------------------------------
(* Agreement.                                                              *)

\* Sound, for one node.
SoundAt(L, V, r, h) ==
  /\ r \in L
  /\ \A d \in L : r \in Anc[d] /\ Above(r, d) \subseteq L
  /\ V \subseteq L
  /\ IsTip(L, L, r, h)

LEMMA SoundParts ==
  Sound <=> \A n \in Node : SoundAt(log[n], versions[n], root[n], head[n])
BY DEF Sound, SoundAt

\* What a run adds to a log hangs off the root without gaps: the run reached
\* a version at or below everything it added.
LEMMA TakenHangs ==
  ASSUME NEW L \in SUBSET Digest, NEW V \in SUBSET L, NEW r \in Digest,
         \A d \in L : r \in Anc[d] /\ Above(r, d) \subseteq L,
         NEW c \in Digest, NEW t \in Digest,
         NEW d \in Taken(L, V, Above(c, t))
  PROVE  r \in Anc[d] /\ Above(r, d) \subseteq L \cup Taken(L, V, Above(c, t))
<1> DEFINE b == Above(c, t)
<1>1. b \subseteq Digest /\ d \in b
  BY AncType DEF Above, Taken
<1>2. CASE d \in L
  BY <1>2
<1>3. CASE d \notin L
  <2>1. Stands(L, V, b, d)
    BY <1>1, <1>3, AncSelf DEF Taken
  <2>2. PICK e \in b \cap Anc[d] : e \in V \/ Prev[e] \in V
    BY <2>1 DEF Stands
  <2>3. e \in Digest /\ e # Genesis
    BY <1>1, <2>2, AncFromGenesis DEF Above
  <2>4. Anc[e] = {e} \cup Anc[Prev[e]]
    BY <2>3, AncStep
  <2>5. r \in Anc[e]
    BY <2>2, <2>4
  <2>6. ASSUME NEW x \in b \cap Anc[d] PROVE x \in Taken(L, V, b)
    <3>1. Anc[x] \subseteq Anc[d]
      BY <1>1, AncTransitive
    <3> QED
      BY <3>1 DEF Taken
  <2>7. ASSUME NEW x \in Above(r, d) PROVE x \in L \cup Taken(L, V, b)
    <3>1. x \in Anc[d] /\ x \notin Anc[r] /\ x \in Digest
      BY <1>1, AncType DEF Above
    <3>2. CASE x \in Anc[e]
      <4>1. CASE e \in V
        BY <3>1, <3>2, <4>1 DEF Above
      <4>2. CASE Prev[e] \in V
        <5>1. CASE x = e
          BY <2>2, <2>6, <5>1
        <5>2. CASE x \in Anc[Prev[e]]
          BY <3>1, <4>2, <5>2 DEF Above
        <5> QED
          BY <2>4, <3>2, <5>1, <5>2
      <4> QED
        BY <2>2, <4>1, <4>2
    <3>3. CASE e \in Anc[x]
      <4>1. x \in Anc[t]
        BY <1>1, <3>1, AncTransitive DEF Above
      <4>2. x \notin Anc[c]
        BY <2>2, <3>3, AncTransitive DEF Above
      <4> QED
        BY <2>6, <3>1, <4>1, <4>2 DEF Above
    <3> QED
      BY <1>1, <2>2, <3>1, <3>2, <3>3, AncLinear
  <2>8. r \in Anc[d]
    BY <1>1, <2>2, <2>5, AncTransitive
  <2> QED
    BY <2>7, <2>8
<1> QED
  BY <1>2, <1>3

\* Inserting a run leaves a sound node sound.
LEMMA SoundInsert ==
  ASSUME TypeOK, Sound, NEW n \in Node, NEW c \in Digest, NEW t \in Digest,
         Insert(n, Above(c, t))
  PROVE  Sound'
<1> DEFINE b   == Above(c, t)
           got == Taken(log[n], versions[n], b)
           L   == log[n] \cup got
<1>1. PICK h \in L :
        /\ IsTip(L, L, root[n], h)
        /\ log' = [log EXCEPT ![n] = L]
        /\ head' = [head EXCEPT ![n] = h]
        /\ versions' = [versions EXCEPT ![n] =
             @ \cup {d \in got : Stands(log[n], versions[n], b, d)} \cup Above(root[n], h)]
        /\ root' = root
  BY DEF Insert
<1>2. /\ log[n] \in SUBSET Digest /\ versions[n] \in SUBSET log[n]
      /\ root[n] \in Digest /\ root[n] \in log[n]
      /\ \A d \in log[n] : root[n] \in Anc[d] /\ Above(root[n], d) \subseteq log[n]
  BY DEF TypeOK, Sound
<1>3. \A d \in L : root[n] \in Anc[d] /\ Above(root[n], d) \subseteq L
  BY <1>2, TakenHangs
<1>4. SoundAt(L, versions[n] \cup {d \in got : Stands(log[n], versions[n], b, d)}
                   \cup Above(root[n], h), root[n], h)
  BY <1>1, <1>2, <1>3 DEF SoundAt
<1>5. SoundAt(log'[n], versions'[n], root'[n], head'[n])
  BY <1>1, <1>4 DEF TypeOK
<1>6. ASSUME NEW m \in Node, m # n
      PROVE  SoundAt(log'[m], versions'[m], root'[m], head'[m])
  <2>1. /\ log'[m] = log[m] /\ versions'[m] = versions[m]
        /\ root'[m] = root[m] /\ head'[m] = head[m]
    BY <1>1, <1>6 DEF TypeOK
  <2> QED
    BY <2>1, SoundParts
<1> QED
  BY <1>5, <1>6 DEF Sound, SoundAt

\* A sound node's head is in its log.
LEMMA HeadStored ==
  ASSUME NEW L \in SUBSET Digest, NEW V, NEW r \in Digest, NEW h \in Digest,
         SoundAt(L, V, r, h)
  PROVE  h \in L /\ r \in Anc[h]
<1>1. r \in Anc[h] /\ \A x \in Above(r, h) : x \in L
  BY DEF SoundAt, IsTip, OnPath, Winner, Children
<1>2. CASE h = r
  BY <1>1, <1>2 DEF SoundAt
<1>3. CASE h # r
  <2>1. h \in Above(r, h)
    BY <1>1, <1>3, AncSelf, AncAntisymmetric DEF Above
  <2> QED
    BY <1>1, <2>1
<1> QED
  BY <1>2, <1>3

\* The descendants of a cut on the path, taken by themselves, are sound: the
\* branches that lost above the cut are still there to lose to the same head.
LEMMA CutSound ==
  ASSUME NEW L \in SUBSET Digest, NEW V, NEW r \in Digest, NEW h \in Digest,
         SoundAt(L, V, r, h), NEW c \in Above(r, h)
  PROVE  SoundAt({d \in L : c \in Anc[d]}, {c} \cup Above(c, h), c, h)
<1> DEFINE M == {d \in L : c \in Anc[d]}
<1>1. h \in L /\ r \in Anc[h] /\ Above(r, h) \subseteq L
  BY HeadStored DEF SoundAt
<1>2. c \in Digest /\ c \in L /\ c \in Anc[h] /\ c \notin Anc[r]
  BY <1>1 DEF Above
<1>3. r \in Anc[c] /\ Anc[r] \subseteq Anc[c]
  BY <1>2, AncTransitive DEF SoundAt
<1>4. c \in M /\ h \in M
  BY <1>1, <1>2, AncSelf
<1>5. ASSUME NEW d \in M PROVE c \in Anc[d] /\ Above(c, d) \subseteq M
  <2>1. d \in Digest /\ d \in L /\ c \in Anc[d]
    OBVIOUS
  <2>2. ASSUME NEW x \in Above(c, d) PROVE x \in M
    <3>1. x \in Anc[d] /\ x \notin Anc[c]
      BY DEF Above
    <3>2. x \in L
      BY <1>3, <2>1, <3>1 DEF SoundAt, Above
    <3>3. c \in Anc[x]
      BY <2>1, <3>1, AncLinear
    <3> QED
      BY <3>2, <3>3
  <2> QED
    BY <2>1, <2>2
<1>6. {c} \cup Above(c, h) \subseteq M
  BY <1>4, <1>5
<1>7. ASSUME NEW x \in Above(c, h) PROVE Winner(M, M, Prev[x], x)
  <2>1. x \in Above(r, h)
    BY <1>3 DEF Above
  <2>2. Winner(L, L, Prev[x], x)
    BY <2>1 DEF SoundAt, IsTip, OnPath
  <2>3. x \in M /\ M \subseteq L
    BY <1>6
  <2>4. x \in Children(M, Prev[x]) /\ Children(M, Prev[x]) \subseteq Children(L, Prev[x])
    BY <2>2, <2>3 DEF Winner, Children
  <2>5. ASSUME NEW v \in Children(M, Prev[x]) \ {x} PROVE Beats(M, x, v)
    <3>1. v \in M /\ Beats(L, x, v)
      BY <2>2, <2>4 DEF Winner, Children
    <3>2. Rank(M, v) = Rank(L, v) /\ Rank(M, x) = Rank(L, x)
      BY <2>3, <3>1 DEF Rank
    <3> QED
      BY <3>1, <3>2 DEF Beats
  <2> QED
    BY <2>4, <2>5 DEF Winner
<1>8. Children(M, h) = {}
  BY DEF SoundAt, IsTip, Children
<1> QED
  BY <1>2, <1>4, <1>5, <1>6, <1>7, <1>8 DEF SoundAt, IsTip, OnPath

LEMMA SoundCompact ==
  ASSUME TypeOK, Sound, NEW n \in Node, Compact(n)
  PROVE  Sound'
<1>1. PICK c \in Above(root[n], head[n]) :
        /\ log' = [log EXCEPT ![n] = {d \in log[n] : c \in Anc[d]}]
        /\ versions' = [versions EXCEPT ![n] = {c} \cup Above(c, head[n])]
        /\ root' = [root EXCEPT ![n] = c]
        /\ head' = head
  BY DEF Compact
<1>2. SoundAt({d \in log[n] : c \in Anc[d]}, {c} \cup Above(c, head[n]), c, head[n])
  BY SoundParts, CutSound DEF TypeOK
<1>3. SoundAt(log'[n], versions'[n], root'[n], head'[n])
  BY <1>1, <1>2 DEF TypeOK
<1>4. ASSUME NEW m \in Node, m # n
      PROVE  SoundAt(log'[m], versions'[m], root'[m], head'[m])
  <2>1. /\ log'[m] = log[m] /\ versions'[m] = versions[m]
        /\ root'[m] = root[m] /\ head'[m] = head[m]
    BY <1>1, <1>4 DEF TypeOK
  <2> QED
    BY <2>1, SoundParts
<1> QED
  BY <1>3, <1>4 DEF Sound, SoundAt

LEMMA SoundAuthor ==
  ASSUME TypeOK, Sound, NEW n \in Node, Author(n)
  PROVE  Sound'
<1>1. PICK d \in Digest : d # Genesis /\ Prev[d] = head[n] /\ Insert(n, {d})
  BY NodeAssumption DEF Author
<1>2. head[n] \in Digest
  BY DEF TypeOK
<1>3. Anc[d] = {d} \cup Anc[head[n]] /\ d \notin Anc[head[n]]
  BY <1>1, AncStep, AncAcyclic
<1>4. Above(head[n], d) = {d}
  BY <1>3 DEF Above
<1> QED
  BY <1>1, <1>2, <1>4, SoundInsert

LEMMA SoundBatch ==
  ASSUME TypeOK, Sound, NEW l \in Links, PullBatch(l)
  PROVE  Sound'
<1>1. CASE Breach(l)
  BY <1>1 DEF Breach, chains, Sound
<1>2. CASE ~Breach(l)
  <2>1. Received(l) \in FrameType /\ l[1] \in Node
    BY ReadType, NodeAssumption DEF PullBatch, Awaits
  <2>2. PICK t \in Received(l).batch :
          Linked(l, Received(l).batch, t) /\ Insert(l[1], Received(l).batch)
    BY <1>2 DEF PullBatch
  <2>3. t \in Digest
    BY <2>1 DEF FrameType, Batch
  <2>4. session[l].cursor \in Digest /\ Received(l).batch = Above(session[l].cursor, t)
    BY <2>2, <2>3, AncType DEF Linked
  <2> QED
    BY <2>1, <2>2, <2>3, <2>4, SoundInsert
<1> QED
  BY <1>1, <1>2

LEMMA SoundInit == Init => Sound
<1> SUFFICES ASSUME Init, NEW n \in Node
             PROVE  SoundAt(log[n], versions[n], root[n], head[n])
  BY SoundParts
<1> DEFINE L == Start[n].log
           r == Start[n].root
           h == Start[n].head
<1>1. L \in SUBSET Digest /\ r \in Digest /\ h \in Digest
  BY StartAssumption
<1>2. /\ r \in L /\ IsTip(L, L, r, h)
      /\ \A d \in L : r \in Anc[d] /\ Above(r, d) \subseteq L
  BY StartAssumption
<1>3. SoundAt(L, {}, r, h)
  BY <1>2 DEF SoundAt
<1>4. h \in L
  BY <1>1, <1>3, HeadStored
<1>5. SoundAt(L, L, r, h) /\ SoundAt(L, {r} \cup Above(r, h), r, h)
  BY <1>2, <1>4 DEF SoundAt
<1>6. /\ log[n] = L /\ root[n] = r /\ head[n] = h
      /\ versions[n] \in {L, {r} \cup Above(r, h)}
  BY DEF Init
<1> QED
  BY <1>5, <1>6

LEMMA SoundStep == TypeOK /\ Sound /\ [Next]_vars => Sound'
<1> SUFFICES ASSUME TypeOK, Sound, [Next]_vars PROVE Sound'
  OBVIOUS
<1>1. CASE UNCHANGED chains
  BY <1>1 DEF chains, Sound
<1>2. CASE \E n \in Node : Author(n) \/ Compact(n)
  BY <1>2, SoundAuthor, SoundCompact
<1>3. CASE \E l \in Links : PullBatch(l)
  BY <1>3, SoundBatch
<1>4. ASSUME NEW l \in Links, Link(l), ~PullBatch(l) PROVE UNCHANGED chains
  BY <1>4 DEF Link, Connect, Announce, OnAnnounce, Settle, ServeHello, ServeSplit,
              ServeNoSplit, ServeSegment, ServeCaughtUp, PullHello, PullLocator,
              PullSplit, PullNoSplit, PullCaughtUp, Breach
<1>5. ASSUME NEW n \in Node, Notify(n) PROVE UNCHANGED chains
  BY <1>5 DEF Notify
<1>6. ASSUME NEW l \in Links, Drop(l) PROVE UNCHANGED chains
  BY <1>6 DEF Drop
<1>7. CASE UNCHANGED vars
  BY <1>7, <1>1 DEF vars
<1> QED
  BY <1>1, <1>2, <1>3, <1>4, <1>5, <1>6, <1>7 DEF Next

\* Whatever is authored, pulled, lost on the way and compacted, every node's
\* log stays gap-free above its root and its head where the walk ends.
THEOREM AlwaysSound == Spec => []Sound
<1>1. Init => TypeOK /\ Sound
  BY TypeInit, SoundInit
<1>2. (TypeOK /\ Sound) /\ [Next]_vars => (TypeOK /\ Sound)'
  BY TypeStep, SoundStep
<1> QED
  BY <1>1, <1>2, PTL DEF Spec

\* Nothing in a sound node's log is above its head.
LEMMA NothingAboveHead ==
  ASSUME NEW L \in SUBSET Digest, NEW V, NEW r \in Digest, NEW h \in Digest,
         SoundAt(L, V, r, h), NEW d \in L, d # h
  PROVE  h \notin Anc[d]
<1> SUFFICES ASSUME h \in Anc[d] PROVE FALSE
  OBVIOUS
<1>1. PICK x \in Above(h, d) : x # Genesis /\ Prev[x] = h
  BY FirstAbove
<1>2. Anc[r] \subseteq Anc[h]
  BY HeadStored, AncTransitive
<1>3. x \in L
  BY <1>1, <1>2 DEF SoundAt, Above
<1>4. x \in Children(L, h)
  BY <1>1, <1>3 DEF Children
<1> QED
  BY <1>4 DEF SoundAt, IsTip

\* Where the chains of two heads part, a node that stands on one and holds
\* the other has ranked the two children.
LEMMA Ranked ==
  ASSUME NEW L \in SUBSET Digest, NEW V, NEW r \in Digest, NEW h \in Digest,
         SoundAt(L, V, r, h), NEW g \in L,
         NEW x \in Anc[h] \ Anc[g], NEW y \in Anc[g] \ Anc[h],
         x # Genesis, y # Genesis, Prev[x] = Prev[y]
  PROVE  Weight[x] > Weight[y] \/ (Weight[x] = Weight[y] /\ x > y)
<1>1. h \in L /\ r \in Anc[h] /\ r \in Anc[g] /\ g \in Digest
  BY HeadStored DEF SoundAt
<1>2. x \notin Anc[r] /\ y \notin Anc[r]
  BY <1>1, AncTransitive
<1>3. x \in Above(r, h) /\ x \in L /\ y \in L
  BY <1>1, <1>2 DEF SoundAt, Above
<1>4. Winner(L, L, Prev[x], x)
  BY <1>3 DEF SoundAt, IsTip, OnPath
<1>5. y \in Children(L, Prev[x]) \ {x}
  BY <1>3 DEF Children
<1> QED
  BY <1>3, <1>4, <1>5 DEF Winner, Beats, Rank

LEMMA SoundAgree == TypeOK /\ Sound => Agreement
<1> SUFFICES ASSUME TypeOK, Sound, NEW m \in Node, NEW n \in Node,
                    head[m] \in log[n], head[n] \in log[m], head[m] # head[n]
             PROVE  FALSE
  BY DEF Agreement
<1>1. /\ log[m] \in SUBSET Digest /\ root[m] \in Digest /\ head[m] \in Digest
      /\ log[n] \in SUBSET Digest /\ root[n] \in Digest /\ head[n] \in Digest
  BY DEF TypeOK
<1>2. /\ SoundAt(log[m], versions[m], root[m], head[m])
      /\ SoundAt(log[n], versions[n], root[n], head[n])
  BY SoundParts
<1>3. head[m] \notin Anc[head[n]] /\ head[n] \notin Anc[head[m]]
  BY <1>1, <1>2, NothingAboveHead
<1>4. PICK x \in Anc[head[m]] \ Anc[head[n]], y \in Anc[head[n]] \ Anc[head[m]] :
        x # Genesis /\ y # Genesis /\ Prev[x] = Prev[y]
  BY <1>1, <1>3, Parting
<1>5. Weight[x] > Weight[y] \/ (Weight[x] = Weight[y] /\ x > y)
  BY <1>1, <1>2, <1>4, Ranked
<1>6. Weight[y] > Weight[x] \/ (Weight[x] = Weight[y] /\ y > x)
  BY <1>1, <1>2, <1>4, Ranked
<1>7. x \in Nat /\ y \in Nat /\ Weight[x] \in Nat /\ Weight[y] \in Nat
  BY <1>1, <1>4, AncType, DigestAssumption, EnvelopeAssumption
<1> QED
  BY <1>5, <1>6, <1>7

\* Two nodes that hold each other's heads stand at the same one.
THEOREM HoldersAgree == Spec => []Agreement
BY TypeCorrect, AlwaysSound, SoundAgree, PTL
=============================================================================

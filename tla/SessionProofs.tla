--------------------------- MODULE SessionProofs ----------------------------
(***************************************************************************)
(* Theorems about the sessions and links of Sync: no honest peer is        *)
(* blamed, and no wake-up is lost.                                         *)
(***************************************************************************)
EXTENDS SyncProofs, SequenceTheorems

-----------------------------------------------------------------------------
(* The inductive invariant.                                                *)

\* A frame that carries a run from one envelope up to another.
RunOf(f, from, to) ==
  f.kind = "Envelopes" /\ from \in Anc[to] /\ to \in f.batch /\ f.batch = Above(from, to)

\* Frames that carry runs, each from where the last one ended, from one
\* envelope up to another.
Flows(s, from, to) ==
  \E c \in [0 .. Len(s) -> Digest] :
    /\ c[0] = from /\ c[Len(s)] = to
    /\ \A i \in 1 .. Len(s) : RunOf(s[i], c[i - 1], c[i])

\* The same, and CaughtUp behind them.
Closed(s, from, to) ==
  \E u \in Seq(FrameType) : s = Append(u, CaughtUpFrame) /\ Flows(u, from, to)

Carries(s, from, x) ==
  \/ x.server = "segment" /\ Flows(s, from, x.sent)
  \/ x.server = "done" /\ Closed(s, from, x.sent)

\* How the two machines of a session stand to each other, and what is on the
\* stream between them.
Resting(x)  == x.phase \in {"none", "ended"} /\ x.server = "none" /\ x.stream = <<>>
Greeting(x) == /\ x.phase = "hello" /\ x.sent = None
               /\ \/ x.server = "accept" /\ x.stream = <<>>
                  \/ x.server = "find" /\ \E h \in Digest : x.stream = <<HelloFrame(h)>>
Seeking(x)  == /\ x.phase \in {"locator", "split"} /\ x.server = "find"
               /\ x.stream = <<>> /\ x.sent = None
Parted(x)   == /\ x.phase = "split" /\ x.server = "done" /\ x.stream = <<NoSplitFrame>>
               /\ x.sent = None
Splitting(x) ==
  /\ x.phase = "split" /\ x.stream # <<>>
  /\ Head(x.stream).kind = "Split" /\ Head(x.stream).at \in x.locator
  /\ Carries(Tail(x.stream), Head(x.stream).at, x)
Running(x) == x.phase = "batch" /\ Carries(x.stream, x.cursor, x)

Stage(x) ==
  Resting(x) \/ Greeting(x) \/ Seeking(x) \/ Parted(x) \/ Splitting(x) \/ Running(x)

\* A link that is down is at rest, and one without a pull has no session.
LinkOK(l) ==
  /\ ~up[l] => announced[l] = {} /\ pull[l] = "Idle"
  /\ pull[l] = "Idle" => session[l] = NoSession

\* The path has its versions, and a node that never compacted has a version of
\* all it stores.
PathStands ==
  \A n \in Node :
    /\ root[n] \in versions[n] /\ Above(root[n], head[n]) \subseteq versions[n]
    /\ root[n] = Genesis => log[n] \subseteq versions[n]

\* What a pull goes on from has a version to apply to.
PullStands(l) ==
  /\ session[l].phase = "split" =>
       session[l].locator \subseteq versions[l[1]] /\ Genesis \in session[l].locator
  /\ session[l].phase = "batch" => session[l].cursor \in versions[l[1]]

\* The session of l, left to itself, ends with the dialler's head of now.
Delivers(l) ==
  LET x == session[l]
      h == head[l[2]]
  IN \/ x.server = "accept"
     \/ x.server = "find" /\ x.phase = "hello" /\ x.stream = <<HelloFrame(h)>>
     \/ x.server = "find" /\ x.phase \in {"locator", "split"}
     \/ x.server = "segment" /\ x.sent \in Anc[h]
     \/ x.server = "done" /\ x.sent = h

\* A head that the egress has passed on to a connection is held at its other
\* end, or on its way there: as an announce, as a pull that is owed, or by
\* the session.
Told(l) ==
  up[l] /\ ~stale[l] /\ watch[l[2]] = head[l[2]] =>
    \/ head[l[2]] \in log[l[1]] \/ head[l[2]] \in announced[l]
    \/ pull[l] = "RunningAgain" \/ Delivers(l)

SessionInv ==
  /\ TypeOK /\ Sound /\ PathStands /\ NeverBlamed
  /\ \A l \in Links : Stage(session[l]) /\ LinkOK(l)
  /\ Uncut => /\ \A n \in Node : watch[n] \in log[n]
              /\ \A l \in Links : PullStands(l) /\ Told(l)

-----------------------------------------------------------------------------
(* Runs on a stream.                                                       *)

LEMMA FlowsNil ==
  ASSUME NEW d \in Digest
  PROVE  Flows(<<>>, d, d)
<1> DEFINE c == [i \in 0 .. 0 |-> d]
<1>1. Len(<<>>) = 0 /\ c \in [0 .. 0 -> Digest] /\ c[0] = d
  OBVIOUS
<1> HIDE DEF c
<1>2. \A i \in 1 .. 0 : RunOf(<<>>[i], c[i - 1], c[i])
  OBVIOUS
<1> QED
  BY <1>1, <1>2 DEF Flows

LEMMA FlowsMore ==
  ASSUME NEW s \in Seq(FrameType), NEW f \in FrameType, NEW from, NEW to, NEW u \in Digest,
         Flows(s, from, to), RunOf(f, to, u)
  PROVE  Flows(Append(s, f), from, u)
<1> DEFINE n == Len(s)
           t == Append(s, f)
<1>1. PICK c \in [0 .. n -> Digest] :
        /\ c[0] = from /\ c[n] = to
        /\ \A i \in 1 .. n : RunOf(s[i], c[i - 1], c[i])
  BY DEF Flows
<1>2. n \in Nat /\ Len(t) = n + 1 /\ t[n + 1] = f /\ \A i \in 1 .. n : t[i] = s[i]
  BY LenProperties, AppendProperties
<1> HIDE DEF n, t
<1> DEFINE e == [i \in 0 .. n + 1 |-> IF i <= n THEN c[i] ELSE u]
<1>3. /\ e \in [0 .. n + 1 -> Digest] /\ e[n + 1] = u
      /\ \A i \in 0 .. n : e[i] = c[i]
  BY <1>2
<1> HIDE DEF e
<1>4. ASSUME NEW i \in 1 .. n + 1 PROVE RunOf(t[i], e[i - 1], e[i])
  <2>1. CASE i \in 1 .. n
    <3>1. i - 1 \in 0 .. n /\ i \in 0 .. n
      BY <1>2, <2>1
    <3> QED
      BY <1>1, <1>2, <1>3, <2>1, <3>1
  <2>2. CASE i = n + 1
    <3>1. i - 1 = n /\ n \in 0 .. n
      BY <1>2, <2>2
    <3> QED
      BY <1>1, <1>2, <1>3, <2>2, <3>1
  <2> QED
    BY <1>2, <2>1, <2>2
<1>5. e[0] = from
  BY <1>1, <1>2, <1>3
<1>6. Flows(t, from, u)
  BY <1>2, <1>3, <1>4, <1>5 DEF Flows
<1> QED
  BY <1>6 DEF t

LEMMA FlowsNext ==
  ASSUME NEW s \in Seq(FrameType), s # <<>>, NEW from, NEW to, Flows(s, from, to)
  PROVE  \E u \in Digest : RunOf(Head(s), from, u) /\ Flows(Tail(s), u, to)
<1> DEFINE n == Len(s)
           t == Tail(s)
<1>1. PICK c \in [0 .. n -> Digest] :
        /\ c[0] = from /\ c[n] = to
        /\ \A i \in 1 .. n : RunOf(s[i], c[i - 1], c[i])
  BY DEF Flows
<1>2. /\ n \in Nat /\ n # 0 /\ Len(t) = n - 1 /\ Head(s) = s[1]
      /\ \A i \in 1 .. n - 1 : t[i] = s[i + 1]
  BY LenProperties, EmptySeq, HeadTailProperties
<1> HIDE DEF n, t
<1> DEFINE e == [i \in 0 .. n - 1 |-> c[i + 1]]
<1>3. \A i \in 0 .. n - 1 : i + 1 \in 0 .. n
  BY <1>2
<1>4. e \in [0 .. n - 1 -> Digest] /\ \A i \in 0 .. n - 1 : e[i] = c[i + 1]
  BY <1>3
<1> HIDE DEF e
<1>5. ASSUME NEW i \in 1 .. n - 1 PROVE RunOf(t[i], e[i - 1], e[i])
  <2>1. i - 1 \in 0 .. n - 1 /\ i \in 0 .. n - 1 /\ i + 1 \in 1 .. n /\ (i - 1) + 1 = (i + 1) - 1
    BY <1>2
  <2>2. e[i - 1] = c[(i + 1) - 1] /\ e[i] = c[i + 1] /\ t[i] = s[i + 1]
    BY <1>2, <1>4, <2>1
  <2> QED
    BY <1>1, <2>1, <2>2
<1>6. e[0] = c[1] /\ c[1] \in Digest /\ e[n - 1] = to
  <2>1. 0 \in 0 .. n - 1 /\ n - 1 \in 0 .. n - 1 /\ 0 + 1 = 1 /\ (n - 1) + 1 = n /\ 1 \in 0 .. n
    BY <1>2
  <2>2. e[0] = c[0 + 1] /\ e[n - 1] = c[(n - 1) + 1]
    BY <1>4, <2>1
  <2> QED
    BY <1>1, <2>1, <2>2
<1>7. Flows(t, c[1], to)
  BY <1>2, <1>4, <1>5, <1>6 DEF Flows
<1>8. RunOf(s[1], from, c[1])
  <2>1. 1 \in 1 .. n /\ 1 - 1 = 0
    BY <1>2
  <2>2. RunOf(s[1], c[1 - 1], c[1])
    BY <1>1, <2>1
  <2> QED
    BY <1>1, <2>1, <2>2
<1> QED
  BY <1>2, <1>6, <1>7, <1>8 DEF t

\* An empty stream carries nothing.
LEMMA FlowsEmpty ==
  ASSUME NEW from, NEW to, Flows(<<>>, from, to)
  PROVE  from = to
BY DEF Flows

\* What is at the front of a stream: a run from where it starts, or its end.
LEMMA CarriesNext ==
  ASSUME NEW s \in Seq(FrameType), s # <<>>, NEW from, NEW x, Carries(s, from, x)
  PROVE  \/ \E u \in Digest : RunOf(Head(s), from, u) /\ Carries(Tail(s), u, x)
         \/ Head(s).kind = "CaughtUp" /\ x.server = "done" /\ from = x.sent
<1>1. CASE x.server = "segment" /\ Flows(s, from, x.sent)
  BY <1>1, FlowsNext DEF Carries
<1>2. CASE x.server = "done" /\ Closed(s, from, x.sent)
  <2>1. PICK u \in Seq(FrameType) : s = Append(u, CaughtUpFrame) /\ Flows(u, from, x.sent)
    BY <1>2 DEF Closed
  <2>2. CaughtUpFrame \in FrameType /\ CaughtUpFrame.kind = "CaughtUp"
    BY FrameTypes DEF CaughtUpFrame, Frame
  <2>3. CASE u = <<>>
    <3>1. from = x.sent
      BY <2>1, <2>3, FlowsEmpty
    <3>2. Head(s) = CaughtUpFrame
      BY <2>1, <2>2, <2>3
    <3> QED
      BY <1>2, <2>2, <3>1, <3>2
  <2>4. CASE u # <<>>
    <3>1. Head(s) = Head(u) /\ Tail(s) = Append(Tail(u), CaughtUpFrame)
      BY <2>1, <2>2, <2>4
    <3>2. PICK d \in Digest : RunOf(Head(u), from, d) /\ Flows(Tail(u), d, x.sent)
      BY <2>1, <2>4, FlowsNext
    <3>3. Tail(u) \in Seq(FrameType)
      BY <2>4
    <3>4. Closed(Tail(s), d, x.sent)
      BY <3>1, <3>2, <3>3 DEF Closed
    <3> QED
      BY <1>2, <3>1, <3>2, <3>4 DEF Carries
  <2> QED
    BY <2>3, <2>4
<1> QED
  BY <1>1, <1>2 DEF Carries

-----------------------------------------------------------------------------
(* Steps, by what they leave alone.                                        *)

\* A sound log that grew: a head it had before is the head it has.
LEMMA HeadFromBefore ==
  ASSUME NEW L \in SUBSET Digest, NEW V, NEW r \in Digest, NEW h \in Digest,
         NEW M \in SUBSET Digest, NEW W, NEW q \in Digest, NEW g \in Digest,
         SoundAt(L, V, r, h), SoundAt(M, W, q, g), h \in M, g \in L
  PROVE  g = h
<1> SUFFICES ASSUME g # h PROVE FALSE
  OBVIOUS
<1>1. h \notin Anc[g] /\ g \notin Anc[h]
  BY NothingAboveHead
<1>2. PICK x \in Anc[h] \ Anc[g], y \in Anc[g] \ Anc[h] :
        x # Genesis /\ y # Genesis /\ Prev[x] = Prev[y]
  BY <1>1, Parting
<1>3. Weight[x] > Weight[y] \/ (Weight[x] = Weight[y] /\ x > y)
  BY <1>2, Ranked
<1>4. Weight[y] > Weight[x] \/ (Weight[x] = Weight[y] /\ y > x)
  BY <1>2, Ranked
<1>5. x \in Nat /\ y \in Nat /\ Weight[x] \in Nat /\ Weight[y] \in Nat
  BY <1>2, AncType, DigestAssumption, EnvelopeAssumption
<1> QED
  BY <1>3, <1>4, <1>5

\* Chains that only grow.
Grows ==
  /\ root' = root
  /\ \A n \in Node :
       /\ log[n] \subseteq log'[n] /\ versions[n] \subseteq versions'[n]
       /\ head'[n] \in log[n] => head'[n] = head[n]

LEMMA InsertGrows ==
  ASSUME TypeOK, Sound, PathStands, TypeOK', Sound', NEW n \in Node,
         NEW b \in SUBSET Digest, Insert(n, b)
  PROVE  Grows /\ PathStands'
<1> DEFINE got == Taken(log[n], versions[n], b)
           L   == log[n] \cup got
<1>1. PICK t \in L :
        /\ log' = [log EXCEPT ![n] = L]
        /\ head' = [head EXCEPT ![n] = t]
        /\ versions' = [versions EXCEPT ![n] =
             @ \cup {d \in got : Stands(log[n], versions[n], b, d)} \cup Above(root[n], t)]
        /\ root' = root
  BY DEF Insert
<1>7. \A d \in got : d \in log[n] \/ Stands(log[n], versions[n], b, d)
  BY AncSelf DEF Taken
<1> HIDE DEF got, L
<1>2. \A m \in Node : m # n =>
        log'[m] = log[m] /\ versions'[m] = versions[m] /\ head'[m] = head[m]
  BY <1>1 DEF TypeOK
<1>3. /\ log[n] \subseteq log'[n] /\ head'[n] = t
      /\ versions[n] \subseteq versions'[n] /\ Above(root[n], t) \subseteq versions'[n]
  BY <1>1 DEF TypeOK, L
<1>4. ASSUME NEW m \in Node, head'[m] \in log[m] PROVE head'[m] = head[m]
  <2>1. /\ SoundAt(log[m], versions[m], root[m], head[m])
        /\ SoundAt(log'[m], versions'[m], root'[m], head'[m])
    BY DEF Sound, SoundAt
  <2>2. head[m] \in log[m] /\ log[m] \subseteq log'[m]
    BY <1>2, <1>3, <2>1, HeadStored DEF TypeOK
  <2>3. /\ log[m] \in SUBSET Digest /\ log'[m] \in SUBSET Digest
        /\ root[m] \in Digest /\ root'[m] \in Digest
        /\ head[m] \in Digest /\ head'[m] \in Digest
    BY DEF TypeOK
  <2> QED
    BY <1>4, <2>1, <2>2, <2>3, HeadFromBefore
<1>5. ASSUME NEW m \in Node
      PROVE  /\ root'[m] \in versions'[m] /\ Above(root'[m], head'[m]) \subseteq versions'[m]
             /\ root'[m] = Genesis => log'[m] \subseteq versions'[m]
  <2>1. CASE m = n
    <3>1. log'[n] = log[n] \cup got
      BY <1>1 DEF TypeOK, L
    <3>2. {d \in got : Stands(log[n], versions[n], b, d)} \subseteq versions'[n]
      BY <1>1 DEF TypeOK
    <3>3. root[n] = Genesis => log'[n] \subseteq versions'[n]
      BY <1>3, <1>7, <3>1, <3>2 DEF PathStands
    <3> QED
      BY <1>1, <1>3, <2>1, <3>3 DEF PathStands
  <2>2. CASE m # n
    BY <1>1, <1>2, <2>2 DEF PathStands
  <2> QED
    BY <2>1, <2>2
<1>6. \A m \in Node : log[m] \subseteq log'[m] /\ versions[m] \subseteq versions'[m]
  BY <1>2, <1>3
<1> QED
  BY <1>1, <1>4, <1>5, <1>6 DEF Grows, PathStands

LEMMA SameGrows ==
  ASSUME UNCHANGED chains
  PROVE  Grows
BY DEF Grows, chains

\* What a link was told stays so while chains grow and the link stands.
LEMMA ToldKept ==
  ASSUME Grows, NEW k \in Links, k[1] \in Node, k[2] \in Node, UNCHANGED watch,
         watch[k[2]] \in log[k[2]], Told(k),
         up'[k] => up[k], stale'[k] = stale[k], announced[k] \subseteq announced'[k],
         pull[k] = "RunningAgain" => pull'[k] = "RunningAgain",
         Delivers(k) /\ head'[k[2]] = head[k[2]] =>
           Delivers(k)' \/ head'[k[2]] \in log'[k[1]]
  PROVE  Told(k)'
<1> SUFFICES ASSUME up'[k], ~stale'[k], watch'[k[2]] = head'[k[2]]
             PROVE  \/ head'[k[2]] \in log'[k[1]] \/ head'[k[2]] \in announced'[k]
                    \/ pull'[k] = "RunningAgain" \/ Delivers(k)'
  BY DEF Told
<1>1. head'[k[2]] = head[k[2]]
  BY DEF Grows
<1>2. up[k] /\ ~stale[k] /\ watch[k[2]] = head[k[2]]
  BY <1>1
<1>3. \/ head[k[2]] \in log[k[1]] \/ head[k[2]] \in announced[k]
      \/ pull[k] = "RunningAgain" \/ Delivers(k)
  BY <1>2 DEF Told
<1> QED
  BY <1>1, <1>3 DEF Grows

\* A link nothing happens on while chains grow.
LEMMA LinkKept ==
  ASSUME SessionInv, Grows, NEW k \in Links, UNCHANGED watch,
         up'[k] = up[k], stale'[k] = stale[k], announced'[k] = announced[k],
         pull'[k] = pull[k], session'[k] = session[k]
  PROVE  /\ Stage(session[k])' /\ LinkOK(k)'
         /\ Uncut => PullStands(k)' /\ Told(k)'
<1>1. k[1] \in Node /\ k[2] \in Node
  BY NodeAssumption
<1>2. Stage(session[k])' /\ LinkOK(k)'
  BY DEF SessionInv, LinkOK
<1>3. ASSUME Uncut PROVE PullStands(k)'
  BY <1>1, <1>3 DEF SessionInv, PullStands, Grows
<1>4. ASSUME Uncut PROVE Told(k)'
  <2>1. Delivers(k) /\ head'[k[2]] = head[k[2]] => Delivers(k)'
    BY DEF Delivers
  <2> QED
    BY <1>1, <1>4, <2>1, ToldKept DEF SessionInv
<1> QED
  BY <1>2, <1>3, <1>4

\* A step of one link while chains grow.
LEMMA LinkStep ==
  ASSUME SessionInv, TypeOK', Sound', PathStands', Grows, NeverBlamed', NEW l \in Links,
         UNCHANGED watch,
         \A k \in Links : k # l =>
           /\ up'[k] = up[k] /\ stale'[k] = stale[k] /\ announced'[k] = announced[k]
           /\ pull'[k] = pull[k] /\ session'[k] = session[k],
         Stage(session[l])', LinkOK(l)', Uncut => PullStands(l)' /\ Told(l)'
  PROVE  SessionInv'
<1>1. Uncut' => Uncut
  BY DEF Uncut, Grows
<1>2. ASSUME NEW k \in Links
      PROVE  /\ Stage(session[k])' /\ LinkOK(k)'
             /\ Uncut => PullStands(k)' /\ Told(k)'
  BY LinkKept
<1>3. Uncut => \A n \in Node : watch'[n] \in log'[n]
  BY DEF SessionInv, Grows
<1> QED
  BY <1>1, <1>2, <1>3 DEF SessionInv

\* The same when no chain moves.
LEMMA StillStep ==
  ASSUME SessionInv, TypeOK', NeverBlamed', NEW l \in Links, UNCHANGED <<chains, watch>>,
         \A k \in Links : k # l =>
           /\ up'[k] = up[k] /\ stale'[k] = stale[k] /\ announced'[k] = announced[k]
           /\ pull'[k] = pull[k] /\ session'[k] = session[k],
         Stage(session[l])', LinkOK(l)', Uncut => PullStands(l)' /\ Told(l)'
  PROVE  SessionInv'
<1>1. Sound' /\ PathStands'
  BY DEF SessionInv, Sound, PathStands, chains
<1> QED
  BY <1>1, SameGrows, LinkStep

\* Every node holds its own head.
LEMMA HoldsHead ==
  ASSUME TypeOK, Sound, NEW n \in Node
  PROVE  head[n] \in log[n] /\ root[n] \in Anc[head[n]]
<1>1. SoundAt(log[n], versions[n], root[n], head[n])
  BY DEF Sound, SoundAt
<1> QED
  BY <1>1, HeadStored DEF TypeOK

\* Nobody is blamed by a step that blames nobody.
LEMMA BlamelessKept ==
  ASSUME NeverBlamed, UNCHANGED blamed, Uncut' => Uncut
  PROVE  NeverBlamed'
BY DEF NeverBlamed

LEMMA AuthorInv ==
  ASSUME SessionInv, TypeOK', Sound', NEW n \in Node, Author(n)
  PROVE  SessionInv'
<1>1. PICK d \in Digest : Insert(n, {d})
  BY NodeAssumption DEF Author
<1>2. Grows /\ PathStands'
  BY <1>1, InsertGrows DEF SessionInv
<1>3. UNCHANGED <<watch, up, stale, announced, pull, session, drops, blamed>>
  BY DEF Author, links
<1>4. Uncut' => Uncut
  BY <1>2 DEF Uncut, Grows
<1>5. NeverBlamed'
  BY <1>3, <1>4, BlamelessKept DEF SessionInv
<1>6. ASSUME NEW k \in Links
      PROVE  /\ Stage(session[k])' /\ LinkOK(k)'
             /\ Uncut => PullStands(k)' /\ Told(k)'
  BY <1>2, <1>3, LinkKept
<1>7. Uncut => \A m \in Node : watch'[m] \in log'[m]
  BY <1>2, <1>3 DEF SessionInv, Grows
<1> QED
  BY <1>2, <1>4, <1>5, <1>6, <1>7 DEF SessionInv

\* A compaction ends what holds only before the first one.
LEMMA CompactInv ==
  ASSUME SessionInv, TypeOK', Sound', NEW n \in Node, Compact(n)
  PROVE  SessionInv'
<1>1. PICK c \in Above(root[n], head[n]) :
        /\ versions' = [versions EXCEPT ![n] = {c} \cup Above(c, head[n])]
        /\ root' = [root EXCEPT ![n] = c]
        /\ head' = head
        /\ \A m \in Node : m # n => log'[m] = log[m]
  BY DEF Compact, SessionInv, TypeOK
<1>2. UNCHANGED <<watch, up, stale, announced, pull, session, drops, blamed>>
  BY DEF Compact, links
<1>7. c # Genesis
  <2>1. Genesis \in Anc[root[n]]
    BY AncFromGenesis DEF SessionInv, TypeOK
  <2> QED
    BY <1>1, <2>1 DEF SessionInv, TypeOK, Above
<1>3. ~Uncut'
  BY <1>1, <1>7 DEF SessionInv, TypeOK, Uncut
<1>4. PathStands'
  <2> SUFFICES ASSUME NEW m \in Node
               PROVE  /\ root'[m] \in versions'[m] /\ Above(root'[m], head'[m]) \subseteq versions'[m]
                      /\ root'[m] = Genesis => log'[m] \subseteq versions'[m]
    BY DEF PathStands
  <2>1. CASE m = n
    BY <1>1, <1>7, <2>1 DEF SessionInv, TypeOK
  <2>2. CASE m # n
    BY <1>1, <2>2 DEF SessionInv, TypeOK, PathStands
  <2> QED
    BY <2>1, <2>2
<1>5. NeverBlamed'
  BY <1>2, <1>3 DEF SessionInv, NeverBlamed
<1>6. \A k \in Links : Stage(session[k])' /\ LinkOK(k)'
  BY <1>2 DEF SessionInv, LinkOK
<1> QED
  BY <1>3, <1>4, <1>5, <1>6 DEF SessionInv

\* What the egress passes on is news to all its links.
LEMMA NotifyInv ==
  ASSUME SessionInv, TypeOK', Sound', NEW n \in Node, Notify(n)
  PROVE  SessionInv'
<1>1. /\ UNCHANGED <<log, versions, root, head, up, announced, pull, session, blamed>>
      /\ watch' = [watch EXCEPT ![n] = head[n]]
      /\ stale' = [l \in Links |-> stale[l] \/ l[2] = n]
  BY DEF Notify, chains
<1>2. (Uncut' => Uncut) /\ PathStands'
  BY <1>1 DEF Uncut, PathStands, SessionInv
<1>3. NeverBlamed'
  BY <1>1, <1>2, BlamelessKept DEF SessionInv
<1>4. Uncut => \A m \in Node : watch'[m] \in log'[m]
  <2>1. head[n] \in log[n]
    BY HoldsHead DEF SessionInv
  <2> QED
    BY <1>1, <2>1 DEF SessionInv, TypeOK
<1>5. ASSUME NEW k \in Links
      PROVE  /\ Stage(session[k])' /\ LinkOK(k)'
             /\ Uncut => PullStands(k)' /\ Told(k)'
  <2>1. Stage(session[k])' /\ LinkOK(k)' /\ (Uncut => PullStands(k)')
    BY <1>1 DEF SessionInv, LinkOK, PullStands
  <2>2. ASSUME Uncut PROVE Told(k)'
    <3>1. CASE k[2] = n
      BY <1>1, <3>1 DEF Told
    <3>2. CASE k[2] # n
      <4>1. watch'[k[2]] = watch[k[2]] /\ stale'[k] = stale[k]
        BY <1>1, <3>2, NodeAssumption DEF SessionInv, TypeOK
      <4>2. Delivers(k) => Delivers(k)'
        BY <1>1 DEF Delivers
      <4> QED
        BY <1>1, <2>2, <4>1, <4>2 DEF SessionInv, Told
    <3> QED
      BY <3>1, <3>2
  <2> QED
    BY <2>1, <2>2
<1> QED
  BY <1>2, <1>3, <1>4, <1>5 DEF SessionInv

-----------------------------------------------------------------------------
(* Dialling, announcing, losing a connection, and when to pull.            *)

LEMMA RestingSessions ==
  /\ Stage(NoSession) /\ NoSession.phase = "none" /\ NoSession.server = "none"
  /\ Stage(Ended) /\ Ended.phase = "ended" /\ Ended.server = "none"
  /\ Stage(Opened) /\ Opened.phase = "hello" /\ Opened.server = "accept"
BY DEF NoSession, Ended, Opened, Stage, Resting, Greeting

LEMMA ConnectInv ==
  ASSUME SessionInv, TypeOK', NEW l \in Links, Connect(l) \/ Announce(l)
  PROVE  SessionInv'
<1>1. /\ UNCHANGED <<chains, watch, pull, session, blamed>>
      /\ announced'[l] = {watch[l[2]]} \/ announced'[l] = announced[l] \cup {watch[l[2]]}
      /\ stale' = [stale EXCEPT ![l] = FALSE] /\ up'[l]
      /\ \A k \in Links : k # l => up'[k] = up[k] /\ announced'[k] = announced[k]
  BY DEF Connect, Announce, SessionInv, TypeOK
<1>2. Stage(session[l])' /\ LinkOK(l)' /\ (Uncut => PullStands(l)')
  BY <1>1 DEF SessionInv, LinkOK, PullStands, chains
<1>3. Told(l)'
  BY <1>1 DEF Told
<1>4. NeverBlamed'
  BY <1>1 DEF SessionInv, NeverBlamed, Uncut, chains
<1> QED
  BY <1>1, <1>2, <1>3, <1>4, StillStep DEF SessionInv, TypeOK

\* A link that goes down.
LEMMA DownRests ==
  ASSUME SessionInv, NEW l \in Links, Down(l)
  PROVE  /\ Stage(session[l])' /\ LinkOK(l)' /\ PullStands(l)' /\ Told(l)'
         /\ \A k \in Links : k # l =>
              /\ up'[k] = up[k] /\ stale'[k] = stale[k] /\ announced'[k] = announced[k]
              /\ pull'[k] = pull[k] /\ session'[k] = session[k]
<1>1. /\ up'[l] = FALSE /\ announced'[l] = {} /\ pull'[l] = "Idle" /\ session'[l] = NoSession
      /\ \A k \in Links : k # l =>
           /\ up'[k] = up[k] /\ stale'[k] = stale[k] /\ announced'[k] = announced[k]
           /\ pull'[k] = pull[k] /\ session'[k] = session[k]
  BY DEF Down, SessionInv, TypeOK
<1> QED
  BY <1>1, RestingSessions DEF LinkOK, PullStands, Told

LEMMA DropInv ==
  ASSUME SessionInv, TypeOK', NEW l \in Links, Drop(l)
  PROVE  SessionInv'
<1>1. Down(l) /\ UNCHANGED <<chains, watch, blamed>>
  BY DEF Drop
<1>2. NeverBlamed'
  BY <1>1 DEF SessionInv, NeverBlamed, Uncut, chains
<1> QED
  BY <1>1, <1>2, DownRests, StillStep

\* A session that opens will answer for the head of then.
LEMMA OpensTold ==
  ASSUME NEW l \in Links, session'[l] = Opened
  PROVE  Stage(session[l])' /\ PullStands(l)' /\ Told(l)'
BY RestingSessions DEF PullStands, Told, Delivers

LEMMA OnAnnounceInv ==
  ASSUME SessionInv, TypeOK', NEW l \in Links, OnAnnounce(l)
  PROVE  SessionInv'
<1>1. PICK h \in announced[l] :
        /\ announced' = [announced EXCEPT ![l] = @ \ {h}]
        /\ IF h = head[l[1]] THEN UNCHANGED <<pull, session>> ELSE WantPull(l)
        /\ UNCHANGED <<chains, watch, up, stale, blamed>>
  BY DEF OnAnnounce
<1>2. /\ announced'[l] = announced[l] \ {h}
      /\ \A k \in Links : k # l =>
           announced'[k] = announced[k] /\ pull'[k] = pull[k] /\ session'[k] = session[k]
  BY <1>1 DEF WantPull, SessionInv, TypeOK
<1>3. NeverBlamed'
  BY <1>1 DEF SessionInv, NeverBlamed, Uncut, chains
<1>4. up'[l]
  BY <1>1 DEF SessionInv, LinkOK
<1>5. CASE h # head[l[1]] /\ pull[l] = "Idle"
  <2>1. pull'[l] = "Running" /\ session'[l] = Opened
    BY <1>1, <1>5 DEF WantPull, SessionInv, TypeOK
  <2> QED
    BY <1>1, <1>2, <1>3, <1>4, <2>1, OpensTold, StillStep DEF LinkOK
<1>6. CASE h # head[l[1]] /\ pull[l] # "Idle"
  <2>1. pull'[l] = "RunningAgain" /\ session'[l] = session[l]
    BY <1>1, <1>6 DEF WantPull, SessionInv, TypeOK
  <2>2. Stage(session[l])' /\ LinkOK(l)' /\ (Uncut => PullStands(l)') /\ Told(l)'
    BY <1>1, <1>4, <2>1 DEF SessionInv, LinkOK, PullStands, Told, chains
  <2> QED
    BY <1>1, <1>2, <1>3, <2>2, StillStep
<1>7. CASE h = head[l[1]]
  <2>1. UNCHANGED <<log, versions, root, head>> /\ UNCHANGED <<pull, session>>
    BY <1>1, <1>7 DEF chains
  <2>2. head[l[1]] \in log[l[1]]
    BY NodeAssumption, HoldsHead DEF SessionInv
  <2>3. Stage(session[l])' /\ LinkOK(l)' /\ (Uncut => PullStands(l)')
    BY <1>1, <1>4, <2>1 DEF SessionInv, LinkOK, PullStands
  <2>4. Delivers(l) => Delivers(l)'
    BY <2>1 DEF Delivers
  <2>5. Uncut => Told(l)'
    BY <1>1, <1>2, <1>7, <2>1, <2>2, <2>4 DEF SessionInv, Told
  <2> QED
    BY <1>1, <1>2, <1>3, <2>3, <2>5, StillStep
<1> QED
  BY <1>5, <1>6, <1>7

LEMMA SettleInv ==
  ASSUME SessionInv, TypeOK', NEW l \in Links, Settle(l)
  PROVE  SessionInv'
<1>1. /\ UNCHANGED <<log, versions, root, head, watch, up, stale, announced, blamed>>
      /\ session[l].phase = "ended"
      /\ \A k \in Links : k # l => pull'[k] = pull[k] /\ session'[k] = session[k]
  BY DEF Settle, chains, SessionInv, TypeOK
<1>2. NeverBlamed'
  BY <1>1 DEF SessionInv, NeverBlamed, Uncut
<1>3. up[l] /\ pull[l] # "Idle" /\ session[l].server = "none"
  <2>1. session[l] # NoSession
    BY <1>1, RestingSessions
  <2>2. up[l] /\ pull[l] # "Idle"
    BY <2>1 DEF SessionInv, LinkOK
  <2>3. session[l].server = "none"
    BY <1>1 DEF SessionInv, Stage, Resting, Greeting, Seeking, Parted, Splitting, Running
  <2> QED
    BY <2>2, <2>3
<1>4. CASE pull[l] = "RunningAgain"
  <2>1. pull'[l] = "Running" /\ session'[l] = Opened
    BY <1>4 DEF Settle, SessionInv, TypeOK
  <2> QED
    BY <1>1, <1>2, <1>3, <2>1, OpensTold, StillStep DEF LinkOK, chains
<1>5. CASE pull[l] # "RunningAgain"
  <2>1. pull'[l] = "Idle" /\ session'[l] = NoSession
    BY <1>5 DEF Settle, SessionInv, TypeOK
  <2>2. ~Delivers(l)
    BY <1>3 DEF Delivers
  <2>3. Uncut => Told(l)'
    BY <1>1, <1>5, <2>2 DEF SessionInv, Told
  <2>4. Stage(session[l])' /\ LinkOK(l)' /\ PullStands(l)'
    BY <1>1, <1>3, <2>1, RestingSessions DEF LinkOK, PullStands
  <2> QED
    BY <1>1, <1>2, <2>3, <2>4, StillStep DEF chains
<1> QED
  BY <1>4, <1>5

-----------------------------------------------------------------------------
(* The session.                                                            *)

\* Before the first compaction a node walks all the way down, over versions.
LEMMA UncutWalk ==
  ASSUME SessionInv, Uncut, NEW n \in Node
  PROVE  /\ Walk(n) = Anc[head[n]] /\ Anc[head[n]] \subseteq versions[n]
         /\ Genesis \in Walk(n) /\ head[n] \in Digest
<1>1. /\ head[n] \in Digest /\ head[n] \in log[n] /\ root[n] = Genesis
      /\ Genesis \in versions[n] /\ Above(Genesis, head[n]) \subseteq versions[n]
      /\ Above(Genesis, head[n]) \subseteq log[n] /\ Genesis \in Digest
  BY HoldsHead, DigestAssumption DEF SessionInv, Uncut, PathStands, Sound, TypeOK
<1>2. Genesis \in Anc[head[n]] /\ Anc[Genesis] = {Genesis}
  BY <1>1, AncFromGenesis, AncGenesis
<1>3. Anc[head[n]] \subseteq versions[n]
  BY <1>1, <1>2 DEF Above
<1>4. ASSUME NEW a \in Anc[head[n]] PROVE Above(a, head[n]) \subseteq log[n]
  <2>1. a \in Digest
    BY <1>1, AncType
  <2>2. Genesis \in Anc[a]
    BY <2>1, AncFromGenesis
  <2> QED
    BY <1>1, <1>2, <2>2 DEF Above
<1>5. Walk(n) = Anc[head[n]]
  BY <1>4 DEF Walk, Hops
<1> QED
  BY <1>1, <1>2, <1>3, <1>5

\* A session moves on while the chains stand.
LEMMA MoveStep ==
  ASSUME SessionInv, TypeOK', NEW l \in Links, NEW y, Move(l, y), UNCHANGED chains,
         session[l].phase # "none", Stage(y),
         Uncut /\ y.phase = "split" =>
           y.locator \subseteq versions[l[1]] /\ Genesis \in y.locator,
         Uncut /\ y.phase = "batch" => y.cursor \in versions[l[1]],
         Uncut /\ Delivers(l) => Delivers(l)' \/ head[l[2]] \in log[l[1]]
  PROVE  SessionInv'
<1>1. /\ session'[l] = y /\ \A k \in Links : k # l => session'[k] = session[k]
      /\ UNCHANGED <<watch, up, stale, announced, pull, drops, blamed>>
      /\ UNCHANGED <<log, versions, root, head>>
  BY DEF Move, SessionInv, TypeOK, chains
<1>2. pull[l] # "Idle" /\ up[l]
  BY RestingSessions DEF SessionInv, LinkOK
<1>3. NeverBlamed'
  BY <1>1 DEF SessionInv, NeverBlamed, Uncut
<1>4. Stage(session[l])' /\ LinkOK(l)' /\ (Uncut => PullStands(l)')
  BY <1>1, <1>2 DEF LinkOK, PullStands
<1>5. Uncut => Told(l)'
  BY <1>1 DEF SessionInv, Told
<1> QED
  BY <1>1, <1>3, <1>4, <1>5, StillStep

LEMMA ServeHelloInv ==
  ASSUME SessionInv, TypeOK', NEW l \in Links, ServeHello(l)
  PROVE  SessionInv'
<1> DEFINE x == session[l]
           f == HelloFrame(head[l[2]])
           y == [Send(x, f) EXCEPT !.server = "find"]
<1>1. x \in SessionType /\ head[l[2]] \in Digest /\ f \in FrameType
  BY NodeAssumption, FrameTypes DEF SessionInv, TypeOK
<1>2. Greeting(x) /\ x.stream = <<>>
  BY DEF ServeHello, SessionInv, Stage, Resting, Greeting, Seeking, Parted, Splitting, Running,
         Carries
<1>3. Append(<<>>, f) = <<f>>
  BY <1>1
<1>4. y.phase = "hello" /\ y.server = "find" /\ y.sent = None /\ y.stream = <<f>>
  BY <1>1, <1>2, <1>3 DEF Send, SessionType, Greeting
<1>5. Move(l, y) /\ UNCHANGED chains
  BY DEF ServeHello
<1> HIDE DEF y
<1>6. Greeting(y)
  BY <1>1, <1>4 DEF Greeting
<1>7. session'[l] = y /\ head' = head
  BY <1>5 DEF Move, SessionInv, TypeOK, chains
<1>8. Delivers(l)'
  BY <1>4, <1>7 DEF Delivers
<1> QED
  BY <1>2, <1>4, <1>5, <1>6, <1>8, MoveStep DEF Stage, Greeting

LEMMA ServeSplitInv ==
  ASSUME SessionInv, TypeOK', NEW l \in Links, ServeSplit(l)
  PROVE  SessionInv'
<1> DEFINE x == session[l]
<1>1. PICK d \in x.locator :
        /\ IsSplit(l[2], x.locator, d)
        /\ Move(l, [Send(x, SplitFrame(d)) EXCEPT !.server = "segment", !.sent = d])
        /\ UNCHANGED chains
  BY DEF ServeSplit
<1> DEFINE f == SplitFrame(d)
           y == [Send(x, f) EXCEPT !.server = "segment", !.sent = d]
<1>2. x \in SessionType /\ d \in Digest /\ f \in FrameType
  BY FrameTypes DEF SessionInv, TypeOK, SessionType
<1>3. x.phase = "split" /\ x.stream = <<>>
  BY DEF ServeSplit, SessionInv, Stage, Resting, Greeting, Seeking, Parted, Splitting, Running,
         Carries
<1>4. f.kind = "Split" /\ f.at = d
  BY DEF SplitFrame, Frame
<1> HIDE DEF f
<1>5. Append(<<>>, f) = <<f>> /\ Head(<<f>>) = f /\ Tail(<<f>>) = <<>> /\ <<f>> # <<>>
  BY <1>2
<1>6. /\ y.phase = "split" /\ y.server = "segment" /\ y.sent = d /\ y.stream = <<f>>
      /\ y.locator = x.locator
  BY <1>2, <1>3, <1>5 DEF Send, SessionType
<1>7. Move(l, y) /\ UNCHANGED chains
  BY <1>1 DEF f
<1> HIDE DEF y
<1>8. Flows(<<>>, d, d)
  BY <1>2, FlowsNil
<1>9. Splitting(y)
  BY <1>4, <1>5, <1>6, <1>8 DEF Splitting, Carries
<1>10. session'[l] = y /\ head' = head
  BY <1>7 DEF Move, SessionInv, TypeOK, chains
<1>11. Delivers(l)'
  <2>1. d \in Anc[head[l[2]]]
    BY <1>1 DEF IsSplit, Walk, Hops
  <2> QED
    BY <1>6, <1>10, <2>1 DEF Delivers
<1> QED
  BY <1>3, <1>6, <1>7, <1>9, <1>11, MoveStep DEF Stage, SessionInv, PullStands

LEMMA ServeNoSplitInv ==
  ASSUME SessionInv, TypeOK', NEW l \in Links, ServeNoSplit(l)
  PROVE  SessionInv'
<1> DEFINE x == session[l]
           f == NoSplitFrame
           y == [Send(x, f) EXCEPT !.server = "done"]
<1>1. x \in SessionType /\ f \in FrameType
  BY FrameTypes DEF SessionInv, TypeOK
<1>2. x.phase = "split" /\ x.stream = <<>> /\ x.sent = None
  BY DEF ServeNoSplit, SessionInv, Stage, Resting, Greeting, Seeking, Parted, Splitting,
         Running, Carries
<1>3. Append(<<>>, f) = <<f>>
  BY <1>1
<1>4. y.phase = "split" /\ y.server = "done" /\ y.sent = None /\ y.stream = <<f>>
  BY <1>1, <1>2, <1>3 DEF Send, SessionType
<1>5. Move(l, y) /\ UNCHANGED chains
  BY DEF ServeNoSplit
<1> HIDE DEF y
<1>6. Parted(y)
  BY <1>4 DEF Parted
<1>7. ~Uncut
  <2> SUFFICES ASSUME Uncut PROVE FALSE
    OBVIOUS
  <2>1. Genesis \in Walk(l[2])
    BY NodeAssumption, UncutWalk
  <2>2. Genesis \in x.locator
    BY <1>2 DEF SessionInv, PullStands
  <2> QED
    BY <2>1, <2>2 DEF ServeNoSplit
<1> QED
  BY <1>2, <1>4, <1>5, <1>6, <1>7, MoveStep DEF Stage

\* The server appends a frame that its stream can carry.
LEMMA StreamGrows ==
  ASSUME NEW x \in SessionType, NEW y, NEW f \in FrameType, Splitting(x) \/ Running(x),
         y.phase = x.phase, y.locator = x.locator, y.cursor = x.cursor,
         y.stream = Append(x.stream, f),
         \A s \in Seq(FrameType) : \A from : Carries(s, from, x) => Carries(Append(s, f), from, y)
  PROVE  Splitting(y) \/ Running(y)
<1>1. x.stream \in Seq(FrameType)
  BY DEF SessionType
<1>2. CASE Running(x)
  BY <1>1, <1>2 DEF Running
<1>3. CASE Splitting(x)
  <2>1. x.stream # <<>>
    BY <1>3 DEF Splitting
  <2>2. /\ Tail(x.stream) \in Seq(FrameType)
        /\ Head(y.stream) = Head(x.stream) /\ Tail(y.stream) = Append(Tail(x.stream), f)
        /\ y.stream # <<>>
    BY <1>1, <2>1
  <2>3. Carries(Tail(y.stream), Head(y.stream).at, y)
    BY <1>3, <2>2 DEF Splitting
  <2> QED
    BY <1>3, <2>2, <2>3 DEF Splitting
<1> QED
  BY <1>2, <1>3

LEMMA ServeSegmentInv ==
  ASSUME SessionInv, TypeOK', NEW l \in Links, ServeSegment(l)
  PROVE  SessionInv'
<1> DEFINE x == session[l]
           h == head[l[2]]
           b(t) == Above(x.sent, t)
<1>1. PICK t \in Newer(l[2], x.sent) :
        /\ Cardinality(b(t)) <= MaxBatch
        /\ Move(l, [Send(x, RunFrame(b(t))) EXCEPT !.sent = t])
        /\ UNCHANGED chains
  BY DEF ServeSegment
<1> DEFINE f == RunFrame(b(t))
           y == [Send(x, f) EXCEPT !.sent = t]
<1>2. x \in SessionType /\ h \in Digest
  BY NodeAssumption DEF SessionInv, TypeOK
<1>3. x.server = "segment" /\ (Splitting(x) \/ Running(x))
  BY DEF ServeSegment, SessionInv, Stage, Resting, Greeting, Seeking, Parted
<1>4. x.sent \in Anc[h] /\ t \in Anc[h] /\ t \notin Anc[x.sent]
  BY <1>1 DEF Newer, Above, Walk, Hops
<1>5. t \in Digest /\ x.sent \in Digest
  BY <1>2, <1>4, AncType
<1>6. x.sent \in Anc[t]
  BY <1>2, <1>4, AncLinear
<1>7. t \in b(t) /\ b(t) \in Batch
  BY <1>1, <1>4, <1>5, AncSelf, AncType DEF Above, Batch
<1>8. f \in FrameType /\ f.kind = "Envelopes" /\ f.batch = b(t)
  BY <1>7, FrameTypes DEF RunFrame, Frame
<1>9. RunOf(f, x.sent, t)
  BY <1>6, <1>7, <1>8 DEF RunOf
<1> HIDE DEF f
<1>10. /\ y.phase = x.phase /\ y.locator = x.locator /\ y.cursor = x.cursor
       /\ y.stream = Append(x.stream, f) /\ y.sent = t /\ y.server = x.server
  BY <1>2 DEF Send, SessionType
<1>11. Move(l, y) /\ UNCHANGED chains
  BY <1>1 DEF f
<1> HIDE DEF y, b
<1>12. ASSUME NEW s \in Seq(FrameType), NEW from, Carries(s, from, x)
       PROVE  Carries(Append(s, f), from, y)
  <2>1. Flows(s, from, x.sent)
    BY <1>3, <1>12 DEF Carries
  <2>2. Flows(Append(s, f), from, t)
    BY <1>5, <1>8, <1>9, <2>1, FlowsMore
  <2> QED
    BY <1>3, <1>10, <2>2 DEF Carries
<1>13. Splitting(y) \/ Running(y)
  BY <1>2, <1>3, <1>8, <1>10, <1>12, StreamGrows
<1>14. session'[l] = y /\ head' = head
  BY <1>11 DEF Move, SessionInv, TypeOK, chains
<1>15. Delivers(l)'
  BY <1>3, <1>4, <1>10, <1>14 DEF Delivers
<1>16. x.phase \in {"split", "batch"}
  BY <1>3 DEF Splitting, Running
<1>17. /\ Uncut /\ y.phase = "split" =>
            y.locator \subseteq versions[l[1]] /\ Genesis \in y.locator
       /\ Uncut /\ y.phase = "batch" => y.cursor \in versions[l[1]]
  BY <1>10 DEF SessionInv, PullStands
<1> QED
  BY <1>11, <1>13, <1>15, <1>16, <1>17, MoveStep DEF Stage

LEMMA ServeCaughtUpInv ==
  ASSUME SessionInv, TypeOK', NEW l \in Links, ServeCaughtUp(l)
  PROVE  SessionInv'
<1> DEFINE x == session[l]
           h == head[l[2]]
           f == CaughtUpFrame
           y == [Send(x, f) EXCEPT !.server = "done"]
<1>1. x \in SessionType /\ h \in Digest /\ f \in FrameType
  BY NodeAssumption, FrameTypes DEF SessionInv, TypeOK
<1>2. x.server = "segment" /\ (Splitting(x) \/ Running(x))
  BY DEF ServeCaughtUp, SessionInv, Stage, Resting, Greeting, Seeking, Parted
<1> HIDE DEF f
<1>3. /\ y.phase = x.phase /\ y.locator = x.locator /\ y.cursor = x.cursor
      /\ y.stream = Append(x.stream, f) /\ y.sent = x.sent /\ y.server = "done"
  BY <1>1 DEF Send, SessionType
<1>4. Move(l, y) /\ UNCHANGED chains
  BY DEF ServeCaughtUp, f
<1> HIDE DEF y
<1>5. ASSUME NEW s \in Seq(FrameType), NEW from, Carries(s, from, x)
      PROVE  Carries(Append(s, f), from, y)
  <2>1. Flows(s, from, x.sent)
    BY <1>2, <1>5 DEF Carries
  <2>2. Closed(Append(s, f), from, x.sent)
    BY <2>1 DEF Closed, f
  <2> QED
    BY <1>3, <2>2 DEF Carries
<1>6. Splitting(y) \/ Running(y)
  BY <1>1, <1>2, <1>3, <1>5, StreamGrows
<1>7. session'[l] = y /\ head' = head
  BY <1>4 DEF Move, SessionInv, TypeOK, chains
<1>8. ASSUME Uncut, Delivers(l) PROVE Delivers(l)'
  <2>1. x.sent \in Anc[h]
    BY <1>2, <1>8 DEF Delivers
  <2>2. Above(x.sent, h) = {}
    BY <1>8, <2>1, NodeAssumption, UncutWalk DEF ServeCaughtUp, Newer
  <2>3. h \in Anc[x.sent]
    BY <1>1, <2>2, AncSelf DEF Above
  <2>4. x.sent = h
    BY <1>1, <2>1, <2>3, AncAntisymmetric
  <2> QED
    BY <1>3, <1>7, <2>4 DEF Delivers
<1>9. x.phase \in {"split", "batch"}
  BY <1>2 DEF Splitting, Running
<1>10. /\ Uncut /\ y.phase = "split" =>
            y.locator \subseteq versions[l[1]] /\ Genesis \in y.locator
       /\ Uncut /\ y.phase = "batch" => y.cursor \in versions[l[1]]
  BY <1>3 DEF SessionInv, PullStands
<1> QED
  BY <1>4, <1>6, <1>8, <1>9, <1>10, MoveStep DEF Stage

LEMMA PullHelloInv ==
  ASSUME SessionInv, TypeOK', NEW l \in Links, PullHello(l)
  PROVE  SessionInv'
<1> DEFINE x == session[l]
           y == [Read(l) EXCEPT !.phase = "locator"]
<1>1. x \in SessionType /\ x.phase = "hello" /\ x.stream # <<>>
  BY DEF PullHello, Awaits, SessionInv, TypeOK
<1>2. PICK h \in Digest : x.stream = <<HelloFrame(h)>>
  BY <1>1 DEF SessionInv, Stage, Resting, Greeting, Seeking, Parted, Splitting, Running
<1>3. x.server = "find" /\ x.sent = None
  BY <1>1 DEF SessionInv, Stage, Resting, Greeting, Seeking, Parted, Splitting, Running
<1> DEFINE f == HelloFrame(h)
<1>4. f.kind = "Hello" /\ f.head = h
  BY DEF HelloFrame, Frame
<1> HIDE DEF f
<1>5. Head(<<f>>) = f /\ Tail(<<f>>) = <<>>
  OBVIOUS
<1>6. Received(l) = f
  BY <1>2, <1>5 DEF Received, f
<1>7. UNCHANGED chains /\ Move(l, IF h \in log[l[1]] THEN Ended ELSE y)
  BY <1>4, <1>6 DEF PullHello
<1>8. CASE h \in log[l[1]]
  <2>1. Move(l, Ended)
    BY <1>7, <1>8
  <2>2. Delivers(l) => head[l[2]] \in log[l[1]]
    <3> SUFFICES ASSUME Delivers(l) PROVE head[l[2]] \in log[l[1]]
      OBVIOUS
    <3>1. x.stream = <<HelloFrame(head[l[2]])>>
      BY <1>1, <1>3 DEF Delivers
    <3>2. HelloFrame(head[l[2]]) = f
      BY <1>2, <3>1 DEF f
    <3>3. HelloFrame(head[l[2]]).head = head[l[2]]
      BY DEF HelloFrame, Frame
    <3> QED
      BY <1>4, <1>8, <3>2, <3>3
  <2> QED
    BY <1>1, <1>7, <2>1, <2>2, RestingSessions, MoveStep
<1>9. CASE h \notin log[l[1]]
  <2>1. Move(l, y)
    BY <1>7, <1>9
  <2>2. Tail(x.stream) = <<>>
    BY <1>2, <1>5 DEF f
  <2>3. y.phase = "locator" /\ y.server = "find" /\ y.stream = <<>> /\ y.sent = None
    BY <1>1, <1>3, <2>2 DEF Read, SessionType
  <2> HIDE DEF y
  <2>4. Seeking(y)
    BY <2>3 DEF Seeking
  <2>5. session'[l] = y
    BY <2>1 DEF Move, SessionInv, TypeOK
  <2>6. Delivers(l)'
    BY <2>3, <2>5 DEF Delivers
  <2> QED
    BY <1>1, <1>7, <2>1, <2>3, <2>4, <2>6, MoveStep DEF Stage
<1> QED
  BY <1>8, <1>9

LEMMA PullLocatorInv ==
  ASSUME SessionInv, TypeOK', NEW l \in Links, PullLocator(l)
  PROVE  SessionInv'
<1> DEFINE x == session[l]
           p == l[1]
           y == [x EXCEPT !.phase = "split", !.locator = Locator(p)]
<1>1. x \in SessionType /\ x.phase = "locator" /\ Move(l, y) /\ UNCHANGED chains
  BY DEF PullLocator, SessionInv, TypeOK
<1>2. x.server = "find" /\ x.stream = <<>> /\ x.sent = None
  BY <1>1 DEF SessionInv, Stage, Resting, Greeting, Seeking, Parted, Splitting, Running
<1>3. /\ y.phase = "split" /\ y.server = "find" /\ y.stream = <<>> /\ y.sent = None
      /\ y.locator = Locator(p)
  BY <1>1, <1>2 DEF SessionType
<1> HIDE DEF y
<1>4. Seeking(y)
  BY <1>3 DEF Seeking
<1>5. session'[l] = y
  BY <1>1 DEF Move, SessionInv, TypeOK
<1>6. Delivers(l)'
  BY <1>3, <1>5 DEF Delivers
<1>7. ASSUME Uncut PROVE Locator(p) \subseteq versions[p] /\ Genesis \in Locator(p)
  <2>1. /\ Walk(p) = Anc[head[p]] /\ Anc[head[p]] \subseteq versions[p]
        /\ Genesis \in Walk(p) /\ head[p] \in Digest
    BY <1>7, NodeAssumption, UncutWalk
  <2>2. ASSUME NEW e \in Walk(p) PROVE Genesis \in Anc[e]
    BY <2>1, AncType, AncFromGenesis
  <2> QED
    BY <2>1, <2>2 DEF Locator
<1> QED
  BY <1>1, <1>3, <1>4, <1>6, <1>7, MoveStep DEF Stage

LEMMA PullSplitInv ==
  ASSUME SessionInv, TypeOK', NEW l \in Links, PullSplit(l)
  PROVE  SessionInv'
<1> DEFINE x == session[l]
           f == Head(x.stream)
           y == [Read(l) EXCEPT !.phase = "batch", !.locator = {}, !.cursor = f.at]
<1>1. x \in SessionType /\ x.phase = "split" /\ x.stream # <<>> /\ f.kind # "NoSplit"
  BY DEF PullSplit, Awaits, SessionInv, TypeOK, Received
<1>2. Splitting(x)
  <2>1. x.stream = <<NoSplitFrame>> => f.kind = "NoSplit"
    BY DEF NoSplitFrame, Frame
  <2> QED
    BY <1>1, <2>1 DEF SessionInv, Stage, Resting, Greeting, Seeking, Parted, Running
<1>3. f.kind = "Split" /\ f.at \in x.locator /\ Carries(Tail(x.stream), f.at, x)
  BY <1>2 DEF Splitting
<1>4. Move(l, y) /\ UNCHANGED chains
  BY <1>3 DEF PullSplit, Received
<1>5. /\ y.phase = "batch" /\ y.cursor = f.at /\ y.stream = Tail(x.stream)
      /\ y.server = x.server /\ y.sent = x.sent
  BY <1>1 DEF Read, SessionType
<1> HIDE DEF y, f
<1>6. Running(y)
  BY <1>3, <1>5 DEF Running, Carries
<1>7. session'[l] = y /\ head' = head
  BY <1>4 DEF Move, SessionInv, TypeOK, chains
<1>8. x.server \in {"segment", "done"}
  BY <1>3 DEF Carries
<1>9. Delivers(l) => Delivers(l)'
  BY <1>5, <1>7, <1>8 DEF Delivers
<1>10. Uncut => y.cursor \in versions[l[1]]
  BY <1>1, <1>3, <1>5 DEF SessionInv, PullStands
<1> QED
  BY <1>1, <1>4, <1>5, <1>6, <1>9, <1>10, MoveStep DEF Stage

LEMMA PullNoSplitInv ==
  ASSUME SessionInv, TypeOK', NEW l \in Links, PullNoSplit(l)
  PROVE  SessionInv'
<1> DEFINE x == session[l]
<1>1. /\ x.phase = "split" /\ x.stream # <<>> /\ Head(x.stream).kind = "NoSplit"
      /\ Move(l, Ended) /\ UNCHANGED chains
  BY DEF PullNoSplit, Awaits, Received
<1>2. Parted(x)
  BY <1>1 DEF SessionInv, Stage, Resting, Greeting, Seeking, Splitting, Running
<1>3. ~Delivers(l)
  <2>1. head[l[2]] # None
    BY NodeAssumption, DigestAssumption DEF SessionInv, TypeOK
  <2> QED
    BY <1>2, <2>1 DEF Parted, Delivers
<1> QED
  BY <1>1, <1>3, RestingSessions, MoveStep

\* A puller at the end of its stream holds all that was sent on it.
LEMMA AtTheEnd ==
  ASSUME SessionInv, NEW l \in Links, Awaits(l, "batch"), Received(l).kind = "CaughtUp", Uncut,
         Delivers(l)
  PROVE  head[l[2]] \in log[l[1]]
<1> DEFINE x == session[l]
<1>1. /\ x.phase = "batch" /\ x.stream # <<>> /\ Head(x.stream).kind = "CaughtUp"
      /\ x.stream \in Seq(FrameType)
  BY DEF Awaits, Received, SessionInv, TypeOK, SessionType
<1>2. Carries(x.stream, x.cursor, x)
  BY <1>1 DEF SessionInv, Stage, Resting, Greeting, Seeking, Parted, Splitting, Running
<1>3. x.server = "done" /\ x.cursor = x.sent
  <2>1. \A u : ~RunOf(Head(x.stream), x.cursor, u)
    BY <1>1 DEF RunOf
  <2> QED
    BY <1>1, <1>2, <2>1, CarriesNext
<1>4. x.sent = head[l[2]]
  BY <1>1, <1>3 DEF Delivers
<1>5. x.cursor \in versions[l[1]]
  BY <1>1 DEF SessionInv, PullStands
<1> QED
  BY <1>3, <1>4, <1>5, NodeAssumption DEF SessionInv, Sound

LEMMA PullCaughtUpInv ==
  ASSUME SessionInv, TypeOK', NEW l \in Links, PullCaughtUp(l)
  PROVE  SessionInv'
<1>1. /\ Awaits(l, "batch") /\ Received(l).kind = "CaughtUp" /\ session[l].phase # "none"
      /\ Move(l, Ended) /\ UNCHANGED chains
  BY DEF PullCaughtUp, Awaits
<1>2. Uncut /\ Delivers(l) => head[l[2]] \in log[l[1]]
  BY <1>1, AtTheEnd
<1> QED
  BY <1>1, <1>2, RestingSessions, MoveStep

\* A run that goes on from a version is taken whole, and ends in a version,
\* where everything stored has one.
LEMMA TakenWhole ==
  ASSUME NEW V, NEW L \in SUBSET V, NEW c \in V, NEW t \in Digest, c \in Anc[t]
  PROVE  /\ Taken(L, V, Above(c, t)) = Above(c, t)
         /\ \A d \in Above(c, t) : Stands(L, V, Above(c, t), d)
<1> DEFINE b == Above(c, t)
<1>1. ASSUME NEW d \in b PROVE Stands(L, V, b, d)
  <2>1. d \in Digest /\ d \in Anc[t] /\ d \notin Anc[c]
    BY AncType DEF Above
  <2>2. c \in Anc[d] /\ c # d
    BY <2>1, AncLinear, AncSelf, AncType
  <2>3. PICK e \in Above(c, d) : e # Genesis /\ Prev[e] = c
    BY <2>1, <2>2, FirstAbove
  <2>4. e \in b \cap Anc[d]
    BY <2>1, <2>3, AncTransitive DEF Above
  <2>5. \A y : y \in V \/ Passes(L, y)
    BY DEF Passes
  <2> QED
    BY <2>3, <2>4, <2>5 DEF Stands
<1> HIDE DEF b
<1>2. ASSUME NEW d \in b PROVE d \in Taken(L, V, b)
  BY <1>1 DEF Taken
<1>3. Taken(L, V, b) \subseteq b
  BY DEF Taken
<1> QED
  BY <1>1, <1>2, <1>3 DEF b

LEMMA PullBatchInv ==
  ASSUME SessionInv, TypeOK', Sound', NEW l \in Links, PullBatch(l)
  PROVE  SessionInv'
<1> DEFINE x == session[l]
           f == Head(x.stream)
           b == f.batch
           p == l[1]
<1>1. /\ x \in SessionType /\ x.phase = "batch" /\ x.stream # <<>> /\ x.stream \in Seq(FrameType)
      /\ f.kind # "CaughtUp" /\ p \in Node /\ l[2] \in Node
  BY NodeAssumption DEF PullBatch, Awaits, Received, SessionInv, TypeOK, SessionType
<1>2. Carries(x.stream, x.cursor, x)
  BY <1>1 DEF SessionInv, Stage, Resting, Greeting, Seeking, Parted, Splitting, Running
<1>3. PICK u \in Digest : RunOf(f, x.cursor, u) /\ Carries(Tail(x.stream), u, x)
  BY <1>1, <1>2, CarriesNext
<1>4. f \in FrameType
  BY <1>1
<1>5. b \in SUBSET Digest /\ Cardinality(b) <= MaxBatch
  BY <1>4 DEF FrameType, Batch
<1>6. /\ u \in b /\ b = Above(x.cursor, u) /\ x.cursor \in Anc[u] /\ Linked(l, b, u)
  BY <1>3, <1>5 DEF RunOf, Linked
<1>7. /\ Insert(p, b)
      /\ IF Taken(log[p], versions[p], b) = b
         THEN \E t \in b : Linked(l, b, t) /\ Move(l, [Read(l) EXCEPT !.cursor = t])
         ELSE Blame(l, "refused")
  BY <1>6 DEF PullBatch, Received
<1> HIDE DEF b, f
<1>8. Grows /\ PathStands'
  BY <1>1, <1>5, <1>7, InsertGrows DEF SessionInv
<1>9. Uncut' => Uncut
  BY <1>8 DEF Grows, Uncut
<1>10. ASSUME Uncut
       PROVE  Taken(log[p], versions[p], b) = b /\ Stands(log[p], versions[p], b, u)
  <2>1. x.cursor \in versions[p]
    BY <1>1, <1>10 DEF SessionInv, PullStands
  <2>2. log[p] \in SUBSET versions[p]
    BY <1>1, <1>10 DEF SessionInv, PathStands, Uncut
  <2> QED
    BY <1>6, <2>1, <2>2, TakenWhole
<1>11. CASE Taken(log[p], versions[p], b) = b
  <2>1. PICK t \in b : Linked(l, b, t) /\ Move(l, [Read(l) EXCEPT !.cursor = t])
    BY <1>7, <1>11
  <2>2. t = u
    <3>1. t \in Digest /\ b = Above(x.cursor, t)
      BY <1>5, <2>1 DEF Linked
    <3>2. t \in Anc[u] /\ u \in Anc[t]
      BY <1>6, <3>1 DEF Above
    <3> QED
      BY <3>2, AncAntisymmetric
  <2> DEFINE y == [Read(l) EXCEPT !.cursor = u]
  <2>3. /\ y.phase = "batch" /\ y.cursor = u /\ y.stream = Tail(x.stream)
        /\ y.server = x.server /\ y.sent = x.sent
    BY <1>1 DEF Read, SessionType
  <2>4. Move(l, y)
    BY <2>1, <2>2
  <2> HIDE DEF y
  <2>5. /\ session'[l] = y /\ \A k \in Links : k # l => session'[k] = session[k]
        /\ UNCHANGED <<watch, up, stale, announced, pull, drops, blamed>>
    BY <2>4 DEF Move, SessionInv, TypeOK
  <2>6. Stage(session[l])'
    BY <1>3, <2>3, <2>5 DEF Stage, Running, Carries
  <2>7. LinkOK(l)'
    <3>1. pull[l] # "Idle" /\ up[l]
      BY <1>1, RestingSessions DEF SessionInv, LinkOK
    <3> QED
      BY <2>5, <3>1 DEF LinkOK
  <2>8. NeverBlamed'
    BY <1>9, <2>5, BlamelessKept DEF SessionInv
  <2>9. ASSUME Uncut PROVE PullStands(l)'
    <3>1. u \in Taken(log[p], versions[p], b) /\ Stands(log[p], versions[p], b, u)
      BY <1>6, <1>10, <2>9
    <3>2. u \in versions'[p]
      BY <1>1, <1>7, <3>1 DEF Insert, SessionInv, TypeOK
    <3> QED
      BY <2>3, <2>5, <3>2 DEF PullStands
  <2>10. ASSUME Uncut PROVE Told(l)'
    <3>1. x.server \in {"segment", "done"}
      BY <1>2 DEF Carries
    <3>2. Delivers(l) /\ head'[l[2]] = head[l[2]] => Delivers(l)'
      BY <2>3, <2>5, <3>1 DEF Delivers
    <3> QED
      BY <1>1, <1>8, <2>5, <2>10, <3>2, ToldKept DEF SessionInv
  <2> QED
    BY <1>8, <2>5, <2>6, <2>7, <2>8, <2>9, <2>10, LinkStep
<1>12. CASE Taken(log[p], versions[p], b) # b
  <2>1. Blame(l, "refused") /\ ~Uncut
    BY <1>7, <1>10, <1>12
  <2>2. Down(l) /\ UNCHANGED watch /\ blamed' = blamed \cup {<<l, "refused">>}
    BY <2>1 DEF Blame
  <2>3. NeverBlamed'
    BY <1>9, <2>1, <2>2 DEF SessionInv, NeverBlamed
  <2> QED
    BY <1>8, <2>2, <2>3, DownRests, LinkStep
<1> QED
  BY <1>11, <1>12

-----------------------------------------------------------------------------
(* The theorems.                                                           *)

LEMMA InvInit == Init => SessionInv
<1> SUFFICES ASSUME Init PROVE SessionInv
  OBVIOUS
<1>1. TypeOK /\ Sound
  BY TypeInit, SoundInit
<1>2. PathStands /\ NeverBlamed
  <2>2. ASSUME NEW n \in Node
        PROVE  /\ root[n] \in versions[n] /\ Above(root[n], head[n]) \subseteq versions[n]
               /\ root[n] = Genesis => log[n] \subseteq versions[n]
    <3>1. /\ root[n] = Start[n].root /\ head[n] = Start[n].head /\ log[n] = Start[n].log
      BY DEF Init
    <3>2. CASE Start[n].root = Genesis
      <4>1. versions[n] = Start[n].log
        BY <3>2 DEF Init
      <4>2. root[n] \in log[n] /\ head[n] \in log[n] /\ Above(root[n], head[n]) \subseteq log[n]
        BY <1>1, HoldsHead DEF Sound
      <4> QED
        BY <3>1, <4>1, <4>2
    <3>3. CASE Start[n].root # Genesis
      <4>1. versions[n] = {Start[n].root} \cup Above(Start[n].root, Start[n].head)
        BY <3>3 DEF Init
      <4> QED
        BY <3>1, <3>3, <4>1
    <3> QED
      BY <3>2, <3>3
  <2> QED
    BY <2>2 DEF Init, PathStands, NeverBlamed
<1>3. ASSUME NEW l \in Links
      PROVE  Stage(session[l]) /\ LinkOK(l) /\ PullStands(l) /\ Told(l)
  <2>1. session[l] = NoSession /\ pull[l] = "Idle" /\ announced[l] = {} /\ up[l] = FALSE
    BY DEF Init
  <2> QED
    BY <2>1, RestingSessions DEF LinkOK, PullStands, Told
<1>4. \A n \in Node : watch[n] \in log[n]
  BY <1>1, HoldsHead DEF Init
<1> QED
  BY <1>1, <1>2, <1>3, <1>4 DEF SessionInv

LEMMA InvNext == SessionInv /\ [Next]_vars => SessionInv'
<1> SUFFICES ASSUME SessionInv, [Next]_vars PROVE SessionInv'
  OBVIOUS
<1>1. TypeOK' /\ Sound'
  BY TypeStep, SoundStep DEF SessionInv
<1>2. CASE UNCHANGED vars
  <2>1. /\ UNCHANGED <<chains, log, versions, root, head, watch, up, stale, announced, pull,
                       session, blamed>>
    BY <1>2 DEF vars, chains, links
  <2>2. ASSUME NEW k \in Links
        PROVE  /\ Stage(session[k])' /\ LinkOK(k)'
               /\ Uncut => PullStands(k)' /\ Told(k)'
    BY <2>1, LinkKept, SameGrows
  <2>3. PathStands' /\ NeverBlamed' /\ (Uncut' => Uncut)
    BY <2>1 DEF SessionInv, PathStands, NeverBlamed, Uncut
  <2>4. Uncut => \A n \in Node : watch'[n] \in log'[n]
    BY <2>1 DEF SessionInv
  <2> QED
    BY <1>1, <2>2, <2>3, <2>4 DEF SessionInv
<1>3. ASSUME NEW n \in Node, Author(n) \/ Compact(n) \/ Notify(n) PROVE SessionInv'
  BY <1>1, <1>3, AuthorInv, CompactInv, NotifyInv
<1>4. ASSUME NEW l \in Links, Link(l) \/ Drop(l) PROVE SessionInv'
  BY <1>1, <1>4, ConnectInv, OnAnnounceInv, SettleInv, DropInv, ServeHelloInv, ServeSplitInv,
     ServeNoSplitInv, ServeSegmentInv, ServeCaughtUpInv, PullHelloInv, PullLocatorInv,
     PullSplitInv, PullNoSplitInv, PullBatchInv, PullCaughtUpInv DEF Link
<1> QED
  BY <1>2, <1>3, <1>4 DEF Next

\* Both machines of every session agree on where it stands and what is on the
\* stream, every link knows what it still has to bring, and every path has
\* its versions, whatever moves on either node meanwhile.
THEOREM SessionsHold == Spec => []SessionInv
<1>1. SessionInv /\ [Next]_vars => SessionInv'
  BY InvNext
<1> QED
  BY InvInit, <1>1, PTL DEF Spec

\* sync::Puller never finds a breach in what sync::Server sends it, through
\* every reorganisation and compaction between two questions; and before the
\* first compaction no run is refused.
THEOREM NoPeerBlamed == Spec => []NeverBlamed
<1>1. SessionInv => NeverBlamed
  BY DEF SessionInv
<1> QED
  BY SessionsHold, <1>1, PTL

\* Link::pull loses no wake-up: before the first compaction, a link that has
\* fallen quiet has brought the dialler's head to the acceptor's log.
THEOREM QuietLinksHold == Spec => []QuietMeansHeld
<1>1. SessionInv => QuietMeansHeld
  <2> SUFFICES ASSUME SessionInv, Uncut, NEW l \in Links, Quiet(l)
               PROVE  head[l[2]] \in log[l[1]]
    BY DEF QuietMeansHeld
  <2>1. Told(l) /\ session[l] = NoSession
    BY DEF SessionInv, LinkOK, Quiet
  <2>2. ~Delivers(l)
    BY <2>1, RestingSessions DEF Delivers
  <2> QED
    BY <2>1, <2>2 DEF Told, Quiet
<1> QED
  BY SessionsHold, <1>1, PTL

\* A stream that sync::Server ends early, over a cursor that left its path,
\* is followed by another: the head it misses is announced or a pull is owed.
THEOREM EarlyEndsFollowed == Spec => []EarlyEndFollowed
<1>1. SessionInv => EarlyEndFollowed
  <2> SUFFICES ASSUME SessionInv, Uncut, NEW l \in Links,
                      Awaits(l, "batch"), Received(l).kind = "CaughtUp",
                      ~stale[l], watch[l[2]] = head[l[2]], announced[l] = {},
                      pull[l] # "RunningAgain"
               PROVE  head[l[2]] \in log[l[1]]
    BY DEF EarlyEndFollowed
  <2>1. session[l] # NoSession
    BY RestingSessions DEF Awaits
  <2>2. up[l] /\ Told(l)
    BY <2>1 DEF SessionInv, LinkOK
  <2>3. head[l[2]] \in log[l[1]] \/ Delivers(l)
    BY <2>2 DEF Told
  <2> QED
    BY <2>3, AtTheEnd
<1> QED
  BY SessionsHold, <1>1, PTL
=============================================================================

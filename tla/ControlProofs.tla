--------------------------- MODULE ControlProofs ----------------------------
(***************************************************************************)
(* Theorems about the control socket: what a client is told, what became   *)
(* of its write, what it was streamed and what its watch has shown it.     *)
(***************************************************************************)
EXTENDS Control, SequenceTheorems, WellFoundedInduction, NaturalsInduction, TLAPS

-----------------------------------------------------------------------------
(* The inductive invariant.                                                *)

Outcomes ==
  {"", "Connect", "FrameTooLarge", "Dropped", "IO", "NoResponse", "none", "Truncated", "Failed",
   "UnexpectedResponse", "Ok"}
TripNames ==
  {"Identity", "ChainRange", "Peers", "PeerConnections", "Published"} \cup Methods
CallType(B) ==
  [at : {"idle", "open", "ended"}, asked : Asked, filled : Nat, got : Seq(B), end : Outcomes]
FrameType(B) == [body : B, len : Nat \ {0}, bytes : Nat \ {0}]
PipeType(B)  == [frames : Seq(FrameType(B)), shut : BOOLEAN]
TaskType(B) ==
  [at : {"none", "reading", "asking", "waiting", "sending", "telling", "watching", "ended"},
   filled : Nat, req : SUBSET Asked, trips : Seq(TripNames), parts : Seq(B), out : Seq(B)]
MsgType == [conn : Conns, req : Asked, trip : TripNames]
SubType(B) == [live : BOOLEAN, pending : Seq(B)]
CoreType(E) == [chain : Seq(E), orphans : Seq(E), minted : Nat]
SeenType(B) ==
  [wrote : Seq(Nat), beside : SUBSET Conns, picked : Seq(B), head : Nat, unsent : BOOLEAN]

\* The answers a handler gives of itself.
Fixed == {Version, Failure("Internal"), Failure("Unsupported"), Failure("Rejected")}

\* The shape of the state, for a set B that holds every answer there is and a
\* set E that holds every log entry: values nest, so neither set is fixed.
Typed(B, E) ==
  /\ Fixed \subseteq B
  /\ call \in [Conns -> CallType(B)]
  /\ up \in [Conns -> PipeType(Asked)]
  /\ down \in [Conns -> PipeType(B)]
  /\ task \in [Conns -> TaskType(B)]
  /\ queue \in Seq(MsgType)
  /\ subs \in [Conns -> SubType(B)]
  /\ core \in CoreType(E)
  /\ \A e \in E : e.digest \in Nat
  /\ daemon \in {"up", "down", "exited"}
  /\ daemon = "up" => core.chain # <<>>
  /\ seen \in [Conns -> SeenType(B)]

\* Everything on its way to the client of c or in its hands: what it has been
\* handed, the frames in the pipe, and what the handler still has to write.
Bodies(frames) == {frames[i].body : i \in DOMAIN frames}
Sent(c) == ToSet(call[c].got) \cup Bodies(down[c].frames) \cup ToSet(task[c].out)

Whole(f) == f.bytes = PrefixLen + f.len

\* A message of c waits for the mainloop.
Queued(c) == \E i \in DOMAIN queue : queue[i].conn = c

\* The client's side of the request.  What it wrote is one frame that stays
\* until the handler has all of it; while the call is open that frame is
\* whole and its end of the pipe is open.
Asks(c) ==
  /\ call[c].at = "idle" =>
       /\ up[c].frames = <<>> /\ ~up[c].shut
       /\ task[c].at = "none" \/ (task[c].at = "ended" /\ daemon # "up")
       /\ call[c].end = "" /\ call[c].filled = 0 /\ seen[c].wrote = <<>>
  /\ up[c].frames # <<>> =>
       /\ Len(up[c].frames) = 1 /\ up[c].frames[1].body = call[c].asked
       /\ task[c].at \in {"none", "reading", "ended"}
  /\ call[c].at = "open" =>
       /\ ~up[c].shut /\ call[c].end = ""
       /\ up[c].frames # <<>> =>
            /\ Whole(up[c].frames[1])
            /\ up[c].frames[1].len <= MaxLen \/ call[c].asked = Unknown
       /\ task[c].at \in {"none", "reading"} =>
            up[c].frames # <<>> /\ task[c].filled < up[c].frames[1].bytes
       /\ (task[c].at = "ended" /\ daemon = "up" /\ up[c].frames # <<>>) =>
            call[c].asked = Unknown

\* The handler: what it holds of the request at each stage.
Works(c) ==
  /\ task[c].at \in {"none", "reading"} =>
       task[c].req = {} /\ task[c].trips = <<>> /\ task[c].parts = <<>>
  /\ task[c].at = "none" => task[c].filled = 0
  /\ (task[c].at = "reading" \/ (task[c].at = "none" /\ daemon = "up")) =>
       call[c].at # "ended" \/ call[c].end \in {"Dropped", "FrameTooLarge"}
  /\ task[c].at \in {"sending", "watching"} => task[c].req = {call[c].asked}
  /\ task[c].req \subseteq {call[c].asked}
  /\ task[c].at \notin {"sending", "telling"} => task[c].out = <<>>
  /\ task[c].at \in {"asking", "waiting"} =>
       /\ task[c].req = {call[c].asked}
       /\ call[c].asked.type \in Methods \ {"GetVersion"}
       /\ task[c].trips \in Seq(ToSet(Trips(call[c].asked)))
       /\ task[c].at = "asking" => task[c].trips # <<>>
       /\ call[c].at = "open" \/ call[c].end = "Dropped"
       /\ call[c].asked.type # "GetStatus" =>
            /\ task[c].parts = <<>>
            /\ Len(task[c].trips) = IF task[c].at = "asking" THEN 1 ELSE 0
  /\ task[c].at = "watching" => subs[c].live
  /\ subs[c].live => task[c].at \in {"sending", "watching"} /\ call[c].asked.type = "Watch"
  /\ \A b \in ToSet(subs[c].pending) : b.is = "Watch"
  /\ subs[c].pending # <<>> => subs[c].live

\* The answer: nothing goes out before the mainloop answered, and every frame
\* is whole while the process lives.
Answers(c) ==
  /\ task[c].at \in {"none", "reading", "asking", "waiting"} =>
       down[c].frames = <<>> /\ call[c].got = <<>>
  /\ down[c].shut => task[c].at = "ended" \/ (task[c].at = "none" /\ daemon # "up")
  /\ \A i \in DOMAIN down[c].frames :
       /\ down[c].frames[i].len <= MaxLen
       /\ Whole(down[c].frames[i]) \/ daemon = "exited"
  /\ (call[c].at = "open" /\ call[c].filled # 0) =>
       /\ down[c].frames # <<>>
       /\ Whole(down[c].frames[1]) => call[c].filled < down[c].frames[1].bytes
  /\ \A b \in Sent(c) : b.is \in {"Failed", Variant(call[c].asked)}

\* How the call ended; one that is open and owed an answer still has it before
\* it.
Outcome(c) ==
  /\ call[c].end \in {"none", "NoResponse"} =>
       call[c].at = "ended" /\ down[c].frames = <<>> /\ down[c].shut
  /\ call[c].end = "NoResponse" => daemon = "exited" \/ seen[c].unsent
  /\ call[c].end = "IO" => daemon # "up" \/ call[c].asked = Unknown
  /\ call[c].end = "Truncated" => daemon = "exited"
  /\ call[c].end # "UnexpectedResponse"
  /\ (/\ call[c].at = "open" /\ call[c].asked.type \notin Many
      /\ task[c].at \in {"sending", "telling", "ended"} /\ up[c].frames = <<>>
      /\ daemon # "exited" /\ ~seen[c].unsent) =>
       task[c].out # <<>> \/ down[c].frames # <<>>

\* The node's own write: none before the mainloop took the message, and what
\* the client is told agrees with it from then on.
Wrote(c) ==
  /\ Len(seen[c].wrote) <= 1
  /\ (task[c].at \in {"none", "reading", "asking", "waiting"} \/ Queued(c)) =>
       seen[c].wrote = <<>>
  /\ \A b \in Sent(c) :
       /\ b.is = "Written" => seen[c].wrote = <<b.digest>>
       /\ (b.is = "Failed" /\ b.kind = "Rejected") => seen[c].wrote = <<>>
  /\ call[c].end = "Ok" =>
       call[c].got # <<>> /\ Last(call[c].got).is = Variant(call[c].asked)
  /\ call[c].end = "Failed" => call[c].got # <<>> /\ Last(call[c].got).is = "Failed"
  /\ call[c].end \in {"Connect", "FrameTooLarge"} =>
       /\ up[c].frames = <<>> /\ task[c].at \in {"none", "reading", "ended"}
       /\ seen[c].wrote = <<>> /\ call[c].at = "ended"

\* A message in the queue: its handler waits for it, or has left with its
\* client, and nothing has been answered.
Waits(c) ==
  Queued(c) =>
    /\ task[c].at = "waiting" \/ (task[c].at = "ended" /\ call[c].end = "Dropped")
    /\ down[c].frames = <<>> /\ call[c].got = <<>> /\ task[c].out = <<>>

\* The mainloop's messages: at most one of each connection, each a trip of the
\* request its client made.
QueueOk ==
  /\ daemon # "up" => queue = <<>>
  /\ \A i, j \in DOMAIN queue : queue[i].conn = queue[j].conn => i = j
  /\ \A i \in DOMAIN queue :
       /\ queue[i].req = call[queue[i].conn].asked
       /\ queue[i].trip \in ToSet(Trips(queue[i].req))
       /\ queue[i].req.type \in Methods \ {"GetVersion"}

\* All that holds of one connection.
ConnOk(c) ==
  Asks(c) /\ Works(c) /\ Answers(c) /\ Outcome(c) /\ Wrote(c) /\ Waits(c)

\* What the answers, the write and the end of a call rest on.
CallInv(B, E) == Typed(B, E) /\ QueueOk /\ \A c \in Conns : ConnOk(c)

\* The handler has not answered yet.
Early(c) == task[c].at \in {"none", "reading", "asking", "waiting"}

\* What was handed over, what is in the pipe and what is still to be written
\* are, in this order, the start of p.
InLine(p, got, frames, out) ==
  /\ Len(got) + Len(frames) + Len(out) <= Len(p)
  /\ \A i \in DOMAIN got : got[i] = p[i]
  /\ \A i \in DOMAIN frames : frames[i].body = p[Len(got) + i]
  /\ \A i \in DOMAIN out : out[i] = p[Len(got) + Len(frames) + i]

\* A GetEnvelopes call is answered with what the mainloop picked, all of it
\* unless the process died or a frame did not fit; or with one failure.
Cut(c) == daemon = "exited" \/ seen[c].unsent
Line(c) == Len(call[c].got) + Len(down[c].frames) + Len(task[c].out)
Streamed(c) ==
  LET got == call[c].got   picked == seen[c].picked
  IN /\ call[c].end # "Failed"
     /\ Len(got) <= Len(picked) /\ \A i \in DOMAIN got : got[i] = picked[i]
     /\ call[c].at = "open" =>
          /\ InLine(picked, got, down[c].frames, task[c].out)
          /\ Cut(c) \/ Line(c) = Len(picked)
     /\ call[c].end = "none" => Cut(c) \/ Len(got) = Len(picked)
Refused(c) ==
  /\ seen[c].picked = <<>> /\ Line(c) <= 1
  /\ \A b \in Sent(c) : b.is = "Failed"
  /\ call[c].got # <<>> <=> call[c].end = "Failed"
Streams(c) ==
  call[c].asked.type = "GetEnvelopes" =>
    /\ \A i \in DOMAIN seen[c].picked : seen[c].picked[i].is = "Envelope"
    /\ Early(c) => seen[c].picked = <<>>
    /\ Streamed(c) \/ Refused(c)

\* The log while the daemon is up: digests name entries, and the chain is
\* linked.
Entries == ToSet(core.chain) \cup ToSet(core.orphans)
LogOk ==
  daemon = "up" =>
    /\ \A e \in Entries : e.digest <= core.minted
    /\ \A e, f \in Entries : e.digest = f.digest => e.prev = f.prev
    /\ \A i \in 2 .. Len(core.chain) : core.chain[i].prev = core.chain[i - 1].digest

\* A chain walk's run, once picked.
RunOk(c) ==
  LET q == call[c].asked   run == seen[c].picked
  IN (q.type = "GetEnvelopes" /\ "digests" \notin DOMAIN q /\ run # <<>>) =>
       /\ \A l \in q.limit : Len(run) <= l
       /\ Last(run).digest = seen[c].head
       /\ \A i \in DOMAIN run :
            run[i].digest \in Nat /\ (daemon = "up" => run[i].digest <= core.minted)
       /\ \A i \in 2 .. Len(run) : \A e \in Entries :
            e.digest = run[i].digest => e.prev = run[i - 1].digest

\* The chain visits no digest twice, and a namespace no entry of a stretch
\* touched is the same at both its ends.
SameAt(s, t, k) == (k \in DOMAIN s <=> k \in DOMAIN t) /\ (k \in DOMAIN s => s[k] = t[k])
Untouched(chain, i, j, k) == \A l \in i + 1 .. j : chain[l].key # k
StatesOk ==
  daemon = "up" =>
    /\ \A i, j \in DOMAIN core.chain : core.chain[i].digest = core.chain[j].digest => i = j
    /\ \A i \in DOMAIN core.chain : \A j \in i .. Len(core.chain) : \A k :
         Untouched(core.chain, i, j, k) => SameAt(core.chain[i].state, core.chain[j].state, k)

\* A call that is answered once has had no answer while it is open.
Once(c) ==
  call[c].asked.type \notin Many =>
    (call[c].at # "ended" => call[c].got = <<>>) /\ Len(call[c].got) <= 1

\* The watch at w against what the reader at r was told.
Events(w) == Sent(w) \cup ToSet(subs[w].pending)
Follows(w, r) ==
  LET watch == call[w].asked   read == call[r].asked
  IN /\ watch.type = "Watch" /\ read.type = "Read"
     /\ watch.select = "Head" \/ (watch.select = "Namespace" /\ watch.key = read.key)
Listens(w, r) ==
  daemon = "up" /\ Follows(w, r) /\ w \in seen[r].beside /\ subs[w].live /\ call[w].at = "open"
Registered(w) == task[w].at \in {"sending", "watching", "ended"}
FreshOk(w, r) ==
  /\ w \in seen[r].beside => Registered(w)
  /\ (daemon = "up" /\ call[r].asked.type = "Read") =>
       \A b \in Sent(r) : b.is = "Value" =>
         /\ b.head \in Nat /\ b.head <= core.minted
         /\ Listens(w, r) =>
              \/ ReadValue(core, call[r].asked) = b.value
              \/ \E e \in Events(w) : e.head # b.head
              \/ missed[w] > b.head

-----------------------------------------------------------------------------
(* Induction over data.                                                    *)

\* A set of naturals closed under successor holds them all.
LEMMA NatInd ==
  ASSUME NEW S, 0 \in S, \A n \in Nat : n \in S => n + 1 \in S
  PROVE  Nat \subseteq S
<1> SUFFICES ASSUME ~ (Nat \subseteq S) PROVE FALSE
  OBVIOUS
<1> DEFINE T == Nat \ S
           R == OpToRel(<, Nat)
<1>1. T \subseteq Nat /\ T # {}
  OBVIOUS
<1>2. IsWellFoundedOn(R, Nat)
  BY NatLessThanWellFounded
<1>3. PICK d \in T : \A y \in T : ~ (<<y, d>> \in R)
  <2> HIDE DEF T, R
  <2> QED
    BY <1>1, <1>2, WFMin
<1>4. d \in Nat /\ d # 0
  OBVIOUS
<1>5. d - 1 \in Nat /\ d - 1 < d /\ (d - 1) + 1 = d
  BY <1>4
<1>6. <<d - 1, d>> \in R
  BY <1>4, <1>5 DEF OpToRel
<1>7. d - 1 \in S
  BY <1>3, <1>5, <1>6
<1>8. d \in S
  BY <1>5, <1>7
<1> QED
  BY <1>8

\* A function of the numbers up to n that starts in X and is led from X to X
\* stays in it.
LEMMA Stays ==
  ASSUME NEW X, NEW n \in Nat, NEW f, f[0] \in X,
         \A i \in 1 .. n : f[i - 1] \in X => f[i] \in X
  PROVE  \A i \in 0 .. n : f[i] \in X
<1> DEFINE S == {i \in Nat : i <= n => f[i] \in X}
<1>1. 0 \in S
  OBVIOUS
<1>2. ASSUME NEW i \in Nat, i \in S PROVE i + 1 \in S
  <2> SUFFICES ASSUME i + 1 <= n PROVE f[i + 1] \in X
    OBVIOUS
  <2>1. f[i] \in X
    BY <1>2
  <2>2. i + 1 \in 1 .. n /\ (i + 1) - 1 = i
    OBVIOUS
  <2> QED
    BY <2>1, <2>2
<1>3. Nat \subseteq S
  <2> HIDE DEF S
  <2> QED
    BY <1>1, <1>2, NatInd
<1> QED
  BY <1>3

\* The first n steps of g in X, from x on.
Leads(g, X, n) == g \in [1 .. n -> [X -> X]]
Runs(f, g, X, n, x) ==
  f \in [0 .. n -> X] /\ f[0] = x /\ \A i \in 1 .. n : f[i] = g[i][f[i - 1]]

\* A start and a step define a function.
LEMMA Unfolds ==
  ASSUME NEW X, NEW n \in Nat, NEW x \in X, NEW g, Leads(g, X, n)
  PROVE  \E f : Runs(f, g, X, n, x)
<1> USE DEF Leads
<1> DEFINE Up(m, f) == f[0] = x /\ \A i \in 1 .. m : f[i] = g[i][f[i - 1]]
           S == {m \in Nat : m <= n => \E f \in [0 .. m -> X] : Up(m, f)}
<1>1. 0 \in S
  <2> DEFINE f == [i \in 0 .. 0 |-> x]
  <2>1. f \in [0 .. 0 -> X] /\ Up(0, f)
    OBVIOUS
  <2> QED
    BY <2>1
<1>2. ASSUME NEW m \in Nat, m \in S PROVE m + 1 \in S
  <2> SUFFICES ASSUME m + 1 <= n PROVE \E f \in [0 .. m + 1 -> X] : Up(m + 1, f)
    OBVIOUS
  <2>1. PICK f \in [0 .. m -> X] : Up(m, f)
    BY <1>2
  <2> DEFINE h == [i \in 0 .. m + 1 |-> IF i <= m THEN f[i] ELSE g[m + 1][f[m]]]
  <2>2. f[m] \in X /\ m + 1 \in 1 .. n
    BY <2>1
  <2>3. g[m + 1][f[m]] \in X
    BY <2>2
  <2>4. h \in [0 .. m + 1 -> X]
    BY <2>1, <2>3
  <2>5. h[0] = x
    BY <2>1
  <2>6. ASSUME NEW i \in 1 .. m + 1 PROVE h[i] = g[i][h[i - 1]]
    <3>1. CASE i <= m
      BY <2>1, <3>1
    <3>2. CASE i = m + 1
      BY <3>2
    <3> QED
      BY <3>1, <3>2
  <2>7. Up(m + 1, h)
    BY <2>5, <2>6
  <2> HIDE DEF h, Up
  <2> QED
    BY <2>4, <2>7
<1>3. Nat \subseteq S
  <2> HIDE DEF S
  <2> QED
    BY <1>1, <1>2, NatInd
<1>4. n \in S
  BY <1>3
<1>5. PICK f \in [0 .. n -> X] : Up(n, f)
  BY <1>4
<1>6. Runs(f, g, X, n, x)
  BY <1>5 DEF Runs
<1> QED
  BY <1>6

-----------------------------------------------------------------------------
(* What the core answers.                                                  *)

\* Core::envelopes answers with entries of the log.
LEMMA LoggedSeq ==
  ASSUME NEW c, NEW E, c.chain \in Seq(E), c.orphans \in Seq(E), NEW ds \in Seq(Nat)
  PROVE  Logged(c, ds) \in Seq(E)
<1> DEFINE n == Len(ds)
           Of(d) == {e \in ToSet(c.chain \o c.orphans) : e.digest = d}
           Up(f) == f = [i \in 0 .. n |->
                           IF i = 0 THEN <<>>
                           ELSE IF Of(ds[i]) = {} THEN f[i - 1]
                           ELSE Append(f[i - 1], CHOOSE e \in Of(ds[i]) : TRUE)]
           g == [i \in 1 .. n |-> [s \in Seq(E) |->
                  IF Of(ds[i]) = {} THEN s ELSE Append(s, CHOOSE e \in Of(ds[i]) : TRUE)]]
<1>1. n \in Nat
  OBVIOUS
<1>2. \A d : Of(d) # {} => (CHOOSE e \in Of(d) : TRUE) \in E
  <2>1. c.chain \o c.orphans \in Seq(E)
    OBVIOUS
  <2> DEFINE l == c.chain \o c.orphans
  <2> HIDE DEF l
  <2>2. ToSet(l) \subseteq E
    <3>1. l \in Seq(E)
      BY <2>1 DEF l
    <3> QED
      BY <3>1 DEF ToSet
  <2> QED
    BY <2>2 DEF l
<1> HIDE DEF Of, n
<1>3. g \in [1 .. n -> [Seq(E) -> Seq(E)]]
  BY <1>2
<1> DEFINE X == Seq(E)
           z == <<>>
<1>4. z \in X
  OBVIOUS
<1>a. Leads(g, X, n)
  BY <1>3 DEF Leads
<1>5. PICK f : Runs(f, g, X, n, z)
  <2> HIDE DEF g, X, z
  <2> QED
    BY <1>1, <1>4, <1>a, Unfolds
<1>6. ASSUME NEW i \in 0 .. n, i # 0
      PROVE  f[i] = IF Of(ds[i]) = {} THEN f[i - 1]
                    ELSE Append(f[i - 1], CHOOSE e \in Of(ds[i]) : TRUE)
  <2>1. i \in 1 .. n /\ i - 1 \in 0 .. n
    BY <1>1, <1>6
  <2>2. f[i - 1] \in Seq(E) /\ f[i] = g[i][f[i - 1]]
    BY <1>5, <2>1 DEF Runs
  <2> QED
    BY <2>1, <2>2
<1>7. Up(f)
  BY <1>5, <1>6 DEF Runs
<1>8. \E h : Up(h)
  <2> HIDE DEF Up
  <2> QED
    BY <1>7
<1> DEFINE h == CHOOSE h : Up(h)
<1>9. Up(h)
  <2> HIDE DEF Up
  <2> QED
    BY <1>8
<1> HIDE DEF h
<1>10. h[0] \in Seq(E)
  BY <1>1, <1>9
<1>11. ASSUME NEW i \in 1 .. n, h[i - 1] \in Seq(E) PROVE h[i] \in Seq(E)
  <2>1. i \in 0 .. n /\ i # 0
    BY <1>1
  <2>2. h[i] = IF Of(ds[i]) = {} THEN h[i - 1]
               ELSE Append(h[i - 1], CHOOSE e \in Of(ds[i]) : TRUE)
    BY <1>9, <2>1
  <2> QED
    BY <1>2, <1>11, <2>2
<1>12. \A i \in 0 .. n : h[i] \in Seq(E)
  <2> HIDE DEF Up
  <2> QED
    BY <1>1, <1>10, <1>11, Stays
<1>13. h[n] \in Seq(E)
  BY <1>1, <1>12
<1>14. Logged(c, ds) = h[n]
  BY DEF Logged, h, n, Of
<1> QED
  BY <1>13, <1>14

\* Core::compact keeps some of the orphans.
LEMMA HangingSeq ==
  ASSUME NEW E, NEW kept, NEW orphans \in Seq(E)
  PROVE  Hanging(kept, orphans) \in Seq(ToSet(orphans))
<1> DEFINE n == Len(orphans)
           X == Seq(ToSet(orphans))
           On(s, i) == orphans[i].prev \in DigestsOf(kept) \cup DigestsOf(s)
           Up(f) == f = [i \in 0 .. n |->
                           IF i = 0 THEN <<>>
                           ELSE IF On(f[i - 1], i) THEN Append(f[i - 1], orphans[i])
                           ELSE f[i - 1]]
           g == [i \in 1 .. n |-> [s \in X |->
                  IF On(s, i) THEN Append(s, orphans[i]) ELSE s]]
<1>1. n \in Nat
  OBVIOUS
<1>2. \A i \in 1 .. n : orphans[i] \in ToSet(orphans)
  BY DEF ToSet
<1>3. \A s \in X, i \in 1 .. n : Append(s, orphans[i]) \in X
  BY <1>2
<1>a. <<>> \in X
  OBVIOUS
<1> HIDE DEF On, n, X
<1>4. g \in [1 .. n -> [X -> X]]
  BY <1>3
<1> DEFINE z == <<>>
<1>5. z \in X
  BY <1>a
<1>b. Leads(g, X, n)
  BY <1>4 DEF Leads
<1>6. PICK f : Runs(f, g, X, n, z)
  <2> HIDE DEF g, z
  <2> QED
    BY <1>1, <1>5, <1>b, Unfolds
<1>7. ASSUME NEW i \in 0 .. n, i # 0
      PROVE  f[i] = IF On(f[i - 1], i) THEN Append(f[i - 1], orphans[i]) ELSE f[i - 1]
  <2>1. i \in 1 .. n /\ i - 1 \in 0 .. n
    BY <1>1, <1>7
  <2>2. f[i - 1] \in X /\ f[i] = g[i][f[i - 1]]
    BY <1>6, <2>1 DEF Runs
  <2> QED
    BY <2>1, <2>2
<1>8. Up(f)
  BY <1>6, <1>7 DEF Runs
<1>9. \E h : Up(h)
  <2> HIDE DEF Up
  <2> QED
    BY <1>8
<1> DEFINE h == CHOOSE h : Up(h)
<1>10. Up(h)
  <2> HIDE DEF Up
  <2> QED
    BY <1>9
<1> HIDE DEF h
<1>11. h[0] \in X
  BY <1>1, <1>10, <1>a
<1>12. ASSUME NEW i \in 1 .. n, h[i - 1] \in X PROVE h[i] \in X
  <2>1. i \in 0 .. n /\ i # 0
    BY <1>1
  <2>2. h[i] = IF On(h[i - 1], i) THEN Append(h[i - 1], orphans[i]) ELSE h[i - 1]
    BY <1>10, <2>1
  <2> QED
    BY <1>3, <1>12, <2>2
<1>13. \A i \in 0 .. n : h[i] \in X
  <2> HIDE DEF Up
  <2> QED
    BY <1>1, <1>11, <1>12, Stays
<1>14. h[n] \in X
  BY <1>1, <1>13
<1>15. Hanging(kept, orphans) = h[n]
  BY DEF Hanging, h, n, On
<1> QED
  BY <1>14, <1>15 DEF X

\* A set of naturals that is bounded and not empty has a greatest element.
LEMMA Greatest ==
  ASSUME NEW S \in SUBSET Nat, S # {}, NEW n \in Nat, \A x \in S : x <= n
  PROVE  \E x \in S : \A y \in S : x >= y
<1> DEFINE T == {n - x : x \in S}
           R == OpToRel(<, Nat)
<1>1. T \subseteq Nat /\ T # {}
  <2>1. \A x \in S : n - x \in Nat
    OBVIOUS
  <2>2. PICK z \in S : TRUE
    OBVIOUS
  <2>3. n - z \in T
    OBVIOUS
  <2> QED
    BY <2>1, <2>3
<1>2. IsWellFoundedOn(R, Nat)
  BY NatLessThanWellFounded
<1>3. PICK d \in T : \A y \in T : ~ (<<y, d>> \in R)
  <2> HIDE DEF T, R
  <2> QED
    BY <1>1, <1>2, WFMin
<1>4. PICK m \in S : d = n - m
  OBVIOUS
<1>5. ASSUME NEW y \in S PROVE m >= y
  <2>1. n - y \in T /\ n - y \in Nat /\ d \in Nat
    OBVIOUS
  <2>2. ~ (n - y < d)
    BY <1>3, <2>1 DEF OpToRel
  <2> QED
    BY <1>4, <2>2
<1> QED
  BY <1>5

\* Core::canonical_chain: the newest stretch of the chain, within the limit.
LEMMA CanonicalRun ==
  ASSUME NEW c, NEW E, c.chain \in Seq(E), NEW limit \in SUBSET Nat, NEW since
  PROVE  \E s \in 0 .. Len(c.chain) :
           /\ CanonicalChain(c, limit, since) = SubSeq(c.chain, 1 + s, Len(c.chain))
           /\ \A l \in limit : Len(c.chain) - s <= l
<1> DEFINE n == Len(c.chain)
           old == {i \in 1 .. n : \E s \in since : c.chain[i].digest <= c.minted - s}
           stop == old \cup {n - l : l \in {l \in limit : l < n}} \cup {0}
<1>1. n \in Nat
  OBVIOUS
<1>2. stop \subseteq Nat /\ 0 \in stop /\ \A x \in stop : x <= n
  BY <1>1
<1>3. \A l \in limit : l < n => n - l \in stop
  OBVIOUS
<1>4. \E x \in stop : \A y \in stop : x >= y
  <2> HIDE DEF stop, n
  <2> QED
    BY <1>1, <1>2, Greatest
<1> DEFINE s == CHOOSE i \in stop : \A j \in stop : i >= j
<1>5. s \in stop /\ \A j \in stop : s >= j
  <2> HIDE DEF stop
  <2> QED
    BY <1>4
<1>6. CanonicalChain(c, limit, since) = SubSeq(c.chain, 1 + s, n)
  BY DEF CanonicalChain
<1> HIDE DEF s, stop, n
<1>7. s \in 0 .. n
  BY <1>1, <1>2, <1>5
<1>8. ASSUME NEW l \in limit PROVE n - s <= l
  BY <1>1, <1>3, <1>5, <1>7
<1> QED
  BY <1>6, <1>7, <1>8 DEF n

-----------------------------------------------------------------------------
(* Frames.                                                                 *)

\* Reader::poll_read, by what it can yield.
Yields(r, pipe, filled) ==
  \/ /\ r.is = "more" /\ pipe.frames # <<>> /\ r.filled \in Nat \ {0}
     /\ Whole(pipe.frames[1]) => r.filled < pipe.frames[1].bytes
  \/ r.is = "frame" /\ pipe.frames # <<>> /\ r.body = pipe.frames[1].body
  \/ r.is = "FrameTooLarge" /\ pipe.frames # <<>> /\ pipe.frames[1].len > MaxLen
  \/ /\ r.is = "Truncated" /\ pipe.shut /\ filled # 0
     /\ pipe.frames = <<>> \/ ~ (pipe.frames[1].bytes > filled)
  \/ r.is = "none" /\ pipe.shut /\ filled = 0 /\ pipe.frames = <<>>

LEMMA PollYields ==
  ASSUME NEW B, NEW pipe \in PipeType(B), NEW filled \in Nat, NEW r \in Poll(pipe, filled)
  PROVE  Yields(r, pipe, filled)
<1> USE DEF Yields
<1> DEFINE f == pipe.frames[1]
           upto == IF filled < PrefixLen THEN PrefixLen ELSE PrefixLen + f.len
           n == IF f.bytes < upto THEN f.bytes ELSE upto
<1>1. PrefixLen \in Nat \ {0} /\ MaxLen \in Nat \ {0}
  BY FrameAssumption
<1>2. pipe.frames \in Seq(FrameType(B)) /\ pipe.shut \in BOOLEAN
  BY DEF PipeType
<1>3. CASE pipe.frames # <<>> /\ f.bytes > filled
  <2>1. Head(pipe.frames) = f /\ f \in FrameType(B)
    BY <1>2, <1>3
  <2>2. f.len \in Nat \ {0} /\ f.bytes \in Nat \ {0}
    BY <2>1 DEF FrameType
  <2>3. n \in Nat \ {0} /\ n <= f.bytes /\ upto \in Nat \ {0}
    BY <1>1, <2>2
  <2>4. Poll(pipe, filled) =
          CASE n = PrefixLen /\ f.len > MaxLen -> {[is |-> "FrameTooLarge"]}
            [] n = PrefixLen + f.len           -> {[is |-> "frame", body |-> f.body]}
            [] OTHER                           -> {[is |-> "more", filled |-> n]}
    BY <1>3, <2>1 DEF Poll
  <2>5. n = PrefixLen => n # PrefixLen + f.len
    BY <1>1, <2>2
  <2>6. ASSUME n # PrefixLen + f.len, Whole(f) PROVE n < f.bytes
    BY <1>1, <2>2, <2>6 DEF Whole
  <2> HIDE DEF n, upto, f
  <2>7. CASE n = PrefixLen /\ f.len > MaxLen
    <3>1. Poll(pipe, filled) = {[is |-> "FrameTooLarge"]}
      BY <2>4, <2>5, <2>7
    <3>2. r = [is |-> "FrameTooLarge"]
      BY <3>1
    <3> QED
      BY <1>3, <2>7, <3>2 DEF f
  <2>8. CASE n = PrefixLen + f.len
    <3>1. ~ (n = PrefixLen /\ f.len > MaxLen)
      BY <2>5, <2>8
    <3>2. Poll(pipe, filled) = {[is |-> "frame", body |-> f.body]}
      BY <2>4, <2>8, <3>1
    <3>3. r = [is |-> "frame", body |-> f.body]
      BY <3>2
    <3> QED
      BY <1>3, <3>3 DEF f
  <2>9. CASE ~ (n = PrefixLen /\ f.len > MaxLen) /\ n # PrefixLen + f.len
    <3>1. r = [is |-> "more", filled |-> n]
      BY <2>4, <2>9
    <3> QED
      BY <1>3, <2>3, <2>6, <2>9, <3>1 DEF f
  <2> QED
    BY <2>7, <2>8, <2>9
<1>4. CASE ~ (pipe.frames # <<>> /\ f.bytes > filled)
  <2>1. pipe.frames # <<>> => Head(pipe.frames) = f /\ f \in FrameType(B)
    BY <1>2
  <2>2. pipe.frames # <<>> => f.bytes \in Nat \ {0}
    BY <2>1 DEF FrameType
  <2>3. Poll(pipe, filled) = IF ~pipe.shut THEN {}
                             ELSE IF filled > 0 THEN {[is |-> "Truncated"]}
                             ELSE {[is |-> "none"]}
    BY <1>4, <2>1 DEF Poll
  <2>4. pipe.shut
    BY <2>3
  <2> HIDE DEF f
  <2>5. CASE filled > 0
    <3>1. r = [is |-> "Truncated"]
      BY <2>3, <2>4, <2>5
    <3>2. r.is = "Truncated" /\ (pipe.frames = <<>> \/ ~ (f.bytes > filled))
      BY <1>4, <3>1
    <3> QED
      BY <2>4, <2>5, <3>2 DEF f
  <2>6. CASE ~ (filled > 0)
    <3>1. r = [is |-> "none"]
      BY <2>3, <2>4, <2>6
    <3>2. filled = 0
      BY <2>6
    <3>3. pipe.frames = <<>>
      BY <1>4, <2>2, <3>2
    <3> QED
      BY <2>4, <3>1, <3>2, <3>3
  <2> QED
    BY <2>5, <2>6
<1> QED
  BY <1>3, <1>4

\* What a sequence holds, from either end.
LEMMA AppendSet ==
  ASSUME NEW S, NEW s \in Seq(S), NEW e
  PROVE  ToSet(Append(s, e)) = ToSet(s) \cup {e}
<1> DEFINE t == Append(s, e)
<1>1. Len(t) = Len(s) + 1 /\ DOMAIN t = 1 .. Len(s) + 1 /\ DOMAIN s = 1 .. Len(s)
  OBVIOUS
<1>2. t[Len(s) + 1] = e /\ \A i \in 1 .. Len(s) : t[i] = s[i]
  OBVIOUS
<1>3. Len(s) \in Nat
  OBVIOUS
<1> HIDE DEF t
<1>4. \A x \in ToSet(t) : x \in ToSet(s) \cup {e}
  BY <1>1, <1>2, <1>3 DEF ToSet
<1>5. \A x \in ToSet(s) \cup {e} : x \in ToSet(t)
  BY <1>1, <1>2, <1>3 DEF ToSet
<1> QED
  BY <1>4, <1>5 DEF t

LEMMA TailFacts ==
  ASSUME NEW S, NEW s \in Seq(S), s # <<>>
  PROVE  /\ Len(s) \in Nat \ {0} /\ Tail(s) \in Seq(S) /\ Len(Tail(s)) = Len(s) - 1
         /\ Head(s) = s[1] /\ s[1] \in S /\ DOMAIN s = 1 .. Len(s)
         /\ DOMAIN Tail(s) = 1 .. Len(s) - 1
         /\ \A i \in 1 .. Len(s) - 1 : Tail(s)[i] = s[i + 1]
OBVIOUS

LEMMA TailSet ==
  ASSUME NEW S, NEW s \in Seq(S), s # <<>>
  PROVE  ToSet(s) = {s[1]} \cup ToSet(Tail(s))
<1> DEFINE t == Tail(s)
<1>1. /\ Len(s) \in Nat \ {0} /\ DOMAIN s = 1 .. Len(s)
      /\ DOMAIN t = 1 .. Len(s) - 1
      /\ \A i \in 1 .. Len(s) - 1 : t[i] = s[i + 1]
  BY TailFacts
<1> HIDE DEF t
<1>2. ASSUME NEW x \in ToSet(s) PROVE x \in {s[1]} \cup ToSet(t)
  <2>1. PICK i \in 1 .. Len(s) : x = s[i]
    BY <1>1 DEF ToSet
  <2>2. CASE i # 1
    <3>1. i - 1 \in 1 .. Len(s) - 1 /\ (i - 1) + 1 = i
      BY <1>1, <2>2
    <3>2. x = t[i - 1]
      BY <1>1, <2>1, <3>1
    <3> QED
      BY <1>1, <3>1, <3>2 DEF ToSet
  <2> QED
    BY <2>1, <2>2
<1>3. ASSUME NEW x \in {s[1]} \cup ToSet(t) PROVE x \in ToSet(s)
  BY <1>1 DEF ToSet
<1> QED
  BY <1>2, <1>3 DEF t

\* The same of frames and their bodies.
LEMMA BodiesAppend ==
  ASSUME NEW S, NEW s \in Seq(S), NEW f
  PROVE  Bodies(Append(s, f)) = Bodies(s) \cup {f.body}
<1>1. Bodies(Append(s, f)) = {e.body : e \in ToSet(Append(s, f))}
  BY DEF Bodies, ToSet
<1>2. Bodies(s) = {e.body : e \in ToSet(s)}
  BY DEF Bodies, ToSet
<1>3. ToSet(Append(s, f)) = ToSet(s) \cup {f}
  BY AppendSet
<1> QED
  BY <1>1, <1>2, <1>3

LEMMA BodiesTail ==
  ASSUME NEW S, NEW s \in Seq(S), s # <<>>
  PROVE  Bodies(s) = {s[1].body} \cup Bodies(Tail(s))
<1>1. Bodies(Tail(s)) = {e.body : e \in ToSet(Tail(s))}
  BY DEF Bodies, ToSet
<1>2. Bodies(s) = {e.body : e \in ToSet(s)}
  BY DEF Bodies, ToSet
<1>3. ToSet(s) = {s[1]} \cup ToSet(Tail(s))
  BY TailSet
<1> QED
  BY <1>1, <1>2, <1>3

-----------------------------------------------------------------------------
(* Steps that leave a connection alone.                                    *)

\* The types grow with what the core answers.
LEMMA Widen ==
  ASSUME NEW B, NEW E, NEW B2, NEW E2, B \subseteq B2, E \subseteq E2,
         \A e \in E2 : e.digest \in Nat, Typed(B, E)
  PROVE  Typed(B2, E2)
<1>1. Seq(B) \subseteq Seq(B2) /\ Seq(E) \subseteq Seq(E2)
  BY SeqMonotonic
<1>2. Seq(FrameType(B)) \subseteq Seq(FrameType(B2))
  <2>1. FrameType(B) \subseteq FrameType(B2)
    BY DEF FrameType
  <2> QED
    BY <2>1, SeqMonotonic
<1>3. CallType(B) \subseteq CallType(B2)
  BY <1>1 DEF CallType
<1>4. PipeType(B) \subseteq PipeType(B2)
  BY <1>2 DEF PipeType
<1>5. TaskType(B) \subseteq TaskType(B2)
  BY <1>1 DEF TaskType
<1>6. SeenType(B) \subseteq SeenType(B2)
  BY <1>1 DEF SeenType
<1>7. SubType(B) \subseteq SubType(B2)
  BY <1>1 DEF SubType
<1>8. CoreType(E) \subseteq CoreType(E2)
  BY <1>1 DEF CoreType
<1> QED
  BY <1>3, <1>4, <1>5, <1>6, <1>7, <1>8 DEF Typed

\* What a step does to a connection it does not concern: at most a movement
\* is published to its subscription.
Still(c) ==
  /\ call'[c] = call[c] /\ up'[c] = up[c] /\ down'[c] = down[c] /\ task'[c] = task[c]
  /\ seen'[c] = seen[c] /\ (Queued(c)' => Queued(c)) /\ subs'[c].live = subs[c].live
  /\ \/ subs'[c].pending = subs[c].pending
     \/ subs[c].live /\ \A b \in ToSet(subs'[c].pending) : b.is = "Watch"

LEMMA StillConn ==
  ASSUME NEW c \in Conns, Still(c), daemon' = daemon, ConnOk(c)
  PROVE  ConnOk(c)'
<1> USE DEF Still
<1>1. Sent(c)' = Sent(c)
  BY DEF Sent
<1>2. Asks(c)'
  BY DEF ConnOk, Asks, Whole
<1>3. Works(c)'
  BY DEF ConnOk, Works
<1>4. Answers(c)'
  <2> HIDE DEF Sent
  <2> QED
    BY <1>1 DEF ConnOk, Answers, Whole
<1>a. Outcome(c)'
  BY DEF ConnOk, Outcome
<1>5. Wrote(c)'
  BY <1>1 DEF ConnOk, Wrote
<1>6. Waits(c)'
  BY DEF ConnOk, Waits
<1> QED
  BY <1>2, <1>3, <1>4, <1>a, <1>5, <1>6 DEF ConnOk

\* What a request is never changes.
LEMMA StillQueue ==
  ASSUME NEW B, NEW E, Typed(B, E), QueueOk, queue' = queue, daemon' = daemon,
         \A c \in Conns : call'[c].asked = call[c].asked
  PROVE  QueueOk'
<1>1. queue \in Seq(MsgType)
  BY DEF Typed
<1>2. \A i \in DOMAIN queue : queue[i] \in MsgType
  BY <1>1
<1>3. \A i \in DOMAIN queue : queue[i].conn \in Conns
  BY <1>2 DEF MsgType
<1> QED
  BY <1>3 DEF QueueOk

\* A step at one connection.
LEMMA LocalStep ==
  ASSUME NEW B, NEW E, CallInv(B, E), NEW c \in Conns, daemon' = daemon,
         \A x \in Conns \ {c} : Still(x), Typed(B, E)', QueueOk', ConnOk(c)'
  PROVE  CallInv(B, E)'
<1>1. ASSUME NEW x \in Conns, x # c PROVE ConnOk(x)'
  BY <1>1, StillConn DEF CallInv
<1> QED
  BY <1>1 DEF CallInv

\* A function changed at one point.
Kept(f, g, c) == \A x \in Conns \ {c} : g[x] = f[x]

LEMMA Update ==
  ASSUME NEW T, NEW f \in [Conns -> T], NEW c \in Conns, NEW v \in T, NEW g,
         g = [f EXCEPT ![c] = v]
  PROVE  g \in [Conns -> T] /\ g[c] = v /\ Kept(f, g, c)
BY DEF Kept

\* A frame written, a frame read, and the end of the stream.
LEMMA PushedPipe ==
  ASSUME NEW B, NEW pipe \in PipeType(B), NEW f \in FrameType(B)
  PROVE  /\ Pushed(pipe, f) \in PipeType(B)
         /\ Pushed(pipe, f).frames = Append(pipe.frames, f)
         /\ Pushed(pipe, f).shut = pipe.shut
<1>1. Append(pipe.frames, f) \in Seq(FrameType(B))
  BY DEF PipeType
<1> QED
  BY <1>1 DEF PipeType, Pushed

LEMMA PoppedPipe ==
  ASSUME NEW B, NEW pipe \in PipeType(B), pipe.frames # <<>>
  PROVE  /\ Popped(pipe) \in PipeType(B)
         /\ Popped(pipe).frames = Tail(pipe.frames) /\ Popped(pipe).shut = pipe.shut
<1>1. Tail(pipe.frames) \in Seq(FrameType(B))
  BY DEF PipeType
<1> QED
  BY <1>1 DEF PipeType, Popped

LEMMA ShutPipe ==
  ASSUME NEW B, NEW pipe \in PipeType(B)
  PROVE  /\ Shut(pipe) \in PipeType(B)
         /\ Shut(pipe).frames = pipe.frames /\ Shut(pipe).shut
BY DEF PipeType, Shut

\* The client's side after a step.
Becomes(B, c, at, filled, got, end) ==
  /\ call' \in [Conns -> CallType(B)] /\ Kept(call, call', c)
  /\ call'[c].at = at /\ call'[c].asked = call[c].asked /\ call'[c].filled = filled
  /\ call'[c].got = got /\ call'[c].end = end
  /\ \A x \in Conns : call'[x].asked = call[x].asked

\* The forms the client's steps are written in.
LEMMA AskingStep ==
  ASSUME NEW B, call \in [Conns -> CallType(B)], NEW c \in Conns,
         NEW at \in {"idle", "open", "ended"}, NEW end \in Outcomes, Asking(c, at, end)
  PROVE  Becomes(B, c, at, call[c].filled, call[c].got, end)
<1> DEFINE v == [call[c] EXCEPT !.at = at, !.end = end]
<1>1. call[c] \in CallType(B)
  OBVIOUS
<1>2. v \in CallType(B)
  BY <1>1 DEF CallType
<1>3. /\ v.asked = call[c].asked /\ v.at = at /\ v.filled = call[c].filled
      /\ v.got = call[c].got /\ v.end = end
  BY <1>1 DEF CallType
<1>4. call' = [call EXCEPT ![c] = v]
  BY DEF Asking, Ends
<1> HIDE DEF v
<1>5. call' \in [Conns -> CallType(B)] /\ call'[c] = v /\ Kept(call, call', c)
  BY <1>2, <1>4, Update
<1> QED
  BY <1>3, <1>5 DEF Kept, Becomes

LEMMA EndsStep ==
  ASSUME NEW B, call \in [Conns -> CallType(B)], NEW c \in Conns,
         NEW end \in Outcomes, NEW got \in Seq(B), Ends(c, end, got)
  PROVE  Becomes(B, c, "ended", 0, got, end)
<1> DEFINE v == [call[c] EXCEPT !.at = "ended", !.end = end, !.got = got, !.filled = 0]
<1>1. call[c] \in CallType(B)
  OBVIOUS
<1>2. v \in CallType(B)
  BY <1>1 DEF CallType
<1>3. /\ v.asked = call[c].asked /\ v.at = "ended" /\ v.filled = 0
      /\ v.got = got /\ v.end = end
  BY <1>1 DEF CallType
<1>4. call' = [call EXCEPT ![c] = v]
  BY DEF Asking, Ends
<1> HIDE DEF v
<1>5. call' \in [Conns -> CallType(B)] /\ call'[c] = v /\ Kept(call, call', c)
  BY <1>2, <1>4, Update
<1> QED
  BY <1>3, <1>5 DEF Kept, Becomes

LEMMA FilledStep ==
  ASSUME NEW B, call \in [Conns -> CallType(B)], NEW c \in Conns,
         NEW filled \in Nat, call' = [call EXCEPT ![c].filled = filled]
  PROVE  Becomes(B, c, call[c].at, filled, call[c].got, call[c].end)
<1> DEFINE v == [call[c] EXCEPT !.filled = filled]
<1>1. call[c] \in CallType(B)
  OBVIOUS
<1>2. v \in CallType(B)
  BY <1>1 DEF CallType
<1>3. /\ v.asked = call[c].asked /\ v.at = call[c].at /\ v.filled = filled
      /\ v.got = call[c].got /\ v.end = call[c].end
  BY <1>1 DEF CallType
<1>4. call' = [call EXCEPT ![c] = v]
  BY DEF Asking, Ends
<1> HIDE DEF v
<1>5. call' \in [Conns -> CallType(B)] /\ call'[c] = v /\ Kept(call, call', c)
  BY <1>2, <1>4, Update
<1> QED
  BY <1>3, <1>5 DEF Kept, Becomes

LEMMA GotStep ==
  ASSUME NEW B, call \in [Conns -> CallType(B)], NEW c \in Conns,
         NEW got \in Seq(B), call' = [call EXCEPT ![c].got = got, ![c].filled = 0]
  PROVE  Becomes(B, c, call[c].at, 0, got, call[c].end)
<1> DEFINE v == [call[c] EXCEPT !.got = got, !.filled = 0]
<1>1. call[c] \in CallType(B)
  OBVIOUS
<1>2. v \in CallType(B)
  BY <1>1 DEF CallType
<1>3. /\ v.asked = call[c].asked /\ v.at = call[c].at /\ v.filled = 0
      /\ v.got = got /\ v.end = call[c].end
  BY <1>1 DEF CallType
<1>4. call' = [call EXCEPT ![c] = v]
  BY DEF Asking, Ends
<1> HIDE DEF v
<1>5. call' \in [Conns -> CallType(B)] /\ call'[c] = v /\ Kept(call, call', c)
  BY <1>2, <1>4, Update
<1> QED
  BY <1>3, <1>5 DEF Kept, Becomes

\* What the invariant says of one connection, its fields one by one.
LEMMA ConnFacts ==
  ASSUME NEW B, NEW E, CallInv(B, E), NEW c \in Conns
  PROVE  /\ Typed(B, E) /\ QueueOk
         /\ Asks(c) /\ Works(c) /\ Answers(c) /\ Outcome(c) /\ Wrote(c) /\ Waits(c)
         /\ call \in [Conns -> CallType(B)] /\ up \in [Conns -> PipeType(Asked)]
         /\ down \in [Conns -> PipeType(B)] /\ task \in [Conns -> TaskType(B)]
         /\ subs \in [Conns -> SubType(B)] /\ seen \in [Conns -> SeenType(B)]
         /\ up[c] \in PipeType(Asked) /\ down[c] \in PipeType(B) /\ task[c] \in TaskType(B)
         /\ call[c].asked \in Asked /\ call[c].filled \in Nat /\ call[c].got \in Seq(B)
         /\ call[c].at \in {"idle", "open", "ended"}
         /\ up[c].frames \in Seq(FrameType(Asked)) /\ up[c].shut \in BOOLEAN
         /\ down[c].frames \in Seq(FrameType(B)) /\ down[c].shut \in BOOLEAN
         /\ task[c].filled \in Nat /\ task[c].out \in Seq(B)
         /\ daemon \in {"up", "down", "exited"}
<1>1. Typed(B, E) /\ QueueOk /\ ConnOk(c)
  BY DEF CallInv
<1>2. /\ call \in [Conns -> CallType(B)] /\ up \in [Conns -> PipeType(Asked)]
      /\ down \in [Conns -> PipeType(B)] /\ task \in [Conns -> TaskType(B)]
      /\ subs \in [Conns -> SubType(B)] /\ seen \in [Conns -> SeenType(B)]
      /\ daemon \in {"up", "down", "exited"}
  BY <1>1 DEF Typed
<1>3. call[c] \in CallType(B) /\ up[c] \in PipeType(Asked) /\ down[c] \in PipeType(B)
      /\ task[c] \in TaskType(B)
  BY <1>2
<1>4. /\ call[c].asked \in Asked /\ call[c].filled \in Nat /\ call[c].got \in Seq(B)
      /\ call[c].at \in {"idle", "open", "ended"}
  BY <1>3 DEF CallType
<1>5. /\ up[c].frames \in Seq(FrameType(Asked)) /\ up[c].shut \in BOOLEAN
      /\ down[c].frames \in Seq(FrameType(B)) /\ down[c].shut \in BOOLEAN
  BY <1>3 DEF PipeType
<1>6. task[c].filled \in Nat /\ task[c].out \in Seq(B)
  BY <1>3 DEF TaskType
<1> QED
  BY <1>1, <1>2, <1>3, <1>4, <1>5, <1>6 DEF ConnOk

\* The call is over, and its end of the pipe with it.
LEMMA EndsPipe ==
  ASSUME up \in [Conns -> PipeType(Asked)], NEW c \in Conns,
         up' = [up EXCEPT ![c] = Shut(@)]
  PROVE  /\ up' \in [Conns -> PipeType(Asked)] /\ Kept(up, up', c)
         /\ up'[c].frames = up[c].frames /\ up'[c].shut
<1> DEFINE p == Shut(up[c])
<1>1. p \in PipeType(Asked) /\ p.frames = up[c].frames /\ p.shut
  BY ShutPipe
<1>2. up' = [up EXCEPT ![c] = p]
  OBVIOUS
<1> HIDE DEF p
<1>3. up' \in [Conns -> PipeType(Asked)] /\ up'[c] = p /\ Kept(up, up', c)
  BY <1>1, <1>2, Update
<1> QED
  BY <1>1, <1>3

-----------------------------------------------------------------------------
(* The client's steps.                                                     *)

LEMMA ConnectCall ==
  ASSUME NEW B, NEW E, CallInv(B, E), NEW c \in Conns, Connect(c)
  PROVE  CallInv(B, E)'
<1> DEFINE q == call[c].asked
<1>1. UNCHANGED <<down, task, queue, subs, core, daemon, seen>>
  BY DEF Connect
<1>2. Typed(B, E) /\ QueueOk /\ Asks(c) /\ Works(c) /\ Answers(c) /\ Outcome(c) /\ Wrote(c) /\ Waits(c)
  BY DEF CallInv, ConnOk
<1>3. call \in [Conns -> CallType(B)] /\ up \in [Conns -> PipeType(Asked)]
      /\ up[c] \in PipeType(Asked)
  BY <1>2 DEF Typed
<1>4. call[c].at = "idle" /\ daemon = "up"
  BY DEF Connect
<1>5. /\ up[c].frames = <<>> /\ ~up[c].shut /\ task[c].at = "none" /\ task[c].filled = 0
      /\ seen[c].wrote = <<>> /\ call[c].filled = 0
  BY <1>2, <1>4 DEF Asks, Works
<1>6. Queued(c)' <=> Queued(c)
  BY <1>1 DEF Queued
<1>7. q \in Asked
  BY <1>3 DEF CallType
<1>8. CASE Sendable(q)
  <2>1. PICK len \in IF q = Unknown THEN {1, MaxLen + 1} ELSE {BodyLen(q)} :
          up' = [up EXCEPT ![c] = Pushed(@, FrameOf(q, len))]
    BY <1>8 DEF Connect
  <2>2. len \in Nat \ {0} /\ (len <= MaxLen \/ q = Unknown)
    BY <1>8, <2>1, FrameAssumption DEF Sendable
  <2>3. Becomes(B, c, "open", call[c].filled, call[c].got, "")
    <3>1. Asking(c, "open", "")
      BY <1>8 DEF Connect
    <3> QED
      BY <1>3, <3>1, AskingStep DEF Outcomes
  <2> DEFINE f == FrameOf(q, len)
  <2>4. f \in FrameType(Asked) /\ f.body = q /\ f.len = len /\ Whole(f) /\ f.bytes > 0
    BY <1>7, <2>2, FrameAssumption DEF FrameType, FrameOf, Whole
  <2> HIDE DEF f
  <2> DEFINE p == Pushed(up[c], f)
  <2>5. p \in PipeType(Asked) /\ p.frames = Append(<<>>, f) /\ ~p.shut
    <3>1. p \in PipeType(Asked) /\ p.frames = Append(up[c].frames, f) /\ p.shut = up[c].shut
      BY <1>3, <2>4, PushedPipe
    <3> QED
      BY <1>5, <3>1
  <2>6. p.frames # <<>> /\ Len(p.frames) = 1 /\ p.frames[1] = f
    BY <2>5
  <2> HIDE DEF p
  <2>a. up' = [up EXCEPT ![c] = p]
    BY <1>3, <2>1 DEF f, p
  <2>7. up' \in [Conns -> PipeType(Asked)] /\ Kept(up, up', c) /\ up'[c] = p
    BY <1>3, <2>5, <2>a, Update
  <2>8. Typed(B, E)' /\ QueueOk'
    BY <1>1, <1>2, <2>3, <2>7, StillQueue DEF Typed, Becomes
  <2>9. Sent(c)' = Sent(c)
    BY <1>1, <2>3 DEF Sent, Becomes
  <2>10. Asks(c)'
    BY <1>1, <1>4, <1>5, <2>2, <2>3, <2>4, <2>5, <2>6, <2>7 DEF Asks, Becomes
  <2>11. Works(c)' /\ Waits(c)'
    BY <1>1, <1>2, <1>5, <1>6, <2>3 DEF Works, Waits, Becomes
  <2>c. call'[c].filled = 0
    BY <1>5, <2>3 DEF Becomes
  <2>12. Answers(c)'
    BY <1>1, <1>2, <1>5, <2>3, <2>9, <2>c DEF Answers, Becomes
  <2>b. Outcome(c)'
    BY <1>1, <1>5, <2>3 DEF Outcome, Becomes
  <2>13. Wrote(c)'
    BY <1>1, <1>2, <1>5, <1>6, <2>3, <2>9 DEF Wrote, Becomes
  <2>14. \A x \in Conns \ {c} : Still(x)
    BY <1>1, <2>3, <2>7 DEF Still, Kept, Becomes, Queued
  <2> QED
    BY <1>1, <2>8, <2>10, <2>11, <2>12, <2>b, <2>13, <2>14, LocalStep DEF ConnOk
<1>9. CASE ~Sendable(q)
  <2>1. Becomes(B, c, "ended", call[c].filled, call[c].got, "FrameTooLarge")
    <3>1. Asking(c, "ended", "FrameTooLarge")
      BY <1>9 DEF Connect
    <3> QED
      BY <1>3, <3>1, AskingStep DEF Outcomes
  <2>2. up' = [up EXCEPT ![c] = Shut(up[c])]
    BY <1>3, <1>9 DEF Connect
  <2>3. up' \in [Conns -> PipeType(Asked)] /\ Kept(up, up', c) /\ up'[c].frames = <<>>
    <3> DEFINE p == Shut(up[c])
    <3>1. p \in PipeType(Asked) /\ p.frames = <<>>
      BY <1>3, <1>5, ShutPipe
    <3>2. up' = [up EXCEPT ![c] = p]
      BY <2>2
    <3> HIDE DEF p
    <3> QED
      BY <1>3, <3>1, <3>2, Update
  <2>4. Typed(B, E)' /\ QueueOk'
    BY <1>1, <1>2, <2>1, <2>3, StillQueue DEF Typed, Becomes
  <2>5. Sent(c)' = Sent(c)
    BY <1>1, <2>1 DEF Sent, Becomes
  <2>6. Asks(c)'
    BY <1>1, <1>5, <2>1, <2>3 DEF Asks, Becomes
  <2>7. Works(c)' /\ Waits(c)'
    BY <1>1, <1>2, <1>5, <1>6, <2>1 DEF Works, Waits, Becomes
  <2>8. Answers(c)' /\ Outcome(c)'
    BY <1>1, <1>2, <1>5, <2>1, <2>5 DEF Answers, Outcome, Becomes, Whole
  <2>9. Wrote(c)'
    BY <1>1, <1>2, <1>5, <1>6, <2>1, <2>3, <2>5 DEF Wrote, Becomes
  <2>10. \A x \in Conns \ {c} : Still(x)
    BY <1>1, <2>1, <2>3 DEF Still, Kept, Becomes, Queued
  <2> QED
    BY <1>1, <2>4, <2>6, <2>7, <2>8, <2>9, <2>10, LocalStep DEF ConnOk
<1> QED
  BY <1>8, <1>9

LEMMA ConnectCutCall ==
  ASSUME NEW B, NEW E, CallInv(B, E), NEW c \in Conns, ConnectCut(c)
  PROVE  CallInv(B, E)'
<1> DEFINE q == call[c].asked
<1>1. UNCHANGED <<down, task, queue, subs, core, daemon, seen>>
  BY DEF ConnectCut
<1>2. Typed(B, E) /\ QueueOk /\ Asks(c) /\ Works(c) /\ Answers(c) /\ Outcome(c) /\ Wrote(c)
      /\ Waits(c) /\ call \in [Conns -> CallType(B)] /\ up \in [Conns -> PipeType(Asked)]
      /\ up[c] \in PipeType(Asked) /\ q \in Asked
  BY ConnFacts
<1>3. call[c].at = "idle" /\ daemon = "up" /\ Sendable(q)
  BY DEF ConnectCut
<1>4. /\ up[c].frames = <<>> /\ task[c].at = "none" /\ seen[c].wrote = <<>>
  BY <1>2, <1>3 DEF Asks
<1>5. Queued(c)' <=> Queued(c)
  BY <1>1 DEF Queued
<1>6. PICK k \in 1 .. PrefixLen :
        up' = [up EXCEPT ![c] = Shut(Pushed(@, [FrameOf(q, BodyLen(q)) EXCEPT !.bytes = k]))]
  BY DEF ConnectCut
<1> DEFINE f == [FrameOf(q, BodyLen(q)) EXCEPT !.bytes = k]
           p == Shut(Pushed(up[c], f))
<1>7. f \in FrameType(Asked) /\ f.body = q
  <2>1. BodyLen(q) \in Nat \ {0}
    BY <1>3, FrameAssumption DEF Sendable
  <2>2. k \in Nat \ {0}
    BY FrameAssumption
  <2> QED
    BY <1>2, <2>1, <2>2, FrameAssumption DEF FrameType, FrameOf
<1> HIDE DEF f
<1>8. p \in PipeType(Asked) /\ p.frames = Append(<<>>, f)
  <2>1. Pushed(up[c], f) \in PipeType(Asked) /\ Pushed(up[c], f).frames = Append(up[c].frames, f)
    BY <1>2, <1>7, PushedPipe
  <2>2. p \in PipeType(Asked) /\ p.frames = Pushed(up[c], f).frames
    BY <2>1, ShutPipe
  <2> QED
    BY <1>4, <2>1, <2>2
<1>9. Len(p.frames) = 1 /\ p.frames[1] = f
  BY <1>8
<1>10. up' = [up EXCEPT ![c] = p]
  BY <1>2, <1>6 DEF f
<1> HIDE DEF p
<1>11. up' \in [Conns -> PipeType(Asked)] /\ Kept(up, up', c) /\ up'[c] = p
  BY <1>2, <1>8, <1>10, Update
<1>12. Becomes(B, c, "ended", call[c].filled, call[c].got, "Dropped")
  <2>1. Asking(c, "ended", "Dropped")
    BY DEF ConnectCut
  <2> QED
    BY <1>2, <2>1, AskingStep DEF Outcomes
<1>13. Typed(B, E)' /\ QueueOk'
  BY <1>1, <1>2, <1>11, <1>12, StillQueue DEF Typed, Becomes
<1>14. Sent(c)' = Sent(c)
  BY <1>1, <1>12 DEF Sent, Becomes
<1>15. Asks(c)'
  BY <1>1, <1>4, <1>7, <1>9, <1>11, <1>12 DEF Asks, Becomes
<1>16. Works(c)' /\ Waits(c)'
  BY <1>1, <1>2, <1>4, <1>5, <1>12 DEF Works, Waits, Becomes
<1>17. Answers(c)'
  BY <1>1, <1>2, <1>4, <1>12, <1>14 DEF Answers, Becomes
<1>18. Outcome(c)'
  BY <1>1, <1>4, <1>12 DEF Outcome, Becomes
<1>19. Wrote(c)'
  BY <1>1, <1>2, <1>4, <1>5, <1>12, <1>14 DEF Wrote, Becomes
<1>20. \A x \in Conns \ {c} : Still(x)
  BY <1>1, <1>11, <1>12 DEF Still, Kept, Becomes, Queued
<1> QED
  BY <1>1, <1>13, <1>15, <1>16, <1>17, <1>18, <1>19, <1>20, LocalStep DEF ConnOk

LEMMA ConnectFailsCall ==
  ASSUME NEW B, NEW E, CallInv(B, E), NEW c \in Conns, ConnectFails(c)
  PROVE  CallInv(B, E)'
<1>1. UNCHANGED <<up, down, task, queue, subs, core, daemon, seen>>
  BY DEF ConnectFails
<1>2. Typed(B, E) /\ QueueOk /\ Asks(c) /\ Works(c) /\ Answers(c) /\ Outcome(c) /\ Wrote(c)
      /\ Waits(c) /\ call \in [Conns -> CallType(B)]
  BY ConnFacts
<1>3. call[c].at = "idle" /\ daemon # "up"
  BY DEF ConnectFails
<1>4. /\ up[c].frames = <<>> /\ task[c].at \in {"none", "ended"} /\ seen[c].wrote = <<>>
      /\ call[c].end = ""
  BY <1>2, <1>3 DEF Asks
<1>5. Queued(c)' <=> Queued(c)
  BY <1>1 DEF Queued
<1>6. Becomes(B, c, "ended", call[c].filled, call[c].got, "Connect")
  <2>1. Asking(c, "ended", "Connect")
    BY DEF ConnectFails
  <2> QED
    BY <1>2, <2>1, AskingStep DEF Outcomes
<1>7. Typed(B, E)' /\ QueueOk'
  BY <1>1, <1>2, <1>6, StillQueue DEF Typed, Becomes
<1>8. Sent(c)' = Sent(c)
  BY <1>1, <1>6 DEF Sent, Becomes
<1>9. Asks(c)'
  BY <1>1, <1>4, <1>6 DEF Asks, Becomes
<1>10. Works(c)' /\ Waits(c)'
  BY <1>1, <1>2, <1>3, <1>4, <1>5, <1>6 DEF Works, Waits, Becomes
<1>11. Answers(c)'
  BY <1>1, <1>2, <1>6, <1>8 DEF Answers, Becomes
<1>12. Outcome(c)'
  BY <1>1, <1>6 DEF Outcome, Becomes
<1>13. Wrote(c)'
  BY <1>1, <1>2, <1>4, <1>5, <1>6, <1>8 DEF Wrote, Becomes
<1>14. \A x \in Conns \ {c} : Still(x)
  BY <1>1, <1>6 DEF Still, Kept, Becomes, Queued
<1> QED
  BY <1>1, <1>7, <1>9, <1>10, <1>11, <1>12, <1>13, <1>14, LocalStep DEF ConnOk

LEMMA HangUpCall ==
  ASSUME NEW B, NEW E, CallInv(B, E), NEW c \in Conns, HangUp(c)
  PROVE  CallInv(B, E)'
<1>1. UNCHANGED <<down, task, queue, subs, core, daemon, seen>>
  BY DEF HangUp
<1>2. Typed(B, E) /\ QueueOk /\ Asks(c) /\ Works(c) /\ Answers(c) /\ Outcome(c) /\ Wrote(c)
      /\ Waits(c) /\ call \in [Conns -> CallType(B)] /\ up \in [Conns -> PipeType(Asked)]
  BY ConnFacts
<1>3. call[c].at = "open" /\ Ends(c, "Dropped", <<>>)
  BY DEF HangUp
<1>4. Queued(c)' <=> Queued(c)
  BY <1>1 DEF Queued
<1>5. Becomes(B, c, "ended", 0, <<>>, "Dropped")
  <2> DEFINE none == <<>>
  <2>1. none \in Seq(B) /\ Ends(c, "Dropped", none)
    BY <1>3
  <2> HIDE DEF none
  <2>2. Becomes(B, c, "ended", 0, none, "Dropped")
    BY <1>2, <2>1, EndsStep DEF Outcomes
  <2> QED
    BY <2>2 DEF none
<1>6. /\ up' \in [Conns -> PipeType(Asked)] /\ Kept(up, up', c)
      /\ up'[c].frames = up[c].frames /\ up'[c].shut
  BY <1>2, <1>3, EndsPipe DEF Ends
<1>7. Typed(B, E)' /\ QueueOk'
  BY <1>1, <1>2, <1>5, <1>6, StillQueue DEF Typed, Becomes
<1>8. Sent(c)' \subseteq Sent(c)
  BY <1>1, <1>5 DEF Sent, Becomes, ToSet
<1>9. Asks(c)'
  BY <1>1, <1>2, <1>5, <1>6 DEF Asks, Becomes
<1>10. Works(c)' /\ Waits(c)'
  BY <1>1, <1>2, <1>3, <1>4, <1>5 DEF Works, Waits, Becomes
<1>11. Answers(c)'
  BY <1>1, <1>2, <1>5, <1>8 DEF Answers, Becomes
<1>12. Outcome(c)'
  BY <1>1, <1>5 DEF Outcome, Becomes
<1>13. Wrote(c)'
  BY <1>1, <1>2, <1>4, <1>5, <1>8 DEF Wrote, Becomes
<1>14. \A x \in Conns \ {c} : Still(x)
  BY <1>1, <1>5, <1>6 DEF Still, Kept, Becomes, Queued
<1> QED
  BY <1>1, <1>7, <1>9, <1>10, <1>11, <1>12, <1>13, <1>14, LocalStep DEF ConnOk

\* A read of the answer: an answer in part, a whole one, or the stream's end.
LEMMA ClientPollsCall ==
  ASSUME NEW B, NEW E, CallInv(B, E), NEW c \in Conns, ClientPolls(c)
  PROVE  CallInv(B, E)'
<1> DEFINE q == call[c].asked
<1>1. UNCHANGED <<task, queue, subs, core, daemon, seen>>
  BY DEF ClientPolls
<1>2. /\ Typed(B, E) /\ QueueOk /\ Asks(c) /\ Works(c) /\ Answers(c) /\ Outcome(c) /\ Wrote(c)
      /\ Waits(c) /\ call \in [Conns -> CallType(B)] /\ up \in [Conns -> PipeType(Asked)]
      /\ down \in [Conns -> PipeType(B)] /\ down[c] \in PipeType(B)
      /\ call[c].filled \in Nat /\ call[c].got \in Seq(B) /\ down[c].frames \in Seq(FrameType(B))
  BY ConnFacts
<1>3. call[c].at = "open" /\ call[c].end = ""
  BY <1>2 DEF ClientPolls, Asks
<1>4. Queued(c)' <=> Queued(c)
  BY <1>1 DEF Queued
<1>5. PICK r \in Poll(down[c], call[c].filled) :
        \/ /\ r.is = "more"
           /\ call' = [call EXCEPT ![c].filled = r.filled]
           /\ UNCHANGED <<up, down>>
        \/ /\ r.is = "frame"
           /\ Response(c, r.body)
           /\ down' = [down EXCEPT ![c] = Popped(@)]
        \/ /\ r.is \notin {"more", "frame"}
           /\ Ends(c, Closed(c, r.is), call[c].got)
           /\ UNCHANGED down
  BY DEF ClientPolls
<1>6. Yields(r, down[c], call[c].filled)
  BY <1>2, PollYields
<1>7. CASE r.is = "more"
  <2>1. down[c].frames # <<>> /\ r.filled \in Nat \ {0}
        /\ (Whole(down[c].frames[1]) => r.filled < down[c].frames[1].bytes)
    BY <1>6, <1>7 DEF Yields
  <2>2. call' = [call EXCEPT ![c].filled = r.filled] /\ UNCHANGED <<up, down>>
    BY <1>5, <1>7
  <2>3. Becomes(B, c, "open", r.filled, call[c].got, "")
    BY <1>2, <1>3, <2>1, <2>2, FilledStep
  <2>4. Typed(B, E)' /\ QueueOk'
    BY <1>1, <1>2, <2>2, <2>3, StillQueue DEF Typed, Becomes
  <2>5. Sent(c)' = Sent(c)
    BY <1>1, <2>2, <2>3 DEF Sent, Becomes
  <2>6. Asks(c)'
    BY <1>1, <1>2, <1>3, <2>2, <2>3 DEF Asks, Becomes
  <2>7. Works(c)' /\ Waits(c)'
    BY <1>1, <1>2, <1>3, <1>4, <2>2, <2>3 DEF Works, Waits, Becomes
  <2>8. Answers(c)'
    BY <1>1, <1>2, <2>1, <2>2, <2>3, <2>5 DEF Answers, Becomes
  <2>9. Outcome(c)'
    BY <1>1, <1>2, <1>3, <2>2, <2>3 DEF Outcome, Becomes
  <2>10. Wrote(c)'
    BY <1>1, <1>2, <1>3, <1>4, <2>2, <2>3, <2>5 DEF Wrote, Becomes
  <2>11. \A x \in Conns \ {c} : Still(x)
    BY <1>1, <2>2, <2>3 DEF Still, Kept, Becomes, Queued
  <2> QED
    BY <1>1, <2>4, <2>6, <2>7, <2>8, <2>9, <2>10, <2>11, LocalStep DEF ConnOk
<1>8. CASE r.is = "frame"
  <2> DEFINE b == r.body
             got == Append(call[c].got, b)
             p == Popped(down[c])
  <2>1. down[c].frames # <<>> /\ b = down[c].frames[1].body
    BY <1>6, <1>8 DEF Yields
  <2>2. Response(c, b) /\ down' = [down EXCEPT ![c] = Popped(@)]
    BY <1>5, <1>8
  <2>3. p \in PipeType(B) /\ p.frames = Tail(down[c].frames) /\ p.shut = down[c].shut
    BY <1>2, <2>1, PoppedPipe
  <2>4. down' = [down EXCEPT ![c] = p]
    BY <1>2, <2>2
  <2> HIDE DEF p, b
  <2>5. down' \in [Conns -> PipeType(B)] /\ Kept(down, down', c) /\ down'[c] = p
    BY <1>2, <2>3, <2>4, Update
  <2>6. b \in B /\ got \in Seq(B)
    <3>1. down[c].frames[1] \in FrameType(B)
      BY <1>2, <2>1, TailFacts
    <3>2. b \in B
      BY <2>1, <3>1 DEF FrameType
    <3> QED
      BY <1>2, <3>2
  <2>7. b \in Sent(c)
    BY <1>2, <2>1, BodiesTail DEF Sent
  <2>8. b.is \in {"Failed", Variant(q)}
    BY <1>2, <2>7 DEF Answers
  <2>9. /\ task[c].at \notin {"none", "reading", "asking", "waiting"} /\ ~Queued(c)
    BY <1>2, <2>1 DEF Answers, Waits
  <2>10. got # <<>> /\ Last(got) = b
    BY <1>2, <2>6 DEF Last
  <2>11. ToSet(got) = ToSet(call[c].got) \cup {b}
    BY <1>2, AppendSet
  <2>12. Bodies(down[c].frames) = {b} \cup Bodies(p.frames)
    BY <1>2, <2>1, <2>3, BodiesTail
  <2> HIDE DEF got
  <2>13. \A i \in DOMAIN p.frames : p.frames[i] \in ToSet(down[c].frames)
    BY <1>2, <2>1, <2>3, TailSet DEF ToSet
  <2>14. \A i \in DOMAIN p.frames :
           p.frames[i].len <= MaxLen /\ (Whole(p.frames[i]) \/ daemon = "exited")
    BY <1>2, <2>13 DEF Answers, ToSet
  <2>15. down'[c].shut = down[c].shut /\ down'[c].frames = p.frames
    BY <2>3, <2>5
  <2>16. ASSUME NEW end \in {"Failed", "Ok"}, Ends(c, end, got),
                end = "Failed" <=> b.is = "Failed"
         PROVE  CallInv(B, E)'
    <3>1. Becomes(B, c, "ended", 0, got, end)
      BY <1>2, <2>6, <2>16, EndsStep DEF Outcomes
    <3>2. /\ up' \in [Conns -> PipeType(Asked)] /\ Kept(up, up', c)
          /\ up'[c].frames = up[c].frames /\ up'[c].shut
      BY <1>2, <2>16, EndsPipe DEF Ends
    <3>3. Typed(B, E)' /\ QueueOk'
      BY <1>1, <1>2, <2>5, <3>1, <3>2, StillQueue DEF Typed, Becomes
    <3>4. Sent(c)' = Sent(c)
      BY <1>1, <2>11, <2>12, <2>15, <3>1 DEF Sent, Becomes
    <3>5. Asks(c)'
      BY <1>1, <1>2, <3>1, <3>2 DEF Asks, Becomes
    <3>6. Works(c)' /\ Waits(c)'
      BY <1>1, <1>2, <1>4, <2>9, <3>1 DEF Works, Waits, Becomes
    <3>7. Answers(c)'
      BY <1>1, <1>2, <2>9, <2>14, <2>15, <3>1, <3>4 DEF Answers, Becomes
    <3>8. Outcome(c)'
      BY <1>1, <3>1 DEF Outcome, Becomes
    <3>9. Wrote(c)'
      BY <1>1, <1>2, <1>4, <2>8, <2>9, <2>10, <2>16, <3>1, <3>4 DEF Wrote, Becomes
    <3>10. \A x \in Conns \ {c} : Still(x)
      BY <1>1, <2>5, <3>1, <3>2 DEF Still, Kept, Becomes, Queued
    <3> QED
      BY <1>1, <3>3, <3>5, <3>6, <3>7, <3>8, <3>9, <3>10, LocalStep DEF ConnOk
  <2>17. CASE b.is = "Failed"
    <3>1. Ends(c, "Failed", got)
      BY <2>2, <2>17 DEF Response, got
    <3> QED
      BY <2>16, <2>17, <3>1
  <2>18. CASE b.is # "Failed" /\ q.type \notin Many
    <3>1. Ends(c, "Ok", got)
      BY <2>2, <2>8, <2>18 DEF Response, got
    <3> QED
      BY <2>16, <2>18, <3>1
  <2>19. CASE b.is # "Failed" /\ q.type \in Many
    <3>1. call' = [call EXCEPT ![c].got = got, ![c].filled = 0] /\ UNCHANGED up
      BY <2>2, <2>8, <2>19 DEF Response, got
    <3>2. Becomes(B, c, "open", 0, got, "")
      BY <1>2, <1>3, <2>6, <3>1, GotStep
    <3>3. Typed(B, E)' /\ QueueOk'
      BY <1>1, <1>2, <2>5, <3>1, <3>2, StillQueue DEF Typed, Becomes
    <3>4. Sent(c)' = Sent(c)
      BY <1>1, <2>11, <2>12, <2>15, <3>2 DEF Sent, Becomes
    <3>5. Asks(c)'
      BY <1>1, <1>2, <1>3, <3>1, <3>2 DEF Asks, Becomes
    <3>6. Works(c)' /\ Waits(c)'
      BY <1>1, <1>2, <1>4, <2>9, <3>2 DEF Works, Waits, Becomes
    <3>7. Answers(c)'
      BY <1>1, <1>2, <2>9, <2>14, <2>15, <3>2, <3>4 DEF Answers, Becomes
    <3>8. Outcome(c)'
      BY <1>1, <2>19, <3>2 DEF Outcome, Becomes
    <3>9. Wrote(c)'
      BY <1>1, <1>2, <1>4, <2>9, <3>2, <3>4 DEF Wrote, Becomes
    <3>10. \A x \in Conns \ {c} : Still(x)
      BY <1>1, <2>5, <3>1, <3>2 DEF Still, Kept, Becomes, Queued
    <3> QED
      BY <1>1, <3>3, <3>5, <3>6, <3>7, <3>8, <3>9, <3>10, LocalStep DEF ConnOk
  <2> QED
    BY <2>17, <2>18, <2>19
<1>9. CASE r.is \notin {"more", "frame"}
  <2> DEFINE end == Closed(c, r.is)
  <2>1. Ends(c, end, call[c].got) /\ UNCHANGED down
    BY <1>5, <1>9
  <2>2. \A i \in DOMAIN down[c].frames : ~ (down[c].frames[i].len > MaxLen)
    <3> SUFFICES ASSUME NEW i \in DOMAIN down[c].frames PROVE ~ (down[c].frames[i].len > MaxLen)
      OBVIOUS
    <3>1. down[c].frames[i] \in FrameType(B)
      BY <1>2
    <3>2. down[c].frames[i].len \in Nat /\ down[c].frames[i].len <= MaxLen
      BY <1>2, <3>1 DEF Answers, FrameType
    <3> QED
      BY <3>2, FrameAssumption
  <2>3. /\ down[c].shut
        /\ \/ /\ r.is = "Truncated" /\ call[c].filled # 0
              /\ down[c].frames = <<>> \/ ~ (down[c].frames[1].bytes > call[c].filled)
           \/ r.is = "none" /\ down[c].frames = <<>>
    <3>1. ~ (down[c].frames # <<>> /\ down[c].frames[1].len > MaxLen)
      BY <1>2, <2>2, TailFacts
    <3> QED
      BY <1>6, <1>9, <3>1 DEF Yields
  <2>4. task[c].at = "ended" \/ (task[c].at = "none" /\ daemon # "up" /\ up[c].frames # <<>>)
    BY <1>2, <1>3, <2>3 DEF Answers, Asks
  <2>5. end = "IO" => daemon # "up" \/ q = Unknown
    <3> SUFFICES ASSUME end = "IO" PROVE daemon # "up" \/ q = Unknown
      OBVIOUS
    <3>1. up[c].frames # <<>>
      BY <2>3 DEF Closed
    <3> QED
      BY <1>2, <1>3, <2>4, <3>1 DEF Asks
  <2>6. end = "Truncated" => daemon = "exited"
    <3> SUFFICES ASSUME end = "Truncated" PROVE daemon = "exited"
      OBVIOUS
    <3>1. r.is = "Truncated"
      BY <2>3 DEF Closed
    <3>2. down[c].frames # <<>> /\ ~ (down[c].frames[1].bytes > call[c].filled)
          /\ (Whole(down[c].frames[1]) => call[c].filled < down[c].frames[1].bytes)
      BY <1>2, <1>3, <2>3, <3>1 DEF Answers
    <3>3. down[c].frames[1].bytes \in Nat /\ 1 \in DOMAIN down[c].frames
      <4>1. down[c].frames[1] \in FrameType(B) /\ 1 \in DOMAIN down[c].frames
        BY <1>2, <3>2, TailFacts
      <4> QED
        BY <4>1 DEF FrameType
    <3>4. ~Whole(down[c].frames[1])
      BY <1>2, <3>2, <3>3
    <3> QED
      BY <1>2, <3>3, <3>4 DEF Answers
  <2>7. end \in {"none", "NoResponse"} => down[c].frames = <<>> /\ down[c].shut
    BY <2>3 DEF Closed
  <2>8. end = "NoResponse" => daemon = "exited" \/ seen[c].unsent
    <3> SUFFICES ASSUME end = "NoResponse" PROVE daemon = "exited" \/ seen[c].unsent
      OBVIOUS
    <3>1. up[c].frames = <<>> /\ q.type \notin Many /\ down[c].frames = <<>>
      BY <2>3 DEF Closed
    <3>2. task[c].at = "ended" /\ task[c].out = <<>>
      BY <1>2, <2>4, <3>1 DEF Works
    <3> QED
      BY <1>2, <1>3, <3>1, <3>2 DEF Outcome
  <2>9. end \in {"IO", "NoResponse", "Truncated", "none"}
    BY <2>3 DEF Closed
  <2> HIDE DEF end
  <2>10. Becomes(B, c, "ended", 0, call[c].got, end)
    BY <1>2, <2>1, <2>9, EndsStep DEF Outcomes
  <2>11. /\ up' \in [Conns -> PipeType(Asked)] /\ Kept(up, up', c)
         /\ up'[c].frames = up[c].frames /\ up'[c].shut
    BY <1>2, <2>1, EndsPipe DEF Ends
  <2>12. Typed(B, E)' /\ QueueOk'
    BY <1>1, <1>2, <2>1, <2>10, <2>11, StillQueue DEF Typed, Becomes
  <2>13. Sent(c)' = Sent(c)
    BY <1>1, <2>1, <2>10 DEF Sent, Becomes
  <2>14. Asks(c)'
    BY <1>1, <1>2, <2>10, <2>11 DEF Asks, Becomes
  <2>15. ~Queued(c)
    BY <1>2, <1>3, <2>4 DEF Waits
  <2>16. Works(c)' /\ Waits(c)'
    BY <1>1, <1>2, <1>4, <2>4, <2>10, <2>15 DEF Works, Waits, Becomes
  <2>17. Answers(c)'
    BY <1>1, <1>2, <2>1, <2>10, <2>13 DEF Answers, Becomes
  <2>18. Outcome(c)'
    BY <1>1, <2>1, <2>5, <2>6, <2>7, <2>8, <2>9, <2>10 DEF Outcome, Becomes
  <2>19. Wrote(c)'
    BY <1>1, <1>2, <1>4, <2>9, <2>10, <2>13, <2>15 DEF Wrote, Becomes
  <2>20. \A x \in Conns \ {c} : Still(x)
    BY <1>1, <2>1, <2>10, <2>11 DEF Still, Kept, Becomes, Queued
  <2> QED
    BY <1>1, <2>12, <2>14, <2>16, <2>17, <2>18, <2>19, <2>20, LocalStep DEF ConnOk
<1> QED
  BY <1>7, <1>8, <1>9

-----------------------------------------------------------------------------
(* The handler's steps.                                                    *)

\* serve returns.
Left(B, c) ==
  /\ task' \in [Conns -> TaskType(B)] /\ down' \in [Conns -> PipeType(B)]
  /\ subs' \in [Conns -> SubType(B)]
  /\ Kept(task, task', c) /\ Kept(down, down', c) /\ Kept(subs, subs', c)
  /\ task'[c].at = "ended" /\ task'[c].req = {} /\ task'[c].out = <<>>
  /\ down'[c].frames = down[c].frames /\ down'[c].shut
  /\ ~subs'[c].live /\ subs'[c].pending = <<>>

LEMMA NoTaskTyped ==
  ASSUME NEW B
  PROVE  LET t == [NoTask EXCEPT !.at = "ended"]
         IN t \in TaskType(B) /\ t.at = "ended" /\ t.req = {} /\ t.out = <<>>
<1> DEFINE t == [NoTask EXCEPT !.at = "ended"]
<1>1. <<>> \in Seq(B) /\ <<>> \in Seq(TripNames)
  OBVIOUS
<1>2. NoTask \in TaskType(B)
  BY <1>1 DEF NoTask, TaskType
<1>3. t \in TaskType(B) /\ t.at = "ended"
  BY <1>2 DEF TaskType
<1>4. t.req = {} /\ t.out = <<>>
  BY DEF NoTask
<1> QED
  BY <1>3, <1>4

LEMMA LeaveStep ==
  ASSUME NEW B, task \in [Conns -> TaskType(B)], down \in [Conns -> PipeType(B)],
         subs \in [Conns -> SubType(B)], NEW c \in Conns, Leave(c)
  PROVE  Left(B, c)
<1> DEFINE t == [NoTask EXCEPT !.at = "ended"]
           p == Shut(down[c])
           n == NoSub
<1>1. t \in TaskType(B) /\ t.at = "ended" /\ t.req = {} /\ t.out = <<>>
  BY NoTaskTyped
<1>2. p \in PipeType(B) /\ p.frames = down[c].frames /\ p.shut
  BY ShutPipe
<1>3. n \in SubType(B) /\ ~n.live /\ n.pending = <<>>
  BY DEF NoSub, SubType
<1>4. task' = [task EXCEPT ![c] = t] /\ down' = [down EXCEPT ![c] = p]
      /\ subs' = [subs EXCEPT ![c] = n]
  BY DEF Leave
<1> HIDE DEF t, p, n
<1>5. task' \in [Conns -> TaskType(B)] /\ task'[c] = t /\ Kept(task, task', c)
  BY <1>1, <1>4, Update
<1>6. down' \in [Conns -> PipeType(B)] /\ down'[c] = p /\ Kept(down, down', c)
  BY <1>2, <1>4, Update
<1>7. subs' \in [Conns -> SubType(B)] /\ subs'[c] = n /\ Kept(subs, subs', c)
  BY <1>3, <1>4, Update
<1> QED
  BY <1>1, <1>2, <1>3, <1>5, <1>6, <1>7 DEF Left

\* What the history keeps when a frame did not fit.
Noted(B, c) ==
  /\ seen' \in [Conns -> SeenType(B)] /\ Kept(seen, seen', c)
  /\ seen'[c].wrote = seen[c].wrote /\ (seen[c].unsent => seen'[c].unsent)

\* A handler may leave a client that was there only with its answer in the
\* pipe or a frame that did not fit, or without having taken an unknown request.
LEMMA LeaveCall ==
  ASSUME NEW B, NEW E, CallInv(B, E), NEW c \in Conns, Leave(c), Noted(B, c),
         UNCHANGED <<call, up, queue, core, daemon>>, call[c].at # "idle",
         (call[c].at = "open" /\ daemon = "up" /\ up[c].frames # <<>>) => call[c].asked = Unknown,
         (/\ call[c].at = "open" /\ call[c].asked.type \notin Many /\ up[c].frames = <<>>
          /\ daemon # "exited" /\ ~seen'[c].unsent) => down[c].frames # <<>>,
         Queued(c) => call[c].end = "Dropped"
  PROVE  CallInv(B, E)'
<1>1. Typed(B, E) /\ QueueOk /\ Asks(c) /\ Works(c) /\ Answers(c) /\ Outcome(c) /\ Wrote(c)
      /\ Waits(c)
  BY ConnFacts
<1>2. Left(B, c)
  BY LeaveStep, ConnFacts
<1>3. Queued(c)' <=> Queued(c)
  BY DEF Queued
<1>4. Typed(B, E)' /\ QueueOk'
  BY <1>1, <1>2, StillQueue DEF Typed, Left, Noted
<1>5. Sent(c)' \subseteq Sent(c)
  BY <1>2 DEF Sent, Left, ToSet
<1>6. Asks(c)'
  BY <1>1, <1>2 DEF Asks, Left
<1>7. Works(c)' /\ Waits(c)'
  BY <1>1, <1>2, <1>3 DEF Works, Waits, Left, ToSet
<1>8. Answers(c)'
  BY <1>1, <1>2, <1>5 DEF Answers, Left, Whole
<1>9. Outcome(c)'
  BY <1>1, <1>2 DEF Outcome, Left, Noted
<1>10. Wrote(c)'
  BY <1>1, <1>2, <1>3, <1>5 DEF Wrote, Left, Noted
<1>11. \A x \in Conns \ {c} : Still(x)
  BY <1>2 DEF Still, Kept, Left, Noted, Queued
<1> QED
  BY <1>4, <1>6, <1>7, <1>8, <1>9, <1>10, <1>11, LocalStep DEF ConnOk


LEMMA AcceptCall ==
  ASSUME NEW B, NEW E, CallInv(B, E), NEW c \in Conns, Accept(c)
  PROVE  CallInv(B, E)'
<1>1. UNCHANGED <<call, up, down, queue, subs, core, daemon, seen>>
  BY DEF Accept
<1>2. Typed(B, E) /\ QueueOk /\ Asks(c) /\ Works(c) /\ Answers(c) /\ Outcome(c) /\ Wrote(c)
      /\ Waits(c) /\ task \in [Conns -> TaskType(B)] /\ task[c] \in TaskType(B)
  BY ConnFacts
<1>3. daemon = "up" /\ task[c].at = "none" /\ call[c].at # "idle"
  BY <1>2 DEF Accept, Asks
<1> DEFINE t == [task[c] EXCEPT !.at = "reading"]
<1>4. /\ t \in TaskType(B) /\ t.at = "reading" /\ t.filled = task[c].filled
      /\ t.req = task[c].req /\ t.trips = task[c].trips /\ t.parts = task[c].parts
      /\ t.out = task[c].out
  BY <1>2 DEF TaskType
<1>5. task' = [task EXCEPT ![c] = t]
  BY DEF Accept
<1> HIDE DEF t
<1>6. task' \in [Conns -> TaskType(B)] /\ task'[c] = t /\ Kept(task, task', c)
  BY <1>2, <1>4, <1>5, Update
<1>7. Queued(c)' <=> Queued(c)
  BY <1>1 DEF Queued
<1>8. Typed(B, E)' /\ QueueOk'
  BY <1>1, <1>2, <1>6, StillQueue DEF Typed
<1>9. Sent(c)' = Sent(c)
  BY <1>1, <1>4, <1>6 DEF Sent
<1>10. Asks(c)'
  BY <1>1, <1>2, <1>3, <1>4, <1>6 DEF Asks
<1>11. Works(c)' /\ Waits(c)'
  BY <1>1, <1>2, <1>3, <1>4, <1>6, <1>7 DEF Works, Waits
<1>12. Answers(c)'
  BY <1>1, <1>2, <1>3, <1>4, <1>6, <1>9 DEF Answers
<1>13. Outcome(c)'
  BY <1>1, <1>2, <1>3, <1>4, <1>6 DEF Outcome
<1>14. Wrote(c)'
  BY <1>1, <1>2, <1>3, <1>4, <1>6, <1>7, <1>9 DEF Wrote
<1>15. \A x \in Conns \ {c} : Still(x)
  BY <1>1, <1>6 DEF Still, Kept, Queued
<1> QED
  BY <1>1, <1>8, <1>10, <1>11, <1>12, <1>13, <1>14, <1>15, LocalStep DEF ConnOk

LEMMA HungUpCall ==
  ASSUME NEW B, NEW E, CallInv(B, E), NEW c \in Conns, HungUp(c)
  PROVE  CallInv(B, E)'
<1>1. Works(c) /\ Waits(c) /\ seen \in [Conns -> SeenType(B)]
  BY ConnFacts
<1>2. Noted(B, c)
  BY <1>1 DEF HungUp, Noted, Kept
<1>3. Queued(c) => call[c].end = "Dropped"
  BY <1>1 DEF Works, Waits, HungUp
<1>4. Leave(c) /\ call[c].at = "ended" /\ UNCHANGED <<call, up, queue, core, daemon>>
  BY DEF HungUp
<1> QED
  BY <1>2, <1>3, <1>4, LeaveCall

\* A watch goes on waiting; everything else has been answered in full.
LEMMA TaskSentCall ==
  ASSUME NEW B, NEW E, CallInv(B, E), NEW c \in Conns, TaskSent(c)
  PROVE  CallInv(B, E)'
<1>1. UNCHANGED <<call, up, queue, core, daemon, seen>>
  BY DEF TaskSent
<1>2. Typed(B, E) /\ QueueOk /\ Asks(c) /\ Works(c) /\ Answers(c) /\ Outcome(c) /\ Wrote(c)
      /\ Waits(c) /\ task \in [Conns -> TaskType(B)] /\ task[c] \in TaskType(B)
      /\ seen \in [Conns -> SeenType(B)]
  BY ConnFacts
<1>3. task[c].at \in {"sending", "telling"} /\ task[c].out = <<>>
  BY DEF TaskSent
<1>4. CASE ~subs[c].live
  <2>1. Leave(c)
    BY <1>4 DEF TaskSent
  <2>2. Noted(B, c)
    BY <1>1, <1>2 DEF Noted, Kept
  <2>3. call[c].at # "idle" /\ up[c].frames = <<>> /\ ~Queued(c)
    BY <1>2, <1>3 DEF Asks, Waits
  <2>4. (/\ call[c].at = "open" /\ call[c].asked.type \notin Many /\ up[c].frames = <<>>
         /\ daemon # "exited" /\ ~seen'[c].unsent) => down[c].frames # <<>>
    BY <1>1, <1>2, <1>3 DEF Outcome
  <2> QED
    BY <1>1, <2>1, <2>2, <2>3, <2>4, LeaveCall
<1>5. CASE subs[c].live
  <2> DEFINE t == [task[c] EXCEPT !.at = "watching"]
  <2>1. /\ t \in TaskType(B) /\ t.at = "watching" /\ t.req = task[c].req /\ t.out = <<>>
    BY <1>2, <1>3 DEF TaskType
  <2>2. task' = [task EXCEPT ![c] = t] /\ UNCHANGED <<down, subs>>
    BY <1>5 DEF TaskSent
  <2> HIDE DEF t
  <2>3. task' \in [Conns -> TaskType(B)] /\ task'[c] = t /\ Kept(task, task', c)
    BY <1>2, <2>1, <2>2, Update
  <2>4. Queued(c)' <=> Queued(c)
    BY <1>1 DEF Queued
  <2>5. Typed(B, E)' /\ QueueOk'
    BY <1>1, <1>2, <2>2, <2>3, StillQueue DEF Typed
  <2>6. Sent(c)' = Sent(c)
    BY <1>1, <1>3, <2>1, <2>2, <2>3 DEF Sent
  <2>7. Asks(c)'
    BY <1>1, <1>2, <1>3, <2>1, <2>3 DEF Asks
  <2>8. Works(c)' /\ Waits(c)'
    BY <1>1, <1>2, <1>3, <1>5, <2>1, <2>2, <2>3, <2>4 DEF Works, Waits
  <2>9. Answers(c)'
    BY <1>1, <1>2, <1>3, <2>1, <2>2, <2>3, <2>6 DEF Answers
  <2>10. Outcome(c)'
    BY <1>1, <1>2, <1>3, <2>1, <2>2, <2>3 DEF Outcome
  <2>11. Wrote(c)'
    BY <1>1, <1>2, <1>3, <2>1, <2>3, <2>4, <2>6 DEF Wrote
  <2>12. \A x \in Conns \ {c} : Still(x)
    BY <1>1, <2>2, <2>3 DEF Still, Kept, Queued
  <2> QED
    BY <1>1, <2>5, <2>7, <2>8, <2>9, <2>10, <2>11, <2>12, LocalStep DEF ConnOk
<1> QED
  BY <1>4, <1>5

\* What is pending goes out, or the core is gone and nothing is.
LEMMA NotifyCall ==
  ASSUME NEW B, NEW E, CallInv(B, E), NEW c \in Conns, Notify(c)
  PROVE  CallInv(B, E)'
<1>1. UNCHANGED <<call, up, queue, core, daemon, seen>>
  BY DEF Notify
<1>2. Typed(B, E) /\ QueueOk /\ Asks(c) /\ Works(c) /\ Answers(c) /\ Outcome(c) /\ Wrote(c)
      /\ Waits(c) /\ task \in [Conns -> TaskType(B)] /\ task[c] \in TaskType(B)
      /\ subs \in [Conns -> SubType(B)] /\ seen \in [Conns -> SeenType(B)]
  BY ConnFacts
<1>3. /\ task[c].at = "watching" /\ subs[c].live /\ call[c].asked.type = "Watch"
      /\ task[c].out = <<>> /\ task[c].req = {call[c].asked}
      /\ call[c].at # "idle" /\ up[c].frames = <<>> /\ ~Queued(c)
  BY <1>2 DEF Notify, Works, Asks, Waits
<1>4. CASE Leave(c)
  <2>1. Noted(B, c)
    BY <1>1, <1>2 DEF Noted, Kept
  <2> QED
    BY <1>1, <1>3, <1>4, <2>1, LeaveCall DEF Many
<1>5. CASE /\ subs[c].pending # <<>>
           /\ task' = [task EXCEPT ![c].at = "sending", ![c].out = subs[c].pending]
           /\ subs' = [subs EXCEPT ![c].pending = <<>>]
           /\ UNCHANGED down
  <2> DEFINE t == [task[c] EXCEPT !.at = "sending", !.out = subs[c].pending]
             n == [subs[c] EXCEPT !.pending = <<>>]
  <2>a. subs[c] \in SubType(B) /\ subs[c].pending \in Seq(B)
    BY <1>2 DEF SubType
  <2>1. /\ t \in TaskType(B) /\ t.at = "sending" /\ t.req = task[c].req
        /\ t.out = subs[c].pending
    BY <1>2, <2>a DEF TaskType
  <2>2. n \in SubType(B) /\ n.live = subs[c].live /\ n.pending = <<>>
    <3>1. <<>> \in Seq(B)
      OBVIOUS
    <3> QED
      BY <2>a, <3>1 DEF SubType
  <2>3. task' = [task EXCEPT ![c] = t] /\ subs' = [subs EXCEPT ![c] = n]
    BY <1>5
  <2> HIDE DEF t, n
  <2>4. task' \in [Conns -> TaskType(B)] /\ task'[c] = t /\ Kept(task, task', c)
    BY <1>2, <2>1, <2>3, Update
  <2>5. subs' \in [Conns -> SubType(B)] /\ subs'[c] = n /\ Kept(subs, subs', c)
    BY <1>2, <2>2, <2>3, Update
  <2>6. Queued(c)' <=> Queued(c)
    BY <1>1 DEF Queued
  <2>7. Typed(B, E)' /\ QueueOk'
    BY <1>1, <1>2, <1>5, <2>4, <2>5, StillQueue DEF Typed
  <2>8. Sent(c)' \subseteq Sent(c) \cup ToSet(subs[c].pending)
    BY <1>1, <1>5, <2>1, <2>4 DEF Sent
  <2>9. \A b \in ToSet(subs[c].pending) : b.is = "Watch"
    BY <1>2 DEF Works
  <2>10. Variant(call[c].asked) = "Watch"
    BY <1>3 DEF Variant, Writes
  <2>11. Asks(c)'
    BY <1>1, <1>2, <1>3, <2>1, <2>4 DEF Asks
  <2>12. Works(c)' /\ Waits(c)'
    BY <1>1, <1>2, <1>3, <2>1, <2>2, <2>4, <2>5, <2>6 DEF Works, Waits, ToSet
  <2>13. Answers(c)'
    <3>1. \A b \in Sent(c)' : b.is \in {"Failed", Variant(call[c].asked)}
      BY <1>2, <2>8, <2>9, <2>10 DEF Answers
    <3> QED
      BY <1>1, <1>2, <1>3, <1>5, <2>1, <2>4, <3>1 DEF Answers
  <2>14. Outcome(c)'
    BY <1>1, <1>2, <1>3, <1>5, <2>1, <2>4 DEF Outcome, Many
  <2>15. Wrote(c)'
    <3>1. \A b \in Sent(c)' : /\ b.is = "Written" => seen[c].wrote = <<b.digest>>
                              /\ (b.is = "Failed" /\ b.kind = "Rejected") => seen[c].wrote = <<>>
      BY <1>2, <2>8, <2>9 DEF Wrote
    <3> QED
      BY <1>1, <1>2, <1>3, <2>1, <2>4, <2>6, <3>1 DEF Wrote
  <2>16. \A x \in Conns \ {c} : Still(x)
    BY <1>1, <1>5, <2>4, <2>5 DEF Still, Kept, Queued
  <2> QED
    BY <1>1, <2>7, <2>11, <2>12, <2>13, <2>14, <2>15, <2>16, LocalStep DEF ConnOk
<1> QED
  BY <1>4, <1>5 DEF Notify

\* A frame goes out, or does not fit, or its reader has gone.
LEMMA TaskWritesCall ==
  ASSUME NEW B, NEW E, CallInv(B, E), NEW c \in Conns, TaskWrites(c)
  PROVE  CallInv(B, E)'
<1> DEFINE b == Head(task[c].out)
           n == [seen[c] EXCEPT !.unsent = @ \/ ~Sendable(b)]
<1>1. UNCHANGED <<call, up, queue, core, daemon>>
  BY DEF TaskWrites
<1>2. /\ Typed(B, E) /\ QueueOk /\ Asks(c) /\ Works(c) /\ Answers(c) /\ Outcome(c) /\ Wrote(c)
      /\ Waits(c) /\ task \in [Conns -> TaskType(B)] /\ task[c] \in TaskType(B)
      /\ down \in [Conns -> PipeType(B)] /\ down[c] \in PipeType(B)
      /\ down[c].frames \in Seq(FrameType(B)) /\ task[c].out \in Seq(B)
      /\ seen \in [Conns -> SeenType(B)] /\ call[c].at \in {"idle", "open", "ended"}
  BY ConnFacts
<1>3. /\ task[c].at \in {"sending", "telling"} /\ task[c].out # <<>>
  BY DEF TaskWrites
<1>4. /\ call[c].at # "idle" /\ up[c].frames = <<>> /\ ~Queued(c) /\ ~down[c].shut
  BY <1>2, <1>3 DEF Works, Asks, Waits, Answers
<1>5. /\ n \in SeenType(B) /\ n.wrote = seen[c].wrote
      /\ n.unsent = (seen[c].unsent \/ ~Sendable(b))
  <2>1. seen[c] \in SeenType(B)
    BY <1>2
  <2> QED
    BY <2>1 DEF SeenType
<1>6. seen' = [seen EXCEPT ![c] = n]
  BY DEF TaskWrites
<1> HIDE DEF n
<1>7. seen' \in [Conns -> SeenType(B)] /\ Kept(seen, seen', c) /\ seen'[c] = n
  BY <1>2, <1>5, <1>6, Update
<1>8. Noted(B, c)
  BY <1>5, <1>7 DEF Noted
<1>9. CASE call[c].at = "ended" \/ ~Sendable(b)
  <2>1. Leave(c)
    BY <1>9 DEF TaskWrites
  <2>2. call[c].at = "ended" \/ seen'[c].unsent
    BY <1>5, <1>7, <1>9
  <2> QED
    BY <1>1, <1>4, <1>8, <2>1, <2>2, LeaveCall
<1>10. CASE call[c].at # "ended" /\ Sendable(b)
  <2> DEFINE f == FrameOf(b, BodyLen(b))
             p == Pushed(down[c], f)
             out == Tail(task[c].out)
             t == [task[c] EXCEPT !.out = out]
  <2>1. b \in B /\ b = task[c].out[1] /\ out \in Seq(B)
    BY <1>2, <1>3, TailFacts
  <2>2. ToSet(task[c].out) = {b} \cup ToSet(out)
    BY <1>2, <1>3, <2>1, TailSet
  <2>3. BodyLen(b) \in Nat \ {0} /\ BodyLen(b) <= MaxLen
    BY <1>10, FrameAssumption DEF Sendable
  <2>4. /\ task' = [task EXCEPT ![c] = t] /\ down' = [down EXCEPT ![c] = p]
        /\ UNCHANGED subs
    BY <1>2, <1>10 DEF TaskWrites
  <2> HIDE DEF b, out
  <2>5. f \in FrameType(B) /\ f.body = b /\ f.len <= MaxLen /\ Whole(f)
    BY <2>1, <2>3, FrameAssumption DEF FrameOf, FrameType, Whole
  <2> HIDE DEF f
  <2>6. p \in PipeType(B) /\ p.frames = Append(down[c].frames, f) /\ p.shut = down[c].shut
    BY <1>2, <2>5, PushedPipe
  <2>7. /\ t \in TaskType(B) /\ t.at = task[c].at /\ t.req = task[c].req /\ t.out = out
    BY <1>2, <2>1 DEF TaskType
  <2> HIDE DEF p, t
  <2>8. task' \in [Conns -> TaskType(B)] /\ task'[c] = t /\ Kept(task, task', c)
    BY <1>2, <2>4, <2>7, Update
  <2>9. down' \in [Conns -> PipeType(B)] /\ down'[c] = p /\ Kept(down, down', c)
    BY <1>2, <2>4, <2>6, Update
  <2>10. Queued(c)' <=> Queued(c)
    BY <1>1 DEF Queued
  <2>11. Typed(B, E)' /\ QueueOk'
    BY <1>1, <1>2, <1>7, <2>4, <2>8, <2>9, StillQueue DEF Typed
  <2>12. Bodies(p.frames) = Bodies(down[c].frames) \cup {b}
    BY <1>2, <2>5, <2>6, BodiesAppend
  <2>13. Sent(c)' = Sent(c)
    BY <1>1, <2>2, <2>7, <2>8, <2>9, <2>12 DEF Sent
  <2>14. /\ p.frames # <<>> /\ (down[c].frames # <<>> => p.frames[1] = down[c].frames[1])
         /\ \A i \in DOMAIN p.frames : 
              \/ p.frames[i] = f
              \/ i \in DOMAIN down[c].frames /\ p.frames[i] = down[c].frames[i]
    BY <1>2, <2>6
  <2>15. Asks(c)'
    BY <1>1, <1>2, <1>3, <1>4, <2>7, <2>8 DEF Asks
  <2>16. Works(c)' /\ Waits(c)'
    BY <1>1, <1>2, <1>3, <1>4, <2>4, <2>7, <2>8, <2>10 DEF Works, Waits
  <2>17. \A i \in DOMAIN p.frames :
           p.frames[i].len <= MaxLen /\ (Whole(p.frames[i]) \/ daemon = "exited")
    BY <1>2, <2>5, <2>14 DEF Answers
  <2>18. Answers(c)'
    BY <1>1, <1>2, <1>3, <1>4, <2>6, <2>7, <2>8, <2>9, <2>13, <2>14, <2>17 DEF Answers
  <2>19. Outcome(c)'
    BY <1>1, <1>2, <1>5, <1>7, <1>10, <2>7, <2>8, <2>9, <2>14 DEF Outcome
  <2>20. Wrote(c)'
    BY <1>1, <1>2, <1>3, <1>5, <1>7, <2>7, <2>8, <2>10, <2>13 DEF Wrote
  <2>21. \A x \in Conns \ {c} : Still(x)
    BY <1>1, <1>7, <2>4, <2>8, <2>9 DEF Still, Kept, Queued
  <2> QED
    BY <1>1, <2>11, <2>15, <2>16, <2>18, <2>19, <2>20, <2>21, LocalStep DEF ConnOk
<1> QED
  BY <1>9, <1>10

\* A sequence is one of its own elements.
LEMMA OwnSet ==
  ASSUME NEW S, NEW s \in Seq(S)
  PROVE  s \in Seq(ToSet(s))
<1>1. s \in [1 .. Len(s) -> S] /\ Len(s) \in Nat /\ DOMAIN s = 1 .. Len(s)
  BY LenProperties
<1>2. s \in [1 .. Len(s) -> ToSet(s)]
  BY <1>1 DEF ToSet
<1>3. Seq(ToSet(s)) = UNION {[1 .. n -> ToSet(s)] : n \in Nat}
  BY SeqDef
<1> QED
  BY <1>1, <1>2, <1>3

\* The trips each method makes.
LEMMA TripsOf ==
  ASSUME NEW q \in Asked, q.type \in Methods \ {"GetVersion"}
  PROVE  /\ Trips(q) \in Seq(TripNames) /\ Trips(q) # <<>>
         /\ Trips(q) \in Seq(ToSet(Trips(q)))
         /\ q.type # "GetStatus" => Len(Trips(q)) = 1
         /\ q.type \notin {"GetStatus", "GetChainRange"} => ToSet(Trips(q)) = {q.type}
         /\ q.type = "GetChainRange" => ToSet(Trips(q)) = {"ChainRange"}
         /\ q.type = "GetStatus" =>
              ToSet(Trips(q)) = {"Identity", "ChainRange", "Peers", "PeerConnections", "Published"}
<1> DEFINE s == Trips(q)
<1>1. CASE q.type = "GetStatus"
  <2>1. s = <<"Identity", "ChainRange", "Peers", "PeerConnections", "Published">>
    BY <1>1 DEF Trips
  <2>a. s \in Seq(TripNames)
    BY <2>1 DEF TripNames
  <2>b. Len(s) = 5 /\ s # <<>>
    BY <2>1
  <2>c. /\ s[1] = "Identity" /\ s[2] = "ChainRange" /\ s[3] = "Peers"
        /\ s[4] = "PeerConnections" /\ s[5] = "Published"
    BY <2>1
  <2>2. /\ Len(s) = 5 /\ s \in Seq(TripNames) /\ DOMAIN s = 1 .. 5 /\ s # <<>>
        /\ s[1] = "Identity" /\ s[2] = "ChainRange" /\ s[3] = "Peers"
        /\ s[4] = "PeerConnections" /\ s[5] = "Published"
    <3> HIDE DEF s
    <3>1. DOMAIN s = 1 .. Len(s)
      BY <2>a, LenProperties
    <3> QED
      BY <2>a, <2>b, <2>c, <3>1
  <2> HIDE DEF s
  <2>3. ToSet(s) = {"Identity", "ChainRange", "Peers", "PeerConnections", "Published"}
    <3>1. \A x \in ToSet(s) : x \in {s[1], s[2], s[3], s[4], s[5]}
      BY <2>2 DEF ToSet
    <3>2. \A i \in 1 .. 5 : s[i] \in ToSet(s)
      BY <2>2 DEF ToSet
    <3>3. s[1] \in ToSet(s) /\ s[2] \in ToSet(s) /\ s[3] \in ToSet(s) /\ s[4] \in ToSet(s)
          /\ s[5] \in ToSet(s)
      BY <3>2
    <3> QED
      BY <2>2, <3>1, <3>3
  <2>4. s \in Seq(ToSet(s))
    BY <2>2, OwnSet
  <2> QED
    BY <1>1, <2>2, <2>3, <2>4 DEF s
<1>2. CASE q.type # "GetStatus"
  <2> DEFINE x == IF q.type = "GetChainRange" THEN "ChainRange" ELSE q.type
  <2>1. x \in TripNames
    BY <1>2 DEF TripNames
  <2>a. s = <<x>>
    BY <1>2 DEF Trips
  <2>2. Len(s) = 1 /\ s \in Seq(TripNames) /\ s # <<>> /\ ToSet(s) = {x} /\ s \in Seq({x})
    BY <2>1, <2>a DEF ToSet
  <2> HIDE DEF s
  <2> QED
    BY <1>2, <2>2 DEF s
<1> QED
  BY <1>1, <1>2

\* A handler with one frame of its own to send.
Says(B, c, t, b) ==
  /\ task' \in [Conns -> TaskType(B)] /\ Kept(task, task', c) /\ task'[c] = t
  /\ t.out = <<b>> /\ t.at \in {"sending", "telling"} /\ t.req \subseteq {call[c].asked}
  /\ t.at = "sending" => t.req = {call[c].asked}
  /\ b.is = Variant(call[c].asked) \/ (b.is = "Failed" /\ b.kind # "Rejected")
  /\ b.is # "Written"

\* It says so before anything else went out: the request is refused, needs no
\* trip, or the mainloop has gone.
LEMMA SaysCall ==
  ASSUME NEW B, NEW E, CallInv(B, E), NEW c \in Conns, NEW t, NEW b, Says(B, c, t, b),
         UNCHANGED <<call, down, queue, subs, core, daemon, seen>>,
         up' \in [Conns -> PipeType(Asked)], Kept(up, up', c),
         up'[c].frames = <<>>, up'[c].shut = up[c].shut,
         task[c].at \in {"reading", "asking", "waiting"}, ~Queued(c),
         task[c].at = "reading" => up[c].frames # <<>>
  PROVE  CallInv(B, E)'
<1>1. Typed(B, E) /\ QueueOk /\ Asks(c) /\ Works(c) /\ Answers(c) /\ Outcome(c) /\ Wrote(c)
      /\ Waits(c)
  BY ConnFacts
<1>2. /\ down[c].frames = <<>> /\ call[c].got = <<>> /\ seen[c].wrote = <<>> /\ ~subs[c].live
      /\ call[c].at # "idle" /\ ~down[c].shut /\ call[c].end \notin {"Ok", "Failed", "Connect", "FrameTooLarge"}
  BY <1>1 DEF Answers, Wrote, Works, Asks
<1>3. Sent(c)' = {b}
  <2>1. ToSet(<<b>>) = {b}
    BY DEF ToSet
  <2>2. ToSet(call'[c].got) = {} /\ Bodies(down'[c].frames) = {}
    BY <1>2 DEF ToSet, Bodies
  <2> QED
    BY <2>1, <2>2 DEF Sent, Says
<1>4. ~Queued(c)'
  BY DEF Queued
<1>5. Typed(B, E)' /\ QueueOk'
  BY <1>1, StillQueue DEF Typed, Says
<1>6. Asks(c)'
  BY <1>1, <1>2 DEF Asks, Says
<1>7. Works(c)' /\ Waits(c)'
  BY <1>1, <1>2, <1>4 DEF Works, Waits, Says
<1>8. Answers(c)'
  BY <1>1, <1>2, <1>3 DEF Answers, Says
<1>9. Outcome(c)'
  <2>1. <<b>> # <<>>
    OBVIOUS
  <2> QED
    BY <1>1, <1>2, <2>1 DEF Outcome, Says
<1>10. Wrote(c)'
  BY <1>1, <1>2, <1>3, <1>4 DEF Wrote, Says
<1>11. \A x \in Conns \ {c} : Still(x)
  BY DEF Still, Kept, Says, Queued
<1> QED
  BY <1>5, <1>6, <1>7, <1>8, <1>9, <1>10, <1>11, LocalStep DEF ConnOk

LEMMA TellTyped ==
  ASSUME NEW B, Fixed \subseteq B, NEW t \in TaskType(B),
         NEW kind \in {"Internal", "Unsupported", "Rejected"}
  PROVE  /\ Tell(t, kind) \in TaskType(B) /\ Tell(t, kind).out = <<Failure(kind)>>
         /\ Tell(t, kind).at = "telling" /\ Tell(t, kind).req = t.req
<1>1. <<Failure(kind)>> \in Seq(B) /\ <<>> \in Seq(TripNames)
  BY DEF Fixed
<1> DEFINE out == <<Failure(kind)>>
<1>2. Tell(t, kind) = [t EXCEPT !.at = "telling", !.trips = <<>>, !.out = out]
  BY DEF Tell
<1> HIDE DEF out
<1>3. /\ Tell(t, kind) \in TaskType(B) /\ Tell(t, kind).out = out
      /\ Tell(t, kind).at = "telling" /\ Tell(t, kind).req = t.req
  BY <1>1, <1>2 DEF TaskType, out
<1> QED
  BY <1>3 DEF out

LEMMA GoneCall ==
  ASSUME NEW B, NEW E, CallInv(B, E), NEW c \in Conns, Gone(c)
  PROVE  CallInv(B, E)'
<1> DEFINE b == Failure("Internal")
           t == Tell(task[c], "Internal")
<1>1. UNCHANGED <<call, up, down, queue, subs, core, daemon, seen>>
  BY DEF Gone
<1>2. /\ Typed(B, E) /\ QueueOk /\ Asks(c) /\ Works(c) /\ task \in [Conns -> TaskType(B)]
      /\ task[c] \in TaskType(B) /\ up \in [Conns -> PipeType(Asked)]
  BY ConnFacts
<1>3. /\ task[c].at \in {"asking", "waiting"} /\ daemon = "down"
      /\ task[c].req = {call[c].asked}
  BY <1>2 DEF Gone, Works
<1>4. up[c].frames = <<>>
  BY <1>2, <1>3 DEF Asks
<1>5. queue = <<>>
  BY <1>2, <1>3 DEF QueueOk
<1>6. ~Queued(c)
  BY <1>5 DEF Queued
<1>7. t \in TaskType(B) /\ t.out = <<b>> /\ t.at = "telling" /\ t.req = task[c].req
  BY <1>2, TellTyped DEF Typed
<1>8. task' = [task EXCEPT ![c] = t]
  BY DEF Gone
<1> HIDE DEF t
<1>9. task' \in [Conns -> TaskType(B)] /\ task'[c] = t /\ Kept(task, task', c)
  BY <1>2, <1>7, <1>8, Update
<1>10. b.is = "Failed" /\ b.kind = "Internal"
  BY DEF Failure
<1> HIDE DEF b
<1>11. Says(B, c, t, b)
  BY <1>3, <1>7, <1>9, <1>10 DEF Says
<1>12. Kept(up, up', c) /\ up'[c].frames = <<>> /\ up'[c].shut = up[c].shut
       /\ up' \in [Conns -> PipeType(Asked)]
  BY <1>1, <1>2, <1>4 DEF Kept
<1> QED
  BY <1>1, <1>3, <1>6, <1>11, <1>12, SaysCall

\* A message to the mainloop.
LEMMA AskCall ==
  ASSUME NEW B, NEW E, CallInv(B, E), NEW c \in Conns, Ask(c)
  PROVE  CallInv(B, E)'
<1> DEFINE q == call[c].asked
           trips == Tail(task[c].trips)
           t == [task[c] EXCEPT !.at = "waiting", !.trips = trips]
           m == [conn |-> c, req |-> q, trip |-> task[c].trips[1]]
<1>1. UNCHANGED <<call, up, down, subs, core, daemon, seen>>
  BY DEF Ask
<1>2. /\ Typed(B, E) /\ QueueOk /\ Asks(c) /\ Works(c) /\ Answers(c) /\ Outcome(c) /\ Wrote(c)
      /\ Waits(c) /\ task \in [Conns -> TaskType(B)] /\ task[c] \in TaskType(B)
      /\ q \in Asked
  BY ConnFacts
<1>3. /\ task[c].at = "asking" /\ daemon = "up" /\ task[c].req = {q}
      /\ q.type \in Methods \ {"GetVersion"} /\ task[c].trips # <<>>
      /\ task[c].trips \in Seq(ToSet(Trips(q))) /\ task[c].out = <<>>
  BY <1>2 DEF Ask, Works
<1>4. ToSet(Trips(q)) \subseteq TripNames
  <2>1. Trips(q) \in Seq(TripNames)
    BY <1>2, <1>3, TripsOf
  <2> QED
    BY <2>1 DEF ToSet
<1>5. /\ trips \in Seq(ToSet(Trips(q))) /\ trips \in Seq(TripNames)
      /\ Len(trips) = Len(task[c].trips) - 1 /\ Head(task[c].trips) = task[c].trips[1]
      /\ task[c].trips[1] \in ToSet(Trips(q))
  BY <1>3, <1>4, TailFacts, SeqMonotonic
<1>6. (CHOOSE x \in task[c].req : TRUE) = q
  BY <1>3
<1>7. queue' = Append(queue, m) /\ task' = [task EXCEPT ![c] = t]
  BY <1>5, <1>6 DEF Ask
<1> HIDE DEF trips
<1>8. /\ t \in TaskType(B) /\ t.at = "waiting" /\ t.req = {q} /\ t.trips = trips
      /\ t.parts = task[c].parts /\ t.out = <<>>
  BY <1>2, <1>3, <1>5 DEF TaskType
<1>9. m \in MsgType /\ m.conn = c /\ m.req = q /\ m.trip \in ToSet(Trips(q))
  BY <1>2, <1>4, <1>5 DEF MsgType
<1> HIDE DEF t, m
<1>10. task' \in [Conns -> TaskType(B)] /\ task'[c] = t /\ Kept(task, task', c)
  BY <1>2, <1>7, <1>8, Update
<1>11. queue \in Seq(MsgType) /\ queue' \in Seq(MsgType)
  BY <1>2, <1>7, <1>9 DEF Typed
<1>12. /\ Len(queue) \in Nat /\ DOMAIN queue' = 1 .. Len(queue) + 1 /\ DOMAIN queue = 1 .. Len(queue)
       /\ queue'[Len(queue) + 1] = m /\ \A i \in 1 .. Len(queue) : queue'[i] = queue[i]
  BY <1>7, <1>11
<1>13. ~Queued(c)
  BY <1>2, <1>3 DEF Waits
<1>14. Typed(B, E)'
  BY <1>1, <1>2, <1>10, <1>11 DEF Typed
<1>15. QueueOk'
  <2>1. \A i, j \in DOMAIN queue' : queue'[i].conn = queue'[j].conn => i = j
    BY <1>2, <1>9, <1>12, <1>13 DEF QueueOk, Queued
  <2>2. ASSUME NEW i \in DOMAIN queue'
        PROVE  /\ queue'[i].req = call'[queue'[i].conn].asked
               /\ queue'[i].trip \in ToSet(Trips(queue'[i].req))
               /\ queue'[i].req.type \in Methods \ {"GetVersion"}
    <3>1. CASE i = Len(queue) + 1
      BY <1>1, <1>3, <1>9, <1>12, <3>1
    <3>2. CASE i \in DOMAIN queue
      BY <1>1, <1>2, <1>12, <3>2 DEF QueueOk
    <3> QED
      BY <1>12, <3>1, <3>2
  <2> QED
    BY <1>1, <1>3, <2>1, <2>2 DEF QueueOk
<1>16. Sent(c)' = Sent(c)
  BY <1>1, <1>3, <1>8, <1>10 DEF Sent
<1>17. Asks(c)'
  BY <1>1, <1>2, <1>3, <1>8, <1>10 DEF Asks
<1>18. Works(c)'
  BY <1>1, <1>2, <1>3, <1>5, <1>8, <1>10 DEF Works
<1>19. Waits(c)'
  BY <1>1, <1>2, <1>3, <1>8, <1>10 DEF Waits, Answers
<1>20. Answers(c)'
  BY <1>1, <1>2, <1>3, <1>8, <1>10, <1>16 DEF Answers
<1>21. Outcome(c)'
  BY <1>1, <1>2, <1>3, <1>8, <1>10 DEF Outcome
<1>22. Wrote(c)'
  BY <1>1, <1>2, <1>3, <1>8, <1>10, <1>16 DEF Wrote
<1>23. \A x \in Conns \ {c} : Queued(x)' => Queued(x)
  BY <1>9, <1>12 DEF Queued
<1>24. \A x \in Conns \ {c} : Still(x)
  BY <1>1, <1>10, <1>23 DEF Still, Kept
<1> QED
  BY <1>1, <1>14, <1>15, <1>17, <1>18, <1>19, <1>20, <1>21, <1>22, <1>24, LocalStep DEF ConnOk

\* Every method is answered by a variant of its own.
LEMMA VariantOf ==
  ASSUME NEW q, q.type \in Methods
  PROVE  /\ q.type = "GetVersion" => Variant(q) = "Version"
         /\ q.type = "GetChainRange" => Variant(q) = "ChainRange"
         /\ q.type = "GetStatus" => Variant(q) = "Status"
         /\ q.type = "GetEnvelopes" => Variant(q) = "Envelope"
         /\ q.type = "Watch" => Variant(q) = "Watch"
         /\ q.type = "Read" => Variant(q) = "Value"
         /\ q.type = "ListNamespaces" => Variant(q) = "Namespaces"
         /\ q.type = "Query" => Variant(q) = "Queried"
         /\ q.type \in Writes => Variant(q) = "Written"
         /\ q.type = "CreateInvite" => Variant(q) = "Invite"
         /\ q.type = "Compact" => Variant(q) = "Compacted"
BY DEF Variant, Writes, Methods, Many

\* A handler that starts on a request.
LEMMA HandleTyped ==
  ASSUME NEW B, Fixed \subseteq B, NEW t \in TaskType(B), t.parts = <<>>, t.out = <<>>,
         NEW q \in Asked, q.type \in Methods
  PROVE  LET h == Handle(t, q)
         IN /\ h \in TaskType(B) /\ h.req = {q} /\ h.parts = <<>>
            /\ q.type = "GetVersion" => h.at = "sending" /\ h.out = <<Version>>
            /\ q.type # "GetVersion" => h.at = "asking" /\ h.out = <<>> /\ h.trips = Trips(q)
<1> DEFINE h == Handle(t, q)
           a == [t EXCEPT !.at = "asking", !.filled = 0, !.req = {q}, !.trips = Trips(q)]
<1>1. CASE q.type # "GetVersion"
  <2>1. Trips(q) # <<>> /\ Trips(q) \in Seq(TripNames)
    BY <1>1, TripsOf
  <2>2. h = a
    BY <2>1 DEF Handle
  <2>3. a \in TaskType(B) /\ a.req = {q} /\ a.parts = <<>> /\ a.at = "asking" /\ a.out = <<>>
        /\ a.trips = Trips(q)
    BY <2>1 DEF TaskType
  <2> HIDE DEF h, a
  <2> QED
    BY <1>1, <2>2, <2>3 DEF h
<1>2. CASE q.type = "GetVersion"
  <2>1. Trips(q) = <<>>
    BY <1>2 DEF Trips
  <2>2. Trips(q) \in Seq(TripNames)
    BY <2>1
  <2>3. a \in TaskType(B) /\ a.req = {q}
    BY <2>2 DEF TaskType
  <2>4. (CHOOSE x \in a.req : TRUE) = q
    BY <2>3
  <2> DEFINE out == <<Version>>
             r == [a EXCEPT !.at = "sending", !.trips = <<>>, !.parts = <<>>, !.out = out]
  <2>5. h = r
    <3> HIDE DEF a
    <3>1. h = Respond(a, <<>>)
      BY <2>1 DEF Handle, a
    <3>2. Respond(a, <<>>) = r
      BY <1>2, <2>4 DEF Respond
    <3> QED
      BY <3>1, <3>2
  <2>6. out \in Seq(B) /\ <<>> \in Seq(B) /\ <<>> \in Seq(TripNames)
    BY DEF Fixed
  <2> HIDE DEF out, a
  <2>7. r \in TaskType(B) /\ r.req = {q} /\ r.parts = <<>> /\ r.at = "sending" /\ r.out = out
    BY <2>3, <2>6 DEF TaskType
  <2> HIDE DEF r, h
  <2> QED
    BY <1>2, <2>5, <2>7 DEF h, out
<1> QED
  BY <1>1, <1>2

\* The handler reads its request: in part, in full, or not at all.
LEMMA TaskReadsCall ==
  ASSUME NEW B, NEW E, CallInv(B, E), NEW c \in Conns, TaskReads(c)
  PROVE  CallInv(B, E)'
<1> DEFINE q == call[c].asked
<1>1. UNCHANGED <<call, queue, core, daemon, seen>>
  BY DEF TaskReads
<1>2. /\ Typed(B, E) /\ QueueOk /\ Asks(c) /\ Works(c) /\ Answers(c) /\ Outcome(c) /\ Wrote(c)
      /\ Waits(c) /\ task \in [Conns -> TaskType(B)] /\ task[c] \in TaskType(B)
      /\ up \in [Conns -> PipeType(Asked)] /\ up[c] \in PipeType(Asked)
      /\ task[c].filled \in Nat /\ q \in Asked /\ up[c].frames \in Seq(FrameType(Asked))
      /\ seen \in [Conns -> SeenType(B)]
  BY ConnFacts
<1>3. /\ task[c].at = "reading" /\ call[c].at # "idle" /\ ~Queued(c)
      /\ task[c].req = {} /\ task[c].trips = <<>> /\ task[c].parts = <<>> /\ task[c].out = <<>>
  BY <1>2 DEF TaskReads, Asks, Works, Waits
<1>4. PICK r \in Poll(up[c], task[c].filled) :
        \/ /\ r.is = "more"
           /\ task' = [task EXCEPT ![c].filled = r.filled]
           /\ UNCHANGED <<up, down, subs>>
        \/ /\ r.is = "frame"
           /\ task' = [task EXCEPT ![c] = IF r.body = Unknown THEN Tell(@, "Unsupported")
                                          ELSE Handle(@, r.body)]
           /\ up' = [up EXCEPT ![c] = Popped(@)]
           /\ UNCHANGED <<down, subs>>
        \/ /\ r.is \notin {"more", "frame"}
           /\ Leave(c)
           /\ UNCHANGED up
  BY DEF TaskReads
<1>5. Yields(r, up[c], task[c].filled)
  BY <1>2, PollYields
<1>6. ~Queued(c)'
  BY <1>1, <1>3 DEF Queued
<1>7. CASE r.is = "more"
  <2> DEFINE t == [task[c] EXCEPT !.filled = r.filled]
  <2>1. up[c].frames # <<>> /\ r.filled \in Nat \ {0}
        /\ (Whole(up[c].frames[1]) => r.filled < up[c].frames[1].bytes)
    BY <1>5, <1>7 DEF Yields
  <2>2. task' = [task EXCEPT ![c] = t] /\ UNCHANGED <<up, down, subs>>
    BY <1>4, <1>7
  <2>3. /\ t \in TaskType(B) /\ t.at = "reading" /\ t.filled = r.filled /\ t.req = {}
        /\ t.trips = <<>> /\ t.parts = <<>> /\ t.out = <<>>
    BY <1>2, <1>3, <2>1 DEF TaskType
  <2> HIDE DEF t
  <2>4. task' \in [Conns -> TaskType(B)] /\ task'[c] = t /\ Kept(task, task', c)
    BY <1>2, <2>2, <2>3, Update
  <2>5. Typed(B, E)' /\ QueueOk'
    BY <1>1, <1>2, <2>2, <2>4, StillQueue DEF Typed
  <2>6. Sent(c)' = Sent(c)
    BY <1>1, <1>3, <2>2, <2>3, <2>4 DEF Sent
  <2>7. Asks(c)'
    BY <1>1, <1>2, <1>3, <2>1, <2>2, <2>3, <2>4 DEF Asks
  <2>8. Works(c)' /\ Waits(c)'
    BY <1>1, <1>2, <1>3, <1>6, <2>2, <2>3, <2>4 DEF Works, Waits
  <2>9. Answers(c)'
    BY <1>1, <1>2, <1>3, <2>2, <2>3, <2>4, <2>6 DEF Answers
  <2>10. Outcome(c)'
    BY <1>1, <1>2, <1>3, <2>2, <2>3, <2>4 DEF Outcome
  <2>11. Wrote(c)'
    BY <1>1, <1>2, <1>3, <1>6, <2>2, <2>3, <2>4, <2>6 DEF Wrote
  <2>12. \A x \in Conns \ {c} : Still(x)
    BY <1>1, <2>2, <2>4 DEF Still, Kept, Queued
  <2> QED
    BY <1>1, <2>5, <2>7, <2>8, <2>9, <2>10, <2>11, <2>12, LocalStep DEF ConnOk
<1>8. CASE r.is = "frame"
  <2> DEFINE p == Popped(up[c])
  <2>1. up[c].frames # <<>> /\ r.body = q /\ Len(up[c].frames) = 1
    BY <1>2, <1>5, <1>8 DEF Yields, Asks
  <2>2. p \in PipeType(Asked) /\ p.frames = <<>> /\ p.shut = up[c].shut
    <3>1. p \in PipeType(Asked) /\ p.frames = Tail(up[c].frames) /\ p.shut = up[c].shut
      BY <1>2, <2>1, PoppedPipe
    <3>2. Tail(up[c].frames) \in Seq(FrameType(Asked)) /\ Len(Tail(up[c].frames)) = 0
      BY <1>2, <2>1, TailFacts
    <3>3. Tail(up[c].frames) = <<>>
      BY <3>2, EmptySeq
    <3> QED
      BY <3>1, <3>3
  <2>3. up' = [up EXCEPT ![c] = p] /\ UNCHANGED <<down, subs>>
    BY <1>4, <1>8
  <2> HIDE DEF p
  <2>4. /\ up' \in [Conns -> PipeType(Asked)] /\ Kept(up, up', c)
        /\ up'[c].frames = <<>> /\ up'[c].shut = up[c].shut
    BY <1>2, <2>2, <2>3, Update
  <2>5. Fixed \subseteq B
    BY <1>2 DEF Typed
  <2>6. CASE q = Unknown
    <3> DEFINE t == Tell(task[c], "Unsupported")
               b == Failure("Unsupported")
    <3>1. t \in TaskType(B) /\ t.out = <<b>> /\ t.at = "telling" /\ t.req = {}
      BY <1>2, <1>3, <2>5, TellTyped
    <3>2. task' = [task EXCEPT ![c] = t]
      BY <1>4, <1>8, <2>1, <2>6
    <3>3. b.is = "Failed" /\ b.kind = "Unsupported"
      BY DEF Failure
    <3> HIDE DEF t, b
    <3>4. task' \in [Conns -> TaskType(B)] /\ task'[c] = t /\ Kept(task, task', c)
      BY <1>2, <3>1, <3>2, Update
    <3>5. Says(B, c, t, b)
      BY <3>1, <3>3, <3>4 DEF Says
    <3> QED
      BY <1>1, <1>3, <2>1, <2>3, <2>4, <3>5, SaysCall
  <2>7. CASE q # Unknown
    <3> DEFINE h == Handle(task[c], q)
    <3>1. q.type \in Methods
      BY <1>2, <2>7, ScriptAssumption
    <3>2. /\ h \in TaskType(B) /\ h.req = {q} /\ h.parts = <<>>
          /\ q.type = "GetVersion" => h.at = "sending" /\ h.out = <<Version>>
          /\ q.type # "GetVersion" => h.at = "asking" /\ h.out = <<>> /\ h.trips = Trips(q)
      BY <1>2, <1>3, <2>5, <3>1, HandleTyped
    <3>3. task' = [task EXCEPT ![c] = h]
      BY <1>4, <1>8, <2>1, <2>7
    <3>a. h \in TaskType(B)
      BY <3>2
    <3> HIDE DEF h
    <3>4. task' \in [Conns -> TaskType(B)] /\ task'[c] = h /\ Kept(task, task', c)
      BY <1>2, <3>a, <3>3, Update
    <3>5. CASE q.type = "GetVersion"
      <4> DEFINE b == Version
      <4>1. b.is = Variant(q) /\ b.is = "Version" /\ h.out = <<b>>
        BY <3>1, <3>2, <3>5, VariantOf DEF Version
      <4> HIDE DEF b
      <4>2. Says(B, c, h, b)
        BY <3>2, <3>4, <3>5, <4>1 DEF Says
      <4> QED
        BY <1>1, <1>3, <2>1, <2>3, <2>4, <4>2, SaysCall
    <3>6. CASE q.type # "GetVersion"
      <4>1. /\ Trips(q) # <<>> /\ Trips(q) \in Seq(ToSet(Trips(q)))
            /\ (q.type # "GetStatus" => Len(Trips(q)) = 1)
        BY <1>2, <3>1, <3>6, TripsOf
      <4>2. call[c].at = "open" \/ call[c].end = "Dropped"
        BY <1>2, <1>3, <2>1 DEF Works, Wrote, CallType, Typed
      <4>3. Typed(B, E)' /\ QueueOk'
        BY <1>1, <1>2, <2>3, <2>4, <3>4, StillQueue DEF Typed
      <4>4. Sent(c)' = Sent(c)
        BY <1>1, <1>3, <2>3, <3>2, <3>4, <3>6 DEF Sent
      <4>5. Asks(c)'
        BY <1>1, <1>2, <1>3, <2>4, <3>2, <3>4, <3>6 DEF Asks
      <4>6. Works(c)' /\ Waits(c)'
        BY <1>1, <1>2, <1>3, <1>6, <2>3, <3>1, <3>2, <3>4, <3>6, <4>1, <4>2 DEF Works, Waits
      <4>7. Answers(c)'
        BY <1>1, <1>2, <1>3, <2>3, <3>2, <3>4, <3>6, <4>4 DEF Answers
      <4>8. Outcome(c)'
        BY <1>1, <1>2, <1>3, <2>3, <3>2, <3>4, <3>6 DEF Outcome
      <4>9. Wrote(c)'
        BY <1>1, <1>2, <1>3, <1>6, <2>1, <3>2, <3>4, <3>6, <4>4 DEF Wrote
      <4>10. \A x \in Conns \ {c} : Still(x)
        BY <1>1, <2>3, <2>4, <3>4 DEF Still, Kept, Queued
      <4> QED
        BY <1>1, <4>3, <4>5, <4>6, <4>7, <4>8, <4>9, <4>10, LocalStep DEF ConnOk
    <3> QED
      BY <3>5, <3>6
  <2> QED
    BY <2>6, <2>7
<1>9. CASE r.is \notin {"more", "frame"}
  <2>1. Leave(c) /\ UNCHANGED up
    BY <1>4, <1>9
  <2>2. Noted(B, c)
    BY <1>1, <1>2 DEF Noted, Kept
  <2>3. call[c].at = "open" => ~up[c].shut /\ up[c].frames # <<>>
    BY <1>2, <1>3 DEF Asks
  <2>4. call[c].at = "open" => q = Unknown
    <3> SUFFICES ASSUME call[c].at = "open" PROVE q = Unknown
      OBVIOUS
    <3>1. up[c].frames # <<>> /\ up[c].frames[1].len > MaxLen
      BY <1>5, <1>9, <2>3 DEF Yields
    <3>2. up[c].frames[1].len \in Nat
      <4>1. up[c].frames[1] \in FrameType(Asked)
        BY <1>2, <3>1, TailFacts
      <4> QED
        BY <4>1 DEF FrameType
    <3>3. ~ (up[c].frames[1].len <= MaxLen)
      BY <3>1, <3>2, FrameAssumption
    <3> QED
      BY <1>2, <3>1, <3>3 DEF Asks
  <2> QED
    BY <1>1, <1>3, <2>1, <2>2, <2>3, <2>4, LeaveCall
<1> QED
  BY <1>7, <1>8, <1>9

-----------------------------------------------------------------------------
(* The mainloop's turns.                                                   *)

\* An answer the request of c can have.
Suits(B, c, a) ==
  LET q == call[c].asked
  IN /\ a.is = "Failed" => a.kind \in {"Internal", "Rejected"}
     /\ a.is # "Failed" =>
          /\ q.type = "GetStatus" => a \in B /\ NodeStatus(Append(task[c].parts, a)) \in B
          /\ q.type \in Many =>
               a.frames \in Seq(B) /\ \A b \in ToSet(a.frames) : b.is = Variant(q)
          /\ q.type \notin Many \cup {"GetStatus"} => a \in B /\ a.is = Variant(q)

\* What a waiting handler makes of it.
Replied(B, c, a) ==
  LET q == call[c].asked   t == task'[c]
  IN /\ task' \in [Conns -> TaskType(B)] /\ Kept(task, task', c) /\ t.req = {q}
     /\ \/ a.is = "Failed" /\ t.at = "telling" /\ t.out = <<Failure(a.kind)>>
        \/ /\ a.is # "Failed" /\ q.type = "GetStatus" /\ t.at = "asking" /\ t.out = <<>>
           /\ t.trips = task[c].trips /\ t.trips # <<>>
        \/ /\ a.is # "Failed" /\ t.at = "sending" /\ (q.type \notin Many => t.out # <<>>)
           /\ \A b \in ToSet(t.out) : b.is = Variant(q) /\ (b.is = "Written" => b = a)

LEMMA ReplyStep ==
  ASSUME NEW B, NEW E, CallInv(B, E), NEW c \in Conns, task[c].at = "waiting",
         NEW a, Suits(B, c, a), Reply(c, a)
  PROVE  Replied(B, c, a)
<1> DEFINE q == call[c].asked
           parts == Append(task[c].parts, a)
<1>1. /\ Typed(B, E) /\ Works(c) /\ task \in [Conns -> TaskType(B)] /\ task[c] \in TaskType(B)
      /\ q \in Asked
  BY ConnFacts
<1>2. /\ task[c].req = {q} /\ q.type \in Methods \ {"GetVersion"} /\ task[c].out = <<>>
      /\ (q.type # "GetStatus" => task[c].parts = <<>> /\ Len(task[c].trips) = 0)
  BY <1>1 DEF Works
<1>3. task[c].parts \in Seq(B) /\ task[c].trips \in Seq(TripNames)
  BY <1>1 DEF TaskType
<1>4. ASSUME NEW t \in TaskType(B), task' = [task EXCEPT ![c] = t]
      PROVE  task' \in [Conns -> TaskType(B)] /\ Kept(task, task', c) /\ task'[c] = t
  BY <1>1, <1>4, Update
<1>5. CASE a.is = "Failed"
  <2> DEFINE t == Tell(task[c], a.kind)
  <2>1. t \in TaskType(B) /\ t.out = <<Failure(a.kind)>> /\ t.at = "telling" /\ t.req = {q}
    BY <1>1, <1>2, <1>5, TellTyped DEF Typed, Suits
  <2>2. task' = [task EXCEPT ![c] = t]
    BY <1>5 DEF Reply, Takes
  <2> HIDE DEF t
  <2> QED
    BY <1>4, <1>5, <2>1, <2>2 DEF Replied
<1>6. CASE a.is # "Failed" /\ task[c].trips # <<>>
  <2> DEFINE t == [task[c] EXCEPT !.at = "asking", !.parts = parts]
  <2>1. q.type = "GetStatus"
    BY <1>2, <1>3, <1>6, EmptySeq
  <2>2. parts \in Seq(B)
    BY <1>3, <1>6, <2>1 DEF Suits
  <2>3. task' = [task EXCEPT ![c] = t]
    BY <1>1, <1>6 DEF Reply, Takes
  <2> HIDE DEF parts
  <2>4. t \in TaskType(B) /\ t.at = "asking" /\ t.req = {q} /\ t.out = <<>>
        /\ t.trips = task[c].trips
    BY <1>1, <1>2, <2>2 DEF TaskType
  <2> HIDE DEF t
  <2> QED
    BY <1>4, <1>6, <2>1, <2>3, <2>4 DEF Replied
<1>7. CASE a.is # "Failed" /\ task[c].trips = <<>>
  <2> DEFINE out == CASE q.type = "GetVersion"   -> <<Version>>
                      [] q.type = "GetStatus"    -> <<NodeStatus(parts)>>
                      [] q.type = "GetEnvelopes" -> parts[1].frames
                      [] q.type = "Watch"        -> parts[1].frames
                      [] OTHER                   -> parts
             t == [task[c] EXCEPT !.at = "sending", !.trips = <<>>, !.parts = <<>>, !.out = out]
  <2>1. (CHOOSE x \in task[c].req : TRUE) = q
    BY <1>2
  <2>2. Respond(task[c], parts) = t
    BY <2>1 DEF Respond
  <2>3. task' = [task EXCEPT ![c] = Respond(task[c], parts)]
    BY <1>7 DEF Reply, Takes
  <2>4. q.type # "GetStatus" => parts = <<a>> /\ parts[1] = a
    <3>1. Append(<<>>, a) = <<a>> /\ <<a>>[1] = a
      OBVIOUS
    <3> QED
      BY <1>2, <3>1
  <2>5. /\ out \in Seq(B) /\ (q.type \notin Many => out # <<>>)
        /\ \A b \in ToSet(out) : b.is = Variant(q) /\ (b.is = "Written" => b = a)
    <3>1. CASE q.type = "GetStatus"
      <4>1. out = <<NodeStatus(parts)>>
        BY <3>1
      <4>2. NodeStatus(parts) \in B /\ Variant(q) = "Status" /\ NodeStatus(parts).is = "Status"
        BY <1>2, <1>7, <3>1, VariantOf DEF Suits, NodeStatus
      <4> HIDE DEF parts, out
      <4>3. ToSet(out) = {NodeStatus(parts)} /\ out \in Seq(B) /\ out # <<>>
        BY <4>1, <4>2 DEF ToSet
      <4> QED
        BY <4>2, <4>3
    <3>2. CASE q.type \in Many
      <4>1. out = a.frames
        BY <2>4, <3>2 DEF Many
      <4>2. a.frames \in Seq(B) /\ \A b \in ToSet(a.frames) : b.is = Variant(q)
        BY <1>7, <3>2 DEF Suits
      <4>3. Variant(q) # "Written"
        BY <1>2, <3>2, VariantOf DEF Many
      <4> HIDE DEF out
      <4> QED
        BY <3>2, <4>1, <4>2, <4>3
    <3>3. CASE q.type \notin Many \cup {"GetStatus"}
      <4>1. out = <<a>>
        BY <1>2, <2>4, <3>3 DEF Many
      <4>2. a \in B /\ a.is = Variant(q)
        BY <1>7, <3>3 DEF Suits
      <4> HIDE DEF out
      <4>3. ToSet(out) = {a} /\ out \in Seq(B) /\ out # <<>>
        BY <4>1, <4>2 DEF ToSet
      <4> QED
        BY <4>2, <4>3
    <3> QED
      BY <3>1, <3>2, <3>3
  <2>6. <<>> \in Seq(B) /\ <<>> \in Seq(TripNames)
    OBVIOUS
  <2> HIDE DEF out
  <2>7. t \in TaskType(B) /\ t.at = "sending" /\ t.req = {q} /\ t.out = out
    BY <1>1, <1>2, <2>5, <2>6 DEF TaskType
  <2>8. task' = [task EXCEPT ![c] = t]
    BY <2>2, <2>3
  <2> HIDE DEF t
  <2>9. task' \in [Conns -> TaskType(B)] /\ Kept(task, task', c) /\ task'[c] = t
    BY <1>4, <2>7, <2>8
  <2> QED
    BY <1>7, <2>5, <2>7, <2>9 DEF Replied
<1> QED
  BY <1>5, <1>6, <1>7

\* The message at the head of the queue, and the queue once it is taken.
LEMMA HeadMsg ==
  ASSUME NEW B, NEW E, CallInv(B, E), queue # <<>>
  PROVE  /\ Head(queue) = queue[1] /\ queue[1] \in MsgType /\ 1 \in DOMAIN queue
         /\ queue[1].conn \in Conns /\ queue[1].req = call[queue[1].conn].asked
         /\ queue[1].trip \in ToSet(Trips(queue[1].req))
         /\ queue[1].req \in Asked /\ queue[1].req.type \in Methods \ {"GetVersion"}
<1>1. QueueOk /\ queue \in Seq(MsgType)
  BY DEF CallInv, Typed
<1>2. Head(queue) = queue[1] /\ queue[1] \in MsgType /\ 1 \in DOMAIN queue
  BY <1>1, TailFacts
<1>3. queue[1].conn \in Conns /\ queue[1].req \in Asked
  BY <1>2 DEF MsgType
<1> QED
  BY <1>1, <1>2, <1>3 DEF QueueOk

LEMMA TakesStep ==
  ASSUME NEW B, NEW E, CallInv(B, E), queue # <<>>, queue' = Tail(queue),
         UNCHANGED <<call, daemon>>, NEW c \in Conns, Head(queue).conn = c
  PROVE  /\ QueueOk' /\ queue' \in Seq(MsgType) /\ Queued(c) /\ ~Queued(c)'
         /\ call[c].asked.type \in Methods \ {"GetVersion"}
         /\ \A x \in Conns : Queued(x)' => Queued(x)
<1>1. QueueOk /\ queue \in Seq(MsgType)
  BY DEF CallInv, Typed
<1>2. /\ queue[1].conn = c /\ 1 \in DOMAIN queue /\ queue[1].req = call[c].asked
      /\ queue[1].req.type \in Methods \ {"GetVersion"}
  BY HeadMsg
<1>3. /\ Len(queue) \in Nat \ {0} /\ queue' \in Seq(MsgType) /\ DOMAIN queue = 1 .. Len(queue)
      /\ DOMAIN queue' = 1 .. Len(queue) - 1
      /\ \A i \in 1 .. Len(queue) - 1 : queue'[i] = queue[i + 1]
  BY <1>1, TailFacts
<1>4. \A i \in DOMAIN queue' : i + 1 \in DOMAIN queue /\ queue'[i] = queue[i + 1] /\ i + 1 # 1
  BY <1>3
<1>5. QueueOk'
  <2>1. daemon' # "up" => queue' = <<>>
    BY <1>1 DEF QueueOk
  <2>2. ASSUME NEW i \in DOMAIN queue', NEW j \in DOMAIN queue', queue'[i].conn = queue'[j].conn
        PROVE  i = j
    <3>1. i + 1 = j + 1
      BY <1>1, <1>4, <2>2 DEF QueueOk
    <3> QED
      BY <1>3, <3>1
  <2>3. \A i \in DOMAIN queue' :
          /\ queue'[i].req = call'[queue'[i].conn].asked
          /\ queue'[i].trip \in ToSet(Trips(queue'[i].req))
          /\ queue'[i].req.type \in Methods \ {"GetVersion"}
    BY <1>1, <1>4 DEF QueueOk
  <2> QED
    BY <2>1, <2>2, <2>3 DEF QueueOk
<1>6. Queued(c)
  BY <1>2 DEF Queued
<1>7. ~Queued(c)'
  BY <1>1, <1>2, <1>4 DEF QueueOk, Queued
<1>8. \A x \in Conns : Queued(x)' => Queued(x)
  BY <1>4 DEF Queued
<1> QED
  BY <1>2, <1>3, <1>5, <1>6, <1>7, <1>8

\* What a turn leaves of the history at c, and of its subscription.
Turned(B, c, a) ==
  /\ seen' \in [Conns -> SeenType(B)] /\ Kept(seen, seen', c)
  /\ seen'[c].unsent = seen[c].unsent /\ Len(seen'[c].wrote) <= 1
  /\ call[c].asked.type \notin Writes => seen'[c].wrote = <<>>
  /\ a.is = "Written" => seen'[c].wrote = <<a.digest>>
  /\ (a.is = "Failed" /\ a.kind = "Rejected") => seen'[c].wrote = <<>>
  /\ subs' \in [Conns -> SubType(B)] /\ subs'[c].pending = <<>>
  /\ subs'[c].live => /\ call[c].asked.type = "Watch" /\ task[c].at = "waiting"
                      /\ a.is # "Failed"

\* A turn answers one connection; the others may be told of a movement.
LEMMA TurnCall ==
  ASSUME NEW B, NEW E, CallInv(B, E), queue # <<>>, daemon = "up", NEW c \in Conns,
         Head(queue).conn = c, NEW a, Suits(B, c, a), Reply(c, a), Turned(B, c, a),
         queue' = Tail(queue), UNCHANGED <<call, up, down, daemon>>,
         core' \in CoreType(E), core'.chain # <<>>,
         \A x \in Conns \ {c} :
           /\ subs'[x].live = subs[x].live
           /\ \/ subs'[x].pending = subs[x].pending
              \/ subs[x].live /\ \A b \in ToSet(subs'[x].pending) : b.is = "Watch"
  PROVE  CallInv(B, E)'
<1> DEFINE q == call[c].asked
<1>1. Typed(B, E) /\ QueueOk /\ Asks(c) /\ Works(c) /\ Answers(c) /\ Outcome(c) /\ Wrote(c)
      /\ Waits(c) /\ task \in [Conns -> TaskType(B)]
  BY ConnFacts
<1>2. /\ QueueOk' /\ queue' \in Seq(MsgType) /\ Queued(c) /\ ~Queued(c)'
      /\ q.type \in Methods \ {"GetVersion"} /\ \A x \in Conns : Queued(x)' => Queued(x)
  BY TakesStep
<1>3. /\ task[c].at = "waiting" \/ (task[c].at = "ended" /\ call[c].end = "Dropped")
      /\ down[c].frames = <<>> /\ call[c].got = <<>> /\ task[c].out = <<>> /\ seen[c].wrote = <<>>
      /\ ~subs[c].live
  BY <1>1, <1>2 DEF Waits, Wrote, Works
<1>4. ToSet(call[c].got) = {} /\ Bodies(down[c].frames) = {}
  BY <1>3 DEF ToSet, Bodies
<1>5. ASSUME task' \in [Conns -> TaskType(B)], Kept(task, task', c), ConnOk(c)'
      PROVE  CallInv(B, E)'
  <2>1. Typed(B, E)'
    BY <1>1, <1>2, <1>5 DEF Typed, Turned
  <2>2. \A x \in Conns \ {c} : Still(x)
    BY <1>2, <1>5 DEF Still, Kept, Turned
  <2> QED
    BY <1>2, <1>5, <2>1, <2>2, LocalStep
<1>6. CASE task[c].at # "waiting"
  <2>1. task' = task
    <3>1. task' = [task EXCEPT ![c] = task[c]]
      BY <1>6 DEF Reply, Takes
    <3> QED
      BY <1>1, <3>1
  <2>2. task[c].at = "ended" /\ call[c].end = "Dropped" /\ ~subs'[c].live
    BY <1>3, <1>6 DEF Turned
  <2>3. Sent(c)' = {}
    BY <1>3, <1>4, <2>1 DEF Sent, ToSet
  <2>4. Asks(c)'
    BY <1>1, <2>1, <2>2 DEF Asks
  <2>5. Works(c)' /\ Waits(c)'
    BY <1>1, <1>2, <2>1, <2>2 DEF Works, Waits, Turned, ToSet
  <2>6. Answers(c)'
    BY <1>1, <2>1, <2>2, <2>3 DEF Answers
  <2>7. Outcome(c)'
    BY <1>1, <2>1, <2>2 DEF Outcome, Asks
  <2>8. Wrote(c)'
    BY <1>1, <1>2, <2>1, <2>2, <2>3 DEF Wrote, Turned
  <2> QED
    BY <1>1, <1>5, <2>1, <2>4, <2>5, <2>6, <2>7, <2>8 DEF ConnOk, Kept
<1>7. CASE task[c].at = "waiting"
  <2> DEFINE t == task'[c]
  <2>1. Replied(B, c, a)
    BY <1>7, ReplyStep
  <2>2. /\ up[c].frames = <<>> /\ call[c].at # "idle" /\ ~down[c].shut
        /\ call[c].end \notin {"Ok", "Failed", "Connect", "FrameTooLarge"}
        /\ (call[c].at = "open" \/ call[c].end = "Dropped")
        /\ task[c].trips \in Seq(ToSet(Trips(q)))
    BY <1>1, <1>3, <1>7 DEF Asks, Answers, Wrote, Works
  <2>3. t.at \in {"asking", "sending", "telling"} /\ t.req = {q}
    BY <2>1 DEF Replied
  <2>4. Sent(c)' = ToSet(t.out)
    BY <1>4 DEF Sent
  <2>5. /\ \A b \in ToSet(t.out) : 
             b.is = Variant(q) \/ (b.is = "Failed" /\ a.is = "Failed" /\ b.kind = a.kind)
        /\ \A b \in ToSet(t.out) : b.is = "Written" => b = a
    <3>1. CASE t.out = <<Failure(a.kind)>> /\ a.is = "Failed"
      <4>1. ToSet(t.out) = {Failure(a.kind)}
        BY <3>1 DEF ToSet
      <4>2. Failure(a.kind).is = "Failed" /\ Failure(a.kind).kind = a.kind
        BY DEF Failure
      <4> QED
        BY <3>1, <4>1, <4>2
    <3>2. CASE t.out = <<>>
      BY <3>2 DEF ToSet
    <3> QED
      BY <2>1, <3>1, <3>2 DEF Replied
  <2>a. t.at \in {"asking", "telling"} \/ a.is # "Failed"
    BY <2>1 DEF Replied
  <2>b. Variant(q) # "Failed"
    BY <1>2, VariantOf DEF Methods, Many, Writes
  <2>6. Asks(c)'
    BY <1>1, <2>2, <2>3 DEF Asks
  <2>7. Works(c)'
    BY <1>1, <1>2, <1>3, <2>1, <2>2 DEF Works, Turned, Replied, ToSet
  <2>8. Waits(c)'
    BY <1>2 DEF Waits
  <2>9. Answers(c)'
    BY <1>1, <1>3, <2>2, <2>3, <2>4, <2>5 DEF Answers
  <2>c. (t.at \in {"sending", "telling"} /\ q.type \notin Many) => t.out # <<>>
    <3>1. <<Failure(a.kind)>> # <<>>
      OBVIOUS
    <3> QED
      BY <2>1, <3>1 DEF Replied
  <2>10. Outcome(c)'
    BY <1>1, <1>3, <2>2, <2>3, <2>c DEF Outcome, Turned
  <2>11. \A b \in Sent(c)' : /\ b.is = "Written" => seen'[c].wrote = <<b.digest>>
                             /\ (b.is = "Failed" /\ b.kind = "Rejected") => seen'[c].wrote = <<>>
    BY <2>4, <2>5, <2>b DEF Turned
  <2>12. t.at = "asking" => seen'[c].wrote = <<>>
    BY <2>1 DEF Replied, Turned, Writes
  <2>13. Wrote(c)'
    BY <1>2, <2>2, <2>3, <2>11, <2>12 DEF Wrote, Turned
  <2> QED
    BY <1>5, <2>1, <2>6, <2>7, <2>8, <2>9, <2>10, <2>13 DEF ConnOk, Replied
<1> QED
  BY <1>6, <1>7

\* Server::read_envelopes answers with entries of the log.
LEMMA PickedSeq ==
  ASSUME NEW E, core \in CoreType(E), NEW q \in Asked, q.type = "GetEnvelopes"
  PROVE  ReadEnvelopes(core, q) \in Seq(E)
<1>1. core.chain \in Seq(E) /\ core.orphans \in Seq(E)
  BY DEF CoreType
<1>2. CASE "digests" \in DOMAIN q
  <2>1. q.digests \in Seq(Nat)
    BY <1>2, ScriptAssumption
  <2>2. Logged(core, q.digests) \in Seq(E)
    BY <1>1, <2>1, LoggedSeq
  <2> QED
    BY <1>2, <2>2 DEF ReadEnvelopes
<1>3. CASE ~ ("digests" \in DOMAIN q)
  <2>1. q.limit \in SUBSET Nat
    BY <1>3, ScriptAssumption
  <2>2. PICK s \in 0 .. Len(core.chain) :
          /\ CanonicalChain(core, q.limit, q.since) = SubSeq(core.chain, 1 + s, Len(core.chain))
          /\ \A l \in q.limit : Len(core.chain) - s <= l
    BY <1>1, <2>1, CanonicalRun
  <2>3. Len(core.chain) \in Nat /\ \A i \in 1 .. Len(core.chain) : core.chain[i] \in E
    BY <1>1
  <2>4. SubSeq(core.chain, 1 + s, Len(core.chain)) \in Seq(E)
    <3>1. 1 + s \in Int /\ Len(core.chain) \in Int
          /\ \A i \in 1 + s .. Len(core.chain) : core.chain[i] \in E
      BY <2>3
    <3> QED
      BY <3>1, SubSeqProperties
  <2> QED
    BY <1>3, <2>2, <2>4 DEF ReadEnvelopes
<1> QED
  BY <1>2, <1>3

\* An answer of frames is what its request is answered with.
LEMMA FramesOf ==
  ASSUME NEW E, core \in CoreType(E), NEW m, m.req \in Asked,
         m.trip = m.req.type, m.req.type \in Many
  PROVE  /\ Reads(m).is = "Frames" /\ Reads(m).frames \in Seq(ToSet(Reads(m).frames))
         /\ \A b \in ToSet(Reads(m).frames) : b.is = Variant(m.req)
<1> DEFINE q == m.req
<1>a. q.type \in Methods
  BY DEF Methods
<1>1. CASE q.type = "GetEnvelopes"
  <2> DEFINE R == ReadEnvelopes(core, q)
             F == [i \in DOMAIN R |-> EnvelopeFrame(R[i])]
             S == {EnvelopeFrame(e) : e \in E}
  <2>1. Reads(m) = Frames(F)
    BY <1>1 DEF Reads
  <2>2. R \in Seq(E)
    BY <1>1, PickedSeq
  <2> HIDE DEF R
  <2>3. Len(R) \in Nat /\ DOMAIN R = 1 .. Len(R) /\ \A i \in 1 .. Len(R) : R[i] \in E
    BY <2>2
  <2>4. F \in [1 .. Len(R) -> S]
    BY <2>3
  <2>5. F \in Seq(S)
    BY <2>3, <2>4, SeqDef
  <2>6. \A b \in ToSet(F) : b.is = "Envelope"
    BY <2>3 DEF ToSet, EnvelopeFrame
  <2> HIDE DEF F, S
  <2>7. F \in Seq(ToSet(F))
    BY <2>5, OwnSet
  <2>8. Reads(m).is = "Frames" /\ Reads(m).frames = F
    BY <2>1 DEF Frames
  <2>9. Variant(q) = "Envelope"
    BY <1>a, <1>1, VariantOf
  <2> QED
    BY <2>6, <2>7, <2>8, <2>9
<1>2. CASE q.type = "Watch"
  <2>1. Variant(q) = "Watch"
    BY <1>a, <1>2, VariantOf
  <2>2. \/ Reads(m) = Frames(<<AlreadyOrphaned(q.digest)>>)
        \/ Reads(m) = Frames(<<>>)
    BY <1>2 DEF Reads
  <2>3. CASE Reads(m) = Frames(<<AlreadyOrphaned(q.digest)>>)
    <3> DEFINE b == AlreadyOrphaned(q.digest)
    <3>1. b.is = "Watch"
      BY DEF AlreadyOrphaned
    <3>2. Reads(m).is = "Frames" /\ Reads(m).frames = <<b>>
      BY <2>3 DEF Frames
    <3> HIDE DEF b
    <3>3. ToSet(<<b>>) = {b} /\ <<b>> \in Seq({b})
      BY DEF ToSet
    <3> QED
      BY <2>1, <3>1, <3>2, <3>3
  <2>4. CASE Reads(m) = Frames(<<>>)
    <3>1. Reads(m).is = "Frames" /\ Reads(m).frames = <<>>
      BY <2>4 DEF Frames
    <3>2. ToSet(<<>>) = {}
      BY DEF ToSet
    <3> QED
      BY <3>1, <3>2
  <2> QED
    BY <2>2, <2>3, <2>4
<1> QED
  BY <1>1, <1>2 DEF Many

\* Every other answer is of its request's variant, or a refusal.
LEMMA ReadsOf ==
  ASSUME NEW m, m.req \in Asked, m.req.type \in Methods \ {"GetVersion"},
         m.req.type \notin Writes \cup {"Compact"} \cup Many, m.trip \in ToSet(Trips(m.req))
  PROVE  /\ Reads(m).is # "Written"
         /\ Reads(m).is = "Failed" => Reads(m).kind = "Rejected"
         /\ m.req.type # "GetStatus" => Reads(m).is \in {"Failed", Variant(m.req)}
<1> DEFINE q == m.req
           a == Reads(m)
<1>1. /\ q.type \notin {"GetStatus", "GetChainRange"} => m.trip = q.type
      /\ q.type = "GetChainRange" => m.trip = "ChainRange"
      /\ q.type = "GetStatus" =>
           m.trip \in {"Identity", "ChainRange", "Peers", "PeerConnections", "Published"}
  BY TripsOf
<1>2. CASE q.type \in {"GetStatus", "GetChainRange"}
  <2>1. \/ m.trip = "ChainRange" /\ a.is = "ChainRange"
        \/ a.is \in {"Identity", "Peers", "PeerConnections", "Published"} /\ q.type = "GetStatus"
    BY <1>1, <1>2 DEF Reads, ChainRange
  <2>2. q.type = "GetChainRange" => Variant(q) = "ChainRange"
    BY VariantOf
  <2> HIDE DEF a
  <2>3. a.is \in {"ChainRange", "Identity", "Peers", "PeerConnections", "Published"}
    BY <2>1
  <2>4. q.type = "GetChainRange" => a.is = Variant(q)
    BY <1>1, <2>1, <2>2
  <2> QED
    BY <1>2, <2>3, <2>4 DEF a
<1>3. CASE q.type = "Read"
  <2>1. a.is = "Value"
    BY <1>1, <1>3 DEF Reads, ValueAt
  <2> QED
    BY <1>3, <2>1, VariantOf
<1>4. CASE q.type = "Query"
  <2>1. a.is = "Queried"
    BY <1>1, <1>4 DEF Reads, Queried
  <2> QED
    BY <1>4, <2>1, VariantOf
<1>5. CASE q.type = "ListNamespaces"
  <2>1. a.is = "Namespaces"
    BY <1>1, <1>5 DEF Reads, NamespaceList
  <2> QED
    BY <1>5, <2>1, VariantOf
<1>6. CASE q.type = "CreateInvite"
  <2>1. a = InviteCode(q.ttl) \/ a = Failure("Rejected")
    BY <1>1, <1>6 DEF Reads
  <2>2. a.is = "Invite" \/ (a.is = "Failed" /\ a.kind = "Rejected")
    BY <2>1 DEF InviteCode, Failure
  <2> QED
    BY <1>6, <2>2, VariantOf
<1> QED
  BY <1>2, <1>3, <1>4, <1>5, <1>6 DEF Methods, Writes, Many

\* Whoever holds the state may hold more answers and entries.
LEMMA WidenInv ==
  ASSUME NEW B, NEW E, NEW B2, NEW E2, B \subseteq B2, E \subseteq E2,
         \A e \in E2 : e.digest \in Nat, CallInv(B, E)
  PROVE  CallInv(B2, E2)
<1>1. Typed(B2, E2)
  BY Widen DEF CallInv
<1> QED
  BY <1>1 DEF CallInv

LEMMA TurnReadsCall ==
  ASSUME NEW B, NEW E, CallInv(B, E), TurnReads
  PROVE  \E B2, E2 : CallInv(B2, E2)'
<1>a. PICK m : m = queue[1]
  OBVIOUS
<1>b. PICK c : c = m.conn
  OBVIOUS
<1>c. PICK q : q = call[c].asked
  OBVIOUS
<1>d. PICK a : a = Reads(m)
  OBVIOUS
<1>e. PICK B2 : B2 = B \cup {a, NodeStatus(Append(task[c].parts, a))} \cup ToSet(a.frames)
  OBVIOUS
<1>1. queue # <<>> /\ daemon = "up" /\ queue' = Tail(queue)
      /\ UNCHANGED <<call, up, down, core, daemon>>
  BY DEF TurnReads
<1>2. /\ Head(queue) = m /\ c \in Conns /\ m.req = q /\ m.trip \in ToSet(Trips(q))
      /\ q \in Asked /\ q.type \in Methods \ {"GetVersion"}
  BY <1>1, <1>a, <1>b, <1>c, HeadMsg
<1>3. /\ q.type \notin Writes \cup {"Compact"} /\ Reply(c, a)
      /\ subs' = [subs EXCEPT ![c].live = @ \/ Registers(m)]
      /\ seen' = [seen EXCEPT
           ![c].beside = IF m.trip = "Read" THEN {x \in Conns : subs[x].live} ELSE @,
           ![c].picked = IF m.trip = "GetEnvelopes" THEN a.frames ELSE @,
           ![c].head = NewestOf(core).digest]
  BY <1>2, <1>b, <1>d DEF TurnReads
<1>4. /\ Typed(B, E) /\ core \in CoreType(E) /\ core.chain # <<>>
      /\ \A e \in E : e.digest \in Nat
  BY <1>1 DEF CallInv, Typed
<1>5. q.type \in Many => m.trip = q.type
  BY <1>2, TripsOf DEF Many
<1>6. q.type \in Many => /\ a.is = "Frames" /\ a.frames \in Seq(ToSet(a.frames))
                         /\ \A b \in ToSet(a.frames) : b.is = Variant(q)
  BY <1>2, <1>4, <1>5, <1>d, FramesOf
<1>7. q.type \notin Many => /\ a.is # "Written" /\ (a.is = "Failed" => a.kind = "Rejected")
                            /\ (q.type # "GetStatus" => a.is \in {"Failed", Variant(q)})
  BY <1>2, <1>3, <1>d, ReadsOf
<1>8. CallInv(B2, E)
  <2>1. B \subseteq B2
    BY <1>e
  <2> QED
    BY <1>4, <2>1, WidenInv
<1>9. a \in B2 /\ NodeStatus(Append(task[c].parts, a)) \in B2 /\ ToSet(a.frames) \subseteq B2
  BY <1>e
<1>10. m.trip = "Watch" => q.type = "Watch"
  BY <1>2, TripsOf
<1>11. m.trip = "GetEnvelopes" => q.type = "GetEnvelopes"
  BY <1>2, TripsOf
<1>12. Registers(m) => q.type = "Watch" /\ task[c].at = "waiting"
  BY <1>10, <1>b DEF Registers
<1>13. q.type \in Many => a.frames \in Seq(B2)
  BY <1>6, <1>9, SeqMonotonic
<1>14. Suits(B2, c, a)
  BY <1>6, <1>7, <1>9, <1>13, <1>c DEF Suits
<1>15. /\ Works(c) /\ Waits(c) /\ Wrote(c) /\ seen \in [Conns -> SeenType(B2)]
       /\ subs \in [Conns -> SubType(B2)]
  BY <1>2, <1>8, ConnFacts
<1>16. Queued(c)
  BY <1>1, <1>8, <1>a, <1>b, HeadMsg DEF Queued
<1>17. seen[c].wrote = <<>> /\ ~subs[c].live /\ subs[c].pending = <<>>
  BY <1>15, <1>16 DEF Works, Waits, Wrote
<1>18. NewestOf(core).digest \in Nat
  <2>1. core.chain \in Seq(E)
    BY <1>4 DEF CoreType
  <2>2. core.chain[Len(core.chain)] \in E
    BY <1>4, <2>1
  <2> QED
    BY <1>4, <2>2 DEF NewestOf, Last
<1> DEFINE beside == IF m.trip = "Read" THEN {x \in Conns : subs[x].live} ELSE seen[c].beside
           picked == IF m.trip = "GetEnvelopes" THEN a.frames ELSE seen[c].picked
           head == NewestOf(core).digest
           n == [seen[c] EXCEPT !.beside = beside, !.picked = picked, !.head = head]
           s == [subs[c] EXCEPT !.live = subs[c].live \/ Registers(m)]
<1>19. beside \in SUBSET Conns /\ picked \in Seq(B2) /\ head \in Nat
  <2>1. seen[c] \in SeenType(B2)
    BY <1>2, <1>15
  <2> QED
    BY <1>11, <1>13, <1>18, <2>1 DEF SeenType, Many
<1>20. seen' = [seen EXCEPT ![c] = n]
  BY <1>2, <1>3, <1>15
<1>21. subs' = [subs EXCEPT ![c] = s]
  BY <1>2, <1>3, <1>15
<1> HIDE DEF beside, picked, head
<1>22. n \in SeenType(B2) /\ n.wrote = <<>> /\ n.unsent = seen[c].unsent
  <2>1. seen[c] \in SeenType(B2)
    BY <1>2, <1>15
  <2>2. n \in SeenType(B2)
    BY <1>19, <2>1 DEF SeenType
  <2>3. n.wrote = seen[c].wrote /\ n.unsent = seen[c].unsent
    BY <2>1 DEF SeenType
  <2> QED
    BY <1>17, <2>2, <2>3
<1>23. s \in SubType(B2) /\ s.live = Registers(m) /\ s.pending = <<>>
  <2>1. subs[c] \in SubType(B2) /\ Registers(m) \in BOOLEAN
    BY <1>2, <1>15 DEF Registers
  <2> QED
    BY <1>17, <2>1 DEF SubType
<1> HIDE DEF n, s
<1>24. seen' \in [Conns -> SeenType(B2)] /\ seen'[c] = n /\ Kept(seen, seen', c)
  BY <1>2, <1>15, <1>20, <1>22, Update
<1>25. subs' \in [Conns -> SubType(B2)] /\ subs'[c] = s /\ Kept(subs, subs', c)
  BY <1>2, <1>15, <1>21, <1>23, Update
<1>26. Turned(B2, c, a)
  <2>1. Len(<<>>) <= 1
    OBVIOUS
  <2>2. a.is # "Written" /\ (q.type = "Watch" => a.is # "Failed")
    BY <1>6, <1>7 DEF Many
  <2> QED
    BY <1>12, <1>22, <1>23, <1>24, <1>25, <1>c, <2>1, <2>2 DEF Turned
<1>27. CallInv(B2, E)'
  BY <1>1, <1>2, <1>3, <1>4, <1>8, <1>14, <1>25, <1>26, <1>b, TurnCall DEF Kept
<1> QED
  BY <1>27

\* What a sequence holds, put together.
LEMMA ConcatSet ==
  ASSUME NEW S, NEW s \in Seq(S), NEW t \in Seq(S)
  PROVE  ToSet(s \o t) = ToSet(s) \cup ToSet(t)
<1> DEFINE u == s \o t
<1>1. /\ u \in Seq(S) /\ Len(u) = Len(s) + Len(t)
      /\ \A i \in 1 .. Len(s) + Len(t) : u[i] = IF i <= Len(s) THEN s[i] ELSE t[i - Len(s)]
  BY ConcatProperties
<1> HIDE DEF u
<1>2. PICK m, n : m = Len(s) /\ n = Len(t)
  OBVIOUS
<1>3. m \in Nat /\ n \in Nat /\ DOMAIN s = 1 .. m /\ DOMAIN t = 1 .. n /\ DOMAIN u = 1 .. m + n
  BY <1>1, <1>2
<1>4. \A i \in 1 .. m + n : u[i] = IF i <= m THEN s[i] ELSE t[i - m]
  BY <1>1, <1>2
<1>5. \A i \in 1 .. m : i \in 1 .. m + n /\ u[i] = s[i]
  BY <1>3, <1>4
<1>6. ASSUME NEW i \in 1 .. n PROVE m + i \in 1 .. m + n /\ u[m + i] = t[i]
  <2>1. m + i \in 1 .. m + n /\ ~ (m + i <= m) /\ (m + i) - m = i
    BY <1>3
  <2> QED
    BY <1>4, <2>1
<1>7. \A i \in 1 .. m + n : i \in 1 .. m \/ (i - m \in 1 .. n /\ u[i] = t[i - m])
  BY <1>3, <1>4
<1>8. \A x \in ToSet(u) : x \in ToSet(s) \cup ToSet(t)
  BY <1>3, <1>5, <1>7 DEF ToSet
<1>9. \A x \in ToSet(s) \cup ToSet(t) : x \in ToSet(u)
  BY <1>3, <1>5, <1>6 DEF ToSet
<1> QED
  BY <1>8, <1>9 DEF u

\* The core k moves to `new`, which keeps the oldest n entries of the chain and
\* has e on top of them.
Moves(E, k, back, m, n, e, new) ==
  /\ k \in CoreType(E) /\ back \in Nat /\ back < Len(k.chain) /\ n = Len(k.chain) - back
  /\ e = Minted(k, k.chain[n], m) /\ new = Moved(k, back, m)

MovedTo(E, k, m, n, e, new) ==
  /\ new \in CoreType(E \cup {e}) /\ new.chain # <<>> /\ n \in Nat \ {0}
  /\ new.minted = k.minted + 1 /\ e.digest = k.minted + 1 /\ new.minted \in Nat
  /\ e.prev = k.chain[n].digest /\ e.key = m.key /\ e.state = After(k.chain[n].state, m)
  /\ Len(new.chain) = n + 1 /\ new.chain[n + 1] = e /\ NewestOf(new) = e
  /\ \A i \in 1 .. n : new.chain[i] = k.chain[i]
  /\ ToSet(new.orphans) = ToSet(k.orphans) \cup {k.chain[i] : i \in n + 1 .. Len(k.chain)}

LEMMA MovedCore ==
  ASSUME NEW E, NEW k, NEW back, NEW m, NEW n, NEW e, NEW new, Moves(E, k, back, m, n, e, new)
  PROVE  MovedTo(E, k, m, n, e, new)
<1> USE DEF Moves
<1> DEFINE kept == SubSeq(k.chain, 1, n)
           undone == SubSeq(k.chain, n + 1, Len(k.chain))
<1>1. /\ k.chain \in Seq(E) /\ k.orphans \in Seq(E) /\ k.minted \in Nat
      /\ Len(k.chain) \in Nat /\ \A i \in 1 .. Len(k.chain) : k.chain[i] \in E
  BY DEF CoreType
<1>2. n \in Nat \ {0} /\ n <= Len(k.chain)
  BY <1>1
<1>3. /\ new.chain = Append(kept, e) /\ new.orphans = k.orphans \o undone
      /\ new = [chain |-> new.chain, orphans |-> new.orphans, minted |-> k.minted + 1]
      /\ new.minted = k.minted + 1
  BY DEF Moved
<1>4. kept \in Seq(E) /\ Len(kept) = n /\ \A i \in 1 .. n : kept[i] = k.chain[i]
  <2>1. 1 \in Int /\ n \in Int /\ \A i \in 1 .. n : k.chain[i] \in E
    BY <1>1, <1>2
  <2>2. /\ kept \in Seq(E) /\ Len(kept) = IF 1 <= n THEN n - 1 + 1 ELSE 0
        /\ \A i \in 1 .. n - 1 + 1 : kept[i] = k.chain[1 + i - 1]
    BY <2>1, SubSeqProperties
  <2> QED
    BY <1>2, <2>2
<1>5. /\ undone \in Seq(E) /\ Len(undone) = back
      /\ \A i \in 1 .. back : undone[i] = k.chain[n + i]
  <2>1. n + 1 \in Int /\ Len(k.chain) \in Int
        /\ \A i \in n + 1 .. Len(k.chain) : k.chain[i] \in E
    BY <1>1, <1>2
  <2>2. /\ undone \in Seq(E)
        /\ Len(undone) = IF n + 1 <= Len(k.chain) THEN Len(k.chain) - (n + 1) + 1 ELSE 0
        /\ \A i \in 1 .. Len(k.chain) - (n + 1) + 1 : undone[i] = k.chain[n + 1 + i - 1]
    BY <2>1, SubSeqProperties
  <2> QED
    BY <1>1, <1>2, <2>2
<1> HIDE DEF kept, undone
<1>6. /\ new.chain \in Seq(E \cup {e}) /\ Len(new.chain) = n + 1 /\ new.chain[n + 1] = e
      /\ \A i \in 1 .. n : new.chain[i] = k.chain[i]
  <2>1. kept \in Seq(E \cup {e})
    BY <1>4, SeqMonotonic
  <2> QED
    BY <1>2, <1>3, <1>4, <2>1
<1>7. new.chain # <<>> /\ NewestOf(new) = e
  <2>1. new.chain # <<>>
    BY <1>2, <1>6
  <2> QED
    BY <1>6, <2>1 DEF NewestOf, Last
<1>8. new.orphans \in Seq(E) /\ new.orphans \in Seq(E \cup {e})
  <2>1. new.orphans \in Seq(E)
    BY <1>1, <1>3, <1>5
  <2> QED
    BY <2>1, SeqMonotonic
<1>9. new \in CoreType(E \cup {e}) /\ new.minted \in Nat
  <2> DEFINE ch == new.chain
             or == new.orphans
             mi == k.minted + 1
  <2>1. new = [chain |-> ch, orphans |-> or, minted |-> mi] /\ mi \in Nat
    BY <1>1, <1>3
  <2>2. ch \in Seq(E \cup {e}) /\ or \in Seq(E \cup {e})
    BY <1>6, <1>8
  <2> HIDE DEF ch, or, mi
  <2>3. new \in CoreType(E \cup {e})
    BY <2>1, <2>2 DEF CoreType
  <2> QED
    BY <2>1, <2>3
<1>10. ToSet(new.orphans) = ToSet(k.orphans) \cup {k.chain[i] : i \in n + 1 .. Len(k.chain)}
  <2>1. ToSet(new.orphans) = ToSet(k.orphans) \cup ToSet(undone)
    BY <1>1, <1>3, <1>5, ConcatSet
  <2>2. PICK L : L = Len(k.chain)
    OBVIOUS
  <2>3. L \in Nat /\ n \in Nat /\ n = L - back /\ DOMAIN undone = 1 .. back
    BY <1>1, <1>2, <1>5, <2>2
  <2>4. \A i \in 1 .. back : n + i \in n + 1 .. L
    BY <2>3
  <2>5. ASSUME NEW i \in n + 1 .. L PROVE i - n \in 1 .. back /\ n + (i - n) = i
    <3>1. i \in Int /\ n + 1 <= i /\ i <= n + back /\ n \in Int /\ back \in Int
      BY <2>3
    <3> QED
      BY ONLY <3>1
  <2>a. \A x \in ToSet(undone) : x \in {k.chain[i] : i \in n + 1 .. L}
    BY <1>5, <2>3, <2>4 DEF ToSet
  <2>b. ASSUME NEW i \in n + 1 .. L PROVE k.chain[i] \in ToSet(undone)
    <3>1. i - n \in 1 .. back /\ undone[i - n] = k.chain[i]
      BY <1>5, <2>5
    <3> QED
      BY <2>3, <3>1 DEF ToSet
  <2>6. ToSet(undone) = {k.chain[i] : i \in n + 1 .. L}
    BY <2>a, <2>b
  <2> QED
    BY <2>1, <2>2, <2>6
<1>11. /\ e.digest = k.minted + 1 /\ e.prev = k.chain[n].digest /\ e.key = m.key
       /\ e.state = After(k.chain[n].state, m)
  BY DEF Minted
<1> QED
  BY <1>2, <1>3, <1>6, <1>7, <1>9, <1>10, <1>11 DEF MovedTo

\* Compaction keeps the newest of the chain, and some of the orphans.
Drops(old, new, s) ==
  Len(new) = Len(old) - s /\ \A i \in 1 .. Len(old) - s : new[i] = old[s + i]

LEMMA PrunedCore ==
  ASSUME NEW E, NEW k \in CoreType(E), k.chain # <<>>, NEW new, new = Pruned(k)
  PROVE  /\ new \in CoreType(E) /\ new.chain # <<>> /\ new.minted = k.minted
         /\ ToSet(new.orphans) \subseteq ToSet(k.orphans)
         /\ \E s \in 0 .. Len(k.chain) - 1 : Drops(k.chain, new.chain, s)
<1> DEFINE n == Len(k.chain)
           s == IF n > Keep THEN n - Keep ELSE 0
           kept == SubSeq(k.chain, s + 1, n)
<1>1. /\ k.chain \in Seq(E) /\ k.orphans \in Seq(E) /\ k.minted \in Nat /\ n \in Nat \ {0}
      /\ \A i \in 1 .. n : k.chain[i] \in E
  BY DEF CoreType
<1>2. s \in 0 .. n - 1
  BY <1>1, KeepAssumption
<1>3. (IF n > Keep THEN n - Keep + 1 ELSE 1) = s + 1
  BY <1>1, KeepAssumption
<1>4. new = [k EXCEPT !.chain = kept, !.orphans = Hanging(kept, k.orphans)]
  BY <1>3 DEF Pruned
<1> HIDE DEF s, n
<1>5. /\ kept \in Seq(E) /\ Len(kept) = n - s
      /\ \A i \in 1 .. n - s : kept[i] = k.chain[s + i]
  <2>1. s + 1 \in Int /\ n \in Int /\ \A i \in s + 1 .. n : k.chain[i] \in E
    BY <1>1, <1>2
  <2>2. /\ kept \in Seq(E) /\ Len(kept) = IF s + 1 <= n THEN n - (s + 1) + 1 ELSE 0
        /\ \A i \in 1 .. n - (s + 1) + 1 : kept[i] = k.chain[s + 1 + i - 1]
    BY <2>1, SubSeqProperties
  <2> QED
    BY <1>1, <1>2, <2>2
<1> HIDE DEF kept
<1>6. Hanging(kept, k.orphans) \in Seq(ToSet(k.orphans))
  BY <1>1, HangingSeq
<1> DEFINE o == Hanging(kept, k.orphans)
<1>7. o \in Seq(E) /\ ToSet(o) \subseteq ToSet(k.orphans)
  <2>1. ToSet(k.orphans) \subseteq E
    BY <1>1 DEF ToSet
  <2> HIDE DEF o
  <2>2. o \in Seq(ToSet(k.orphans))
    BY <1>6 DEF o
  <2>3. o \in Seq(E)
    BY <2>1, <2>2, SeqMonotonic
  <2>4. \A i \in DOMAIN o : o[i] \in ToSet(k.orphans)
    BY <2>2
  <2> QED
    BY <2>3, <2>4 DEF ToSet
<1>8. new = [k EXCEPT !.chain = kept, !.orphans = o]
  BY <1>4
<1> HIDE DEF o
<1>9. new \in CoreType(E) /\ new.chain = kept /\ new.orphans = o /\ new.minted = k.minted
  BY <1>5, <1>7, <1>8 DEF CoreType
<1>10. kept # <<>>
  BY <1>1, <1>2, <1>5
<1> QED
  BY <1>2, <1>5, <1>7, <1>9, <1>10 DEF n, Drops

\* Core::insert's publish: a live subscription that selects the movement holds
\* one notification of it, unless the movement went untold.
LEMMA PublishedStep ==
  ASSUME NEW B, subs \in [Conns -> SubType(B)], NEW new, subs' = Published(new) \/ subs' = subs,
         NEW P, P = UNION {ToSet(subs'[x].pending) : x \in Conns}
  PROVE  /\ subs' \in [Conns -> SubType(B \cup P)]
         /\ \A x \in Conns :
              /\ subs'[x].live = subs[x].live
              /\ \/ subs'[x].pending = subs[x].pending
                 \/ subs[x].live /\ \A b \in ToSet(subs'[x].pending) : b.is = "Watch"
<1>1. subs' = [x \in Conns |-> subs'[x]]
  BY DEF Published
<1>2. ASSUME NEW x \in Conns
      PROVE  /\ subs'[x] \in SubType(B \cup P) /\ subs'[x].live = subs[x].live
             /\ \/ subs'[x].pending = subs[x].pending
                \/ subs[x].live /\ \A b \in ToSet(subs'[x].pending) : b.is = "Watch"
  <2>1. subs[x] \in SubType(B)
    OBVIOUS
  <2>2. CASE subs'[x] = subs[x]
    <3>1. subs[x].pending \in Seq(B \cup P)
      BY <2>1, SeqMonotonic DEF SubType
    <3> QED
      BY <2>1, <2>2, <3>1 DEF SubType
  <2>3. CASE subs'[x] # subs[x]
    <3>1. /\ subs[x].live
          /\ subs'[x] = Push(subs[x], NewestOf(core).digest, NewestOf(new).digest)
      BY <2>3 DEF Published, Hearers
    <3> DEFINE from == IF subs[x].pending # <<>> THEN subs[x].pending[1].from
                       ELSE NewestOf(core).digest
               b == Changed(from, NewestOf(new).digest)
               p == <<b>>
    <3>2. subs'[x] = [subs[x] EXCEPT !.pending = p]
      BY <3>1 DEF Push
    <3>3. b.is = "Watch"
      BY DEF Changed
    <3> HIDE DEF b
    <3>4. ToSet(p) = {b} /\ p \in Seq({b})
      BY DEF ToSet
    <3> HIDE DEF p
    <3>5. subs'[x].live = subs[x].live /\ subs'[x].pending = p
      BY <2>1, <3>2 DEF SubType
    <3>6. {b} \subseteq B \cup P
      BY <3>4, <3>5
    <3>7. p \in Seq(B \cup P)
      BY <3>4, <3>6, SeqMonotonic
    <3>8. subs'[x] \in SubType(B \cup P)
      BY <2>1, <3>2, <3>7 DEF SubType
    <3> QED
      BY <3>1, <3>3, <3>4, <3>5, <3>8
  <2> QED
    BY <2>2, <2>3
<1> QED
  BY <1>1, <1>2

\* A turn that leaves the subscriptions and the history alone.
LEMMA PlainTurn ==
  ASSUME NEW B, NEW E, CallInv(B, E), queue # <<>>, daemon = "up", queue' = Tail(queue),
         UNCHANGED <<call, up, down, subs, daemon, seen>>,
         core' \in CoreType(E), core'.chain # <<>>,
         NEW c, c = Head(queue).conn, NEW a, Reply(c, a),
         \/ a.is = "Failed" /\ a.kind \in {"Internal", "Rejected"}
         \/ a.is = "Compacted" /\ call[c].asked.type = "Compact"
  PROVE  \E B2, E2 : CallInv(B2, E2)'
<1> PICK B2 : B2 = B \cup {a}
  OBVIOUS
<1>1. c \in Conns
  BY HeadMsg
<1>2. CallInv(B2, E)
  <2>1. \A e \in E : e.digest \in Nat
    BY DEF CallInv, Typed
  <2> QED
    BY <2>1, WidenInv
<1>3. Queued(c) /\ call[c].asked.type \in Methods
  BY <1>1, TakesStep
<1>4. Suits(B2, c, a)
  <2>1. call[c].asked.type = "Compact" => Variant(call[c].asked) = "Compacted"
    BY <1>3, VariantOf
  <2> QED
    BY <2>1 DEF Suits, Many
<1>5. /\ Works(c) /\ Waits(c) /\ Wrote(c) /\ seen \in [Conns -> SeenType(B2)]
      /\ subs \in [Conns -> SubType(B2)]
  BY <1>1, <1>2, ConnFacts
<1>6. seen[c].wrote = <<>> /\ ~subs[c].live /\ subs[c].pending = <<>>
  BY <1>3, <1>5 DEF Works, Waits, Wrote
<1>7. Turned(B2, c, a)
  <2>1. Len(<<>>) <= 1
    OBVIOUS
  <2> QED
    BY <1>5, <1>6, <2>1 DEF Turned, Kept
<1>8. CallInv(B2, E)'
  BY <1>1, <1>2, <1>4, <1>7, TurnCall
<1> QED
  BY <1>8

\* A turn that puts the node's own envelope on the chain.
LEMMA WritingTurn ==
  ASSUME NEW B, NEW E, CallInv(B, E), queue # <<>>, daemon = "up", queue' = Tail(queue),
         UNCHANGED <<call, up, down, daemon>>, NEW msg, core' = Moved(core, 0, msg),
         subs' = Published(core') \/ subs' = subs,
         NEW c, c = Head(queue).conn, call[c].asked.type \in Writes,
         seen' = [seen EXCEPT ![c].wrote = Append(@, core'.minted)],
         NEW a, Reply(c, a),
         \/ a.is = "Failed" /\ a.kind = "Internal"
         \/ a.is = "Written" /\ a.digest = core'.minted
  PROVE  \E B2, E2 : CallInv(B2, E2)'
<1> PICK n : n = Len(core.chain)
  OBVIOUS
<1> PICK e : e = Minted(core, core.chain[n], msg)
  OBVIOUS
<1> PICK P : P = UNION {ToSet(subs'[x].pending) : x \in Conns}
  OBVIOUS
<1> PICK new : new = core'
  OBVIOUS
<1> PICK B2 : B2 = (B \cup P) \cup {a}
  OBVIOUS
<1> PICK E2 : E2 = E \cup {e}
  OBVIOUS
<1>1. c \in Conns /\ core \in CoreType(E) /\ core.chain # <<>> /\ subs \in [Conns -> SubType(B)]
      /\ \A x \in E : x.digest \in Nat
  BY HeadMsg DEF CallInv, Typed
<1>2. n \in Nat \ {0} /\ core.minted \in Nat
  BY <1>1 DEF CoreType
<1>3. Moves(E, core, 0, msg, n, e, new)
  BY <1>1, <1>2 DEF Moves
<1>4. /\ new \in CoreType(E2) /\ new.chain # <<>> /\ e.digest \in Nat
      /\ new.minted \in Nat
  <2>1. MovedTo(E, core, msg, n, e, new)
    BY <1>3, MovedCore
  <2> QED
    BY <1>2, <2>1 DEF MovedTo
<1>5. /\ subs' \in [Conns -> SubType(B \cup P)]
      /\ \A x \in Conns :
           /\ subs'[x].live = subs[x].live
           /\ \/ subs'[x].pending = subs[x].pending
              \/ subs[x].live /\ \A b \in ToSet(subs'[x].pending) : b.is = "Watch"
  BY <1>1, PublishedStep
<1>6. CallInv(B2, E2)
  <2>1. \A x \in E2 : x.digest \in Nat
    BY <1>1, <1>4
  <2> QED
    BY <2>1, WidenInv
<1>7. subs' \in [Conns -> SubType(B2)]
  <2>1. SubType(B \cup P) \subseteq SubType(B2)
    <3>1. \A s \in Seq(B \cup P) : s \in Seq(B2)
      BY SeqMonotonic
    <3> QED
      BY <3>1 DEF SubType
  <2> QED
    BY <1>5, <2>1
<1>8. Queued(c) /\ call[c].asked.type \in Methods
  BY <1>1, TakesStep
<1>9. Suits(B2, c, a)
  <2>1. Variant(call[c].asked) = "Written"
    BY <1>8, VariantOf
  <2> QED
    BY <2>1 DEF Suits, Many, Writes
<1>10. Works(c) /\ Waits(c) /\ Wrote(c) /\ seen \in [Conns -> SeenType(B2)]
  BY <1>1, <1>6, ConnFacts
<1>11. seen[c].wrote = <<>> /\ ~subs[c].live /\ subs[c].pending = <<>>
  BY <1>8, <1>10 DEF Works, Waits, Wrote
<1> PICK d : d = new.minted
  OBVIOUS
<1> DEFINE w == Append(seen[c].wrote, d)
           v == [seen[c] EXCEPT !.wrote = w]
<1>12. w = <<d>> /\ Len(w) = 1 /\ w \in Seq(Nat)
  <2>1. d \in Nat
    BY <1>4
  <2>2. Append(<<>>, d) = <<d>> /\ Len(<<d>>) = 1 /\ <<d>> \in Seq(Nat)
    BY <2>1
  <2> QED
    BY <1>11, <2>2
<1>13. seen' = [seen EXCEPT ![c] = v]
  BY <1>1, <1>10
<1> HIDE DEF w
<1>14. v \in SeenType(B2) /\ v.wrote = w /\ v.unsent = seen[c].unsent
  <2>1. seen[c] \in SeenType(B2)
    BY <1>1, <1>10
  <2> QED
    BY <1>12, <2>1 DEF SeenType
<1> HIDE DEF v
<1>15. seen' \in [Conns -> SeenType(B2)] /\ seen'[c] = v /\ Kept(seen, seen', c)
  <2> PICK T : T = SeenType(B2)
    OBVIOUS
  <2>1. seen \in [Conns -> T] /\ v \in T /\ c \in Conns
    BY <1>1, <1>10, <1>14
  <2>2. seen' \in [Conns -> T] /\ seen'[c] = v /\ Kept(seen, seen', c)
    BY ONLY <1>13, <2>1, Update
  <2> QED
    BY <2>2
<1>16. Turned(B2, c, a)
  <2>1. a.is = "Written" => w = <<a.digest>>
    BY <1>12
  <2>2. Len(w) <= 1
    BY <1>12
  <2> QED
    BY <1>1, <1>5, <1>7, <1>11, <1>14, <1>15, <2>1, <2>2 DEF Turned
<1>17. CallInv(B2, E2)'
  BY <1>1, <1>4, <1>5, <1>6, <1>9, <1>16, TurnCall
<1> QED
  BY <1>17

LEMMA TurnWritesCall ==
  ASSUME NEW B, NEW E, CallInv(B, E), TurnWrites
  PROVE  \E B2, E2 : CallInv(B2, E2)'
<1> PICK m : m = Head(queue)
  OBVIOUS
<1> PICK c : c = m.conn
  OBVIOUS
<1>1. /\ queue # <<>> /\ daemon = "up" /\ queue' = Tail(queue)
      /\ UNCHANGED <<call, up, down, daemon>> /\ m.req.type \in Writes
  BY DEF TurnWrites
<1>2. core \in CoreType(E) /\ core.chain # <<>> /\ call[c].asked = m.req
  BY <1>1, HeadMsg DEF CallInv, Typed
<1>3. CASE Accepted(m)
  <2>1. /\ core' = Moved(core, 0, Message(m.req)) /\ subs' = Published(core')
        /\ Reply(c, WrittenAs(core'.minted, NewestOf(core').digest, "Extended"))
        /\ seen' = [seen EXCEPT ![c].wrote = Append(@, core'.minted)]
    BY <1>3 DEF TurnWrites
  <2> PICK a : a = WrittenAs(core'.minted, NewestOf(core').digest, "Extended")
    OBVIOUS
  <2>2. a.is = "Written" /\ a.digest = core'.minted
    BY DEF WrittenAs
  <2> PICK msg : msg = Message(m.req)
    OBVIOUS
  <2>3. core' = Moved(core, 0, msg) /\ Reply(c, a)
    BY <2>1
  <2> QED
    BY <1>1, <1>2, <2>1, <2>2, <2>3, WritingTurn
<1>4. CASE ~Accepted(m)
  <2>1. Reply(c, Failure("Rejected")) /\ UNCHANGED <<core, subs, seen>>
    BY <1>4 DEF TurnWrites
  <2> PICK a : a = Failure("Rejected")
    OBVIOUS
  <2>2. a.is = "Failed" /\ a.kind = "Rejected"
    BY DEF Failure
  <2> QED
    BY <1>1, <1>2, <2>1, <2>2, PlainTurn
<1> QED
  BY <1>3, <1>4

LEMMA TurnCompactsCall ==
  ASSUME NEW B, NEW E, CallInv(B, E), TurnCompacts
  PROVE  \E B2, E2 : CallInv(B2, E2)'
<1> PICK m : m = Head(queue)
  OBVIOUS
<1> PICK c : c = m.conn
  OBVIOUS
<1> DEFINE r == Compacted(OldestOf(core).digest, OldestOf(Pruned(core)).digest,
                   Len(core.chain) + Len(core.orphans)
                     - Len(Pruned(core).chain) - Len(Pruned(core).orphans))
<1>1. /\ queue # <<>> /\ daemon = "up" /\ queue' = Tail(queue) /\ core' = Pruned(core)
      /\ UNCHANGED <<call, up, down, subs, daemon, seen>> /\ m.req.type = "Compact"
      /\ Reply(c, r)
  BY DEF TurnCompacts
<1>2. r.is = "Compacted"
  BY DEF Compacted
<1> PICK a : a = r
  OBVIOUS
<1> HIDE DEF r
<1>3. core \in CoreType(E) /\ core.chain # <<>> /\ call[c].asked = m.req
  BY <1>1, HeadMsg DEF CallInv, Typed
<1>4. core' \in CoreType(E) /\ core'.chain # <<>>
  BY <1>1, <1>3, PrunedCore
<1> QED
  BY <1>1, <1>2, <1>3, <1>4, PlainTurn

LEMMA TurnFailsCall ==
  ASSUME NEW B, NEW E, CallInv(B, E), TurnFails
  PROVE  \E B2, E2 : CallInv(B2, E2)'
<1> PICK m : m = Head(queue)
  OBVIOUS
<1> PICK c : c = m.conn
  OBVIOUS
<1>0. PICK kind \in Kinds(m) : Reply(c, Failure(kind))
  BY DEF TurnFails
<1> PICK a : a = Failure(kind)
  OBVIOUS
<1>1. /\ queue # <<>> /\ daemon = "up" /\ queue' = Tail(queue)
      /\ UNCHANGED <<call, up, down, daemon>> /\ Reply(c, a)
  BY <1>0 DEF TurnFails
<1>2. core \in CoreType(E) /\ core.chain # <<>> /\ call[c].asked = m.req
  BY <1>1, HeadMsg DEF CallInv, Typed
<1>3. /\ a.is = "Failed" /\ a.kind \in {"Internal", "Rejected"}
      /\ m.req.type \in Writes => a.kind = "Internal"
  <2>1. m.trip = "CreateInvite" => m.req.type \notin Writes
    BY <1>1, HeadMsg, TripsOf DEF Writes
  <2> QED
    BY <2>1 DEF Kinds, Failure
<1>4. CASE UNCHANGED <<core, subs, seen>>
  BY <1>1, <1>2, <1>3, <1>4, PlainTurn
<1>5. CASE /\ m.req.type \in Writes /\ Accepted(m)
           /\ core' = Moved(core, 0, Message(m.req))
           /\ Announces(core')
           /\ seen' = [seen EXCEPT ![m.conn].wrote = Append(@, core'.minted)]
  <2> PICK msg : msg = Message(m.req)
    OBVIOUS
  <2>1. core' = Moved(core, 0, msg) /\ (subs' = Published(core') \/ subs' = subs)
        /\ seen' = [seen EXCEPT ![c].wrote = Append(@, core'.minted)]
    BY <1>5 DEF Announces
  <2> QED
    BY <1>1, <1>2, <1>3, <1>5, <2>1, WritingTurn
<1> QED
  BY <1>4, <1>5 DEF TurnFails

\* A peer's envelope reaches the connections as notifications only.
LEMMA PeerInsertsCall ==
  ASSUME NEW B, NEW E, CallInv(B, E), PeerInserts
  PROVE  \E B2, E2 : CallInv(B2, E2)'
<1>1. UNCHANGED <<call, up, down, task, queue, daemon, seen>> /\ daemon = "up"
  BY DEF PeerInserts
<1>2. PICK f \in Foreign : /\ f.back < Len(core.chain) /\ core' = Moved(core, f.back, f.msg)
                           /\ subs' = Published(core') \/ subs' = subs
  BY DEF PeerInserts, Announces
<1>3. PICK back, msg, n, e, new, P : /\ back = f.back /\ msg = f.msg /\ n = Len(core.chain) - back
                                     /\ e = Minted(core, core.chain[n], msg) /\ new = core'
                                     /\ P = UNION {ToSet(subs'[x].pending) : x \in Conns}
  OBVIOUS
<1>4. PICK B2, E2 : B2 = B \cup P /\ E2 = E \cup {e}
  OBVIOUS
<1>5. core \in CoreType(E) /\ subs \in [Conns -> SubType(B)] /\ \A x \in E : x.digest \in Nat
  BY DEF CallInv, Typed
<1>6. Moves(E, core, back, msg, n, e, new)
  BY <1>2, <1>3, <1>5, ForeignAssumption DEF Moves
<1>7. MovedTo(E, core, msg, n, e, new)
  BY <1>6, MovedCore
<1>8. core' \in CoreType(E2) /\ core'.chain # <<>>
  BY <1>3, <1>4, <1>7 DEF MovedTo
<1>9. \A x \in E2 : x.digest \in Nat
  <2>1. core.minted \in Nat
    BY <1>5 DEF CoreType
  <2> QED
    BY <1>4, <1>5, <1>7, <2>1 DEF MovedTo
<1>10. /\ subs' \in [Conns -> SubType(B2)]
       /\ \A x \in Conns :
            /\ subs'[x].live = subs[x].live
            /\ \/ subs'[x].pending = subs[x].pending
               \/ subs[x].live /\ \A b \in ToSet(subs'[x].pending) : b.is = "Watch"
  BY <1>2, <1>3, <1>4, <1>5, PublishedStep
<1>11. CallInv(B2, E2)
  BY <1>4, <1>9, WidenInv
<1>12. Typed(B2, E2)' /\ QueueOk'
  BY <1>1, <1>8, <1>9, <1>10, <1>11, StillQueue DEF CallInv, Typed
<1>13. \A x \in Conns : Still(x)
  BY <1>1, <1>10 DEF Still, Queued
<1>14. \A x \in Conns : ConnOk(x)'
  BY <1>1, <1>11, <1>13, StillConn DEF CallInv
<1>15. CallInv(B2, E2)'
  BY <1>12, <1>14 DEF CallInv
<1> QED
  BY <1>15

-----------------------------------------------------------------------------
(* The end of the daemon.                                                  *)

\* The mainloop returns: nobody's message will be answered, and whoever was
\* never accepted finds the stream closed.
LEMMA ShutdownCall ==
  ASSUME NEW B, NEW E, CallInv(B, E), Shutdown
  PROVE  CallInv(B, E)'
<1>1. /\ UNCHANGED <<call, up, task, subs, seen>> /\ daemon = "up" /\ daemon' = "down"
      /\ queue' = <<>> /\ core' = NoCore
      /\ down' = [c \in Conns |-> IF task[c].at = "none" THEN Shut(down[c]) ELSE down[c]]
  BY DEF Shutdown
<1>2. Typed(B, E)
  BY DEF CallInv
<1>3. \A c \in Conns :
        /\ down'[c] \in PipeType(B) /\ down'[c].frames = down[c].frames
        /\ down[c].shut => down'[c].shut
        /\ down'[c].shut => down[c].shut \/ task[c].at = "none"
        /\ task[c].at = "none" => down'[c].shut
  <2> SUFFICES ASSUME NEW c \in Conns
               PROVE  /\ down'[c] \in PipeType(B) /\ down'[c].frames = down[c].frames
                      /\ down[c].shut => down'[c].shut
                      /\ down'[c].shut => down[c].shut \/ task[c].at = "none"
                      /\ task[c].at = "none" => down'[c].shut
    OBVIOUS
  <2>1. down[c] \in PipeType(B)
    BY <1>2 DEF Typed
  <2>2. Shut(down[c]) \in PipeType(B) /\ Shut(down[c]).frames = down[c].frames
        /\ Shut(down[c]).shut
    BY <2>1, ShutPipe
  <2>3. down'[c] = IF task[c].at = "none" THEN Shut(down[c]) ELSE down[c]
    BY <1>1
  <2> QED
    BY <2>1, <2>2, <2>3
<1>4. core' \in CoreType(E)
  <2>1. <<>> \in Seq(E)
    OBVIOUS
  <2> QED
    BY <1>1, <2>1 DEF CoreType, NoCore
<1>5. Typed(B, E)'
  <2>1. down' \in [Conns -> PipeType(B)]
    BY <1>1, <1>3
  <2>2. queue' \in Seq(MsgType)
    BY <1>1
  <2> QED
    BY <1>1, <1>2, <1>4, <2>1, <2>2 DEF Typed
<1>6. QueueOk'
  BY <1>1 DEF QueueOk
<1>7. ASSUME NEW c \in Conns PROVE ConnOk(c)'
  <2>1. Asks(c) /\ Works(c) /\ Answers(c) /\ Outcome(c) /\ Wrote(c) /\ Waits(c)
    BY ConnFacts
  <2>2. ~Queued(c)'
    BY <1>1 DEF Queued
  <2>3. Sent(c)' = Sent(c)
    BY <1>1, <1>3 DEF Sent
  <2>4. Asks(c)'
    BY <1>1, <2>1 DEF Asks
  <2>5. Works(c)' /\ Waits(c)'
    BY <1>1, <2>1, <2>2 DEF Works, Waits
  <2>6. Answers(c)'
    BY <1>1, <1>3, <2>1, <2>3 DEF Answers
  <2>7. Outcome(c)'
    BY <1>1, <1>3, <2>1 DEF Outcome
  <2>8. Wrote(c)'
    BY <1>1, <2>1, <2>2, <2>3 DEF Wrote
  <2> QED
    BY <2>4, <2>5, <2>6, <2>7, <2>8 DEF ConnOk
<1> QED
  BY <1>5, <1>6, <1>7 DEF CallInv

LEMMA AppendFacts ==
  ASSUME NEW T, NEW s \in Seq(T), NEW x \in T
  PROVE  /\ s # <<>> => Append(s, x) # <<>> /\ Append(s, x)[1] = s[1]
         /\ \A i \in DOMAIN Append(s, x) :
              \/ Append(s, x)[i] = x
              \/ i \in DOMAIN s /\ Append(s, x)[i] = s[i]
<1>1. PICK n \in Nat : n = Len(s) /\ DOMAIN s = 1 .. n
  OBVIOUS
<1>2. /\ Len(Append(s, x)) = n + 1 /\ DOMAIN Append(s, x) = 1 .. n + 1
      /\ Append(s, x)[n + 1] = x /\ \A i \in 1 .. n : Append(s, x)[i] = s[i]
  BY <1>1
<1>3. s # <<>> => n >= 1
  BY <1>1
<1> QED
  BY <1>1, <1>2, <1>3

LEMMA ToSetEmpty == ToSet(<<>>) = {}
BY DEF ToSet

LEMMA BodiesEmpty == Bodies(<<>>) = {}
BY DEF Bodies

\* What the death of the process leaves in a pipe: what was there, and at most
\* part of the frame that was going out.
Dies(B, c, p) ==
  /\ p \in PipeType(B) /\ p.shut
  /\ Bodies(p.frames) \subseteq Bodies(down[c].frames) \cup ToSet(task[c].out)
  /\ \A i \in DOMAIN p.frames : p.frames[i].len <= MaxLen
  /\ down[c].frames # <<>> => p.frames # <<>> /\ p.frames[1] = down[c].frames[1]
  /\ down[c].shut => p.frames = down[c].frames
  /\ task[c].at \in {"none", "reading", "asking", "waiting"} => p.frames = down[c].frames
  /\ \/ p.frames = down[c].frames
     \/ \E f \in FrameType(B) : /\ task[c].out # <<>> /\ f.body = task[c].out[1]
                                /\ p.frames = Append(down[c].frames, f)

LEMMA ExitPipe ==
  ASSUME NEW B, NEW E, CallInv(B, E), NEW c \in Conns, NEW k \in [Writing -> 0 .. PrefixLen],
         NEW p, p = Shut(IF c \in Writing THEN Torn(c, k[c]) ELSE down[c])
  PROVE  Dies(B, c, p)
<1> USE DEF Dies
<1>1. /\ down[c] \in PipeType(B) /\ down[c].frames \in Seq(FrameType(B)) /\ task[c].out \in Seq(B)
      /\ Answers(c) /\ Works(c)
  BY ConnFacts
<1>2. CASE ~ (c \in Writing /\ k[c] # 0)
  <2>1. p = Shut(down[c])
    BY <1>2 DEF Torn
  <2>2. p \in PipeType(B) /\ p.frames = down[c].frames /\ p.shut
    BY <1>1, <2>1, ShutPipe
  <2> QED
    BY <1>1, <2>2 DEF Answers
<1>3. CASE c \in Writing /\ k[c] # 0
  <2> DEFINE b == Head(task[c].out)
             f == [FrameOf(b, BodyLen(b)) EXCEPT !.bytes = k[c]]
  <2>1. task[c].at \in {"sending", "telling"} /\ task[c].out # <<>> /\ Sendable(b)
    BY <1>3 DEF Writing
  <2>2. k[c] \in Nat \ {0}
    BY <1>3, FrameAssumption
  <2>3. b \in B /\ b \in ToSet(task[c].out) /\ b = task[c].out[1]
    BY <1>1, <2>1, TailFacts, TailSet
  <2>4. BodyLen(b) \in Nat \ {0} /\ BodyLen(b) <= MaxLen
    BY <2>1, FrameAssumption DEF Sendable
  <2>5. p = Shut(Pushed(down[c], f))
    BY <1>3 DEF Torn
  <2> HIDE DEF b
  <2>6. f \in FrameType(B) /\ f.body = b /\ f.len <= MaxLen
    BY <2>2, <2>3, <2>4, FrameAssumption DEF FrameOf, FrameType
  <2> HIDE DEF f
  <2> DEFINE r == Pushed(down[c], f)
  <2>7. r \in PipeType(B) /\ r.frames = Append(down[c].frames, f)
    BY <1>1, <2>6, PushedPipe
  <2> HIDE DEF r
  <2>8. p \in PipeType(B) /\ p.shut /\ p.frames = Append(down[c].frames, f)
    BY <2>5, <2>7, ShutPipe DEF r
  <2>9. Bodies(p.frames) = Bodies(down[c].frames) \cup {b}
    BY <1>1, <2>6, <2>8, BodiesAppend
  <2>10. /\ down[c].frames # <<>> => p.frames # <<>> /\ p.frames[1] = down[c].frames[1]
         /\ \A i \in DOMAIN p.frames :
              \/ p.frames[i] = f
              \/ i \in DOMAIN down[c].frames /\ p.frames[i] = down[c].frames[i]
    <3>1. PICK T, s : T = FrameType(B) /\ s = down[c].frames
      OBVIOUS
    <3>2. s \in Seq(T) /\ f \in T /\ p.frames = Append(s, f)
      BY ONLY <1>1, <2>6, <2>8, <3>1
    <3>3. /\ s # <<>> => Append(s, f) # <<>> /\ Append(s, f)[1] = s[1]
          /\ \A i \in DOMAIN Append(s, f) :
               \/ Append(s, f)[i] = f
               \/ i \in DOMAIN s /\ Append(s, f)[i] = s[i]
      BY ONLY <3>2, AppendFacts
    <3> QED
      BY ONLY <3>1, <3>2, <3>3
  <2>11. \A i \in DOMAIN p.frames : p.frames[i].len <= MaxLen
    BY <1>1, <2>6, <2>10 DEF Answers
  <2>12. ~down[c].shut
    BY <1>1, <2>1 DEF Answers
  <2> QED
    BY <2>1, <2>3, <2>6, <2>8, <2>9, <2>10, <2>11, <2>12
<1> QED
  BY <1>2, <1>3

LEMMA ExitDies ==
  ASSUME NEW B, NEW E, CallInv(B, E), Exit, NEW c \in Conns
  PROVE  Dies(B, c, down'[c])
<1>1. PICK k \in [Writing -> 0 .. PrefixLen] :
        down' = [x \in Conns |-> Shut(IF x \in Writing THEN Torn(x, k[x]) ELSE down[x])]
  BY DEF Exit
<1>2. PICK p : p = down'[c]
  OBVIOUS
<1>3. p = Shut(IF c \in Writing THEN Torn(c, k[c]) ELSE down[c])
  BY <1>1, <1>2
<1>4. Dies(B, c, p)
  BY <1>1, <1>3, ExitPipe
<1> QED
  BY <1>2, <1>4

LEMMA ExitCall ==
  ASSUME NEW B, NEW E, CallInv(B, E), Exit
  PROVE  CallInv(B, E)'
<1>1. /\ UNCHANGED <<call, up, seen>> /\ daemon' = "exited" /\ queue' = <<>> /\ core' = NoCore
      /\ task' = [c \in Conns |-> [NoTask EXCEPT !.at = "ended"]]
      /\ subs' = [c \in Conns |-> NoSub]
  BY DEF Exit
<1>2. down' = [c \in Conns |-> down'[c]]
  BY DEF Exit
<1>3. Typed(B, E)
  BY DEF CallInv
<1>4. ASSUME NEW c \in Conns
      PROVE
        /\ down'[c] \in PipeType(B) /\ down'[c].shut
        /\ Bodies(down'[c].frames) \subseteq Bodies(down[c].frames) \cup ToSet(task[c].out)
        /\ \A i \in DOMAIN down'[c].frames : down'[c].frames[i].len <= MaxLen
        /\ down[c].frames # <<>> =>
             down'[c].frames # <<>> /\ down'[c].frames[1] = down[c].frames[1]
        /\ down[c].shut => down'[c].frames = down[c].frames
        /\ task[c].at \in {"none", "reading", "asking", "waiting"} =>
             down'[c].frames = down[c].frames
  <2>1. Dies(B, c, down'[c])
    BY ExitDies
  <2> QED
    BY ONLY <2>1 DEF Dies
<1>5. \A c \in Conns : /\ task'[c] \in TaskType(B) /\ task'[c].at = "ended"
                       /\ task'[c].req = {} /\ task'[c].out = <<>>
  BY <1>1, NoTaskTyped
<1>6. \A c \in Conns : subs'[c] \in SubType(B) /\ ~subs'[c].live /\ subs'[c].pending = <<>>
  <2>1. NoSub \in SubType(B) /\ ~NoSub.live /\ NoSub.pending = <<>>
    BY DEF NoSub, SubType
  <2> QED
    BY <1>1, <2>1
<1>7. Typed(B, E)'
  <2>1. down' \in [Conns -> PipeType(B)] /\ task' \in [Conns -> TaskType(B)]
        /\ subs' \in [Conns -> SubType(B)]
    BY <1>1, <1>2, <1>4, <1>5, <1>6
  <2>2. queue' \in Seq(MsgType)
    BY <1>1
  <2>3. core' \in CoreType(E)
    <3>1. <<>> \in Seq(E)
      OBVIOUS
    <3> QED
      BY <1>1, <3>1 DEF CoreType, NoCore
  <2> QED
    BY <1>1, <1>3, <2>1, <2>2, <2>3 DEF Typed
<1>8. QueueOk'
  BY <1>1 DEF QueueOk
<1>9. ASSUME NEW c \in Conns PROVE ConnOk(c)'
  <2>1. Asks(c) /\ Works(c) /\ Answers(c) /\ Outcome(c) /\ Wrote(c) /\ Waits(c)
    BY ConnFacts
  <2>2. ~Queued(c)'
    BY <1>1 DEF Queued
  <2>3. Sent(c)' \subseteq Sent(c)
    BY <1>1, <1>4, <1>5, ToSetEmpty DEF Sent
  <2>4. Asks(c)'
    BY <1>1, <1>5, <2>1 DEF Asks
  <2>5. Works(c)' /\ Waits(c)'
    BY <1>1, <1>5, <1>6, <2>1, <2>2, ToSetEmpty DEF Works, Waits
  <2>6. Answers(c)'
    BY <1>1, <1>4, <1>5, <2>1, <2>3 DEF Answers
  <2>7. Outcome(c)'
    BY <1>1, <1>4, <2>1 DEF Outcome
  <2>8. Wrote(c)'
    BY <1>1, <1>5, <2>1, <2>2, <2>3 DEF Wrote
  <2> QED
    BY <2>4, <2>5, <2>6, <2>7, <2>8 DEF ConnOk
<1> QED
  BY <1>7, <1>8, <1>9 DEF CallInv

-----------------------------------------------------------------------------
(* What a client is told.                                                  *)

LEMMA CallInit ==
  ASSUME Init
  PROVE  \E B, E : CallInv(B, E)
<1>1. PICK B, E : B = Fixed /\ E = {Genesis}
  OBVIOUS
<1>2. PICK asked \in Scripts :
        call = [c \in Conns |-> [at |-> "idle", asked |-> asked[c], filled |-> 0,
                                 got |-> <<>>, end |-> ""]]
  BY DEF Init
<1>3. <<>> \in Seq(B) /\ <<>> \in Seq(Nat) /\ <<>> \in Seq(TripNames)
      /\ <<>> \in Seq(FrameType(B)) /\ <<>> \in Seq(FrameType(Asked)) /\ <<>> \in Seq(MsgType)
      /\ <<>> \in Seq(E)
  OBVIOUS
<1>4. \A c \in Conns : asked[c] \in Asked
  BY DEF Asked
<1>5. \A c \in Conns : /\ call[c] \in CallType(B) /\ call[c].at = "idle" /\ call[c].filled = 0
                       /\ call[c].got = <<>> /\ call[c].end = ""
  BY <1>2, <1>3, <1>4 DEF CallType, Outcomes
<1>6. \A c \in Conns : /\ up[c] \in PipeType(Asked) /\ up[c].frames = <<>> /\ ~up[c].shut
                       /\ down[c] \in PipeType(B) /\ down[c].frames = <<>> /\ ~down[c].shut
  BY <1>3 DEF Init, PipeType
<1>7. NoTask \in TaskType(B)
  BY <1>3 DEF NoTask, TaskType
<1>8. \A c \in Conns : /\ task[c] \in TaskType(B) /\ task[c].at = "none" /\ task[c].filled = 0
                       /\ task[c].req = {} /\ task[c].trips = <<>> /\ task[c].parts = <<>>
                       /\ task[c].out = <<>>
  BY <1>7 DEF Init, NoTask
<1>9. \A c \in Conns : subs[c] \in SubType(B) /\ ~subs[c].live /\ subs[c].pending = <<>>
  BY <1>3 DEF Init, NoSub, SubType
<1>10. \A c \in Conns : seen[c] \in SeenType(B) /\ seen[c].wrote = <<>> /\ ~seen[c].unsent
  BY <1>3 DEF Init, SeenType
<1>11. core \in CoreType(E) /\ core.chain # <<>> /\ \A e \in E : e.digest \in Nat
  <2>1. <<Genesis>> \in Seq(E) /\ <<Genesis>> # <<>>
    BY <1>1
  <2> QED
    BY <1>1, <1>3, <2>1, GenesisAssumption DEF Init, CoreType
<1>12. /\ call = [c \in Conns |-> call[c]] /\ up = [c \in Conns |-> up[c]]
       /\ down = [c \in Conns |-> down[c]] /\ task = [c \in Conns |-> task[c]]
       /\ subs = [c \in Conns |-> subs[c]] /\ seen = [c \in Conns |-> seen[c]]
  BY <1>2 DEF Init
<1>13. /\ call \in [Conns -> CallType(B)] /\ up \in [Conns -> PipeType(Asked)]
       /\ down \in [Conns -> PipeType(B)] /\ task \in [Conns -> TaskType(B)]
       /\ subs \in [Conns -> SubType(B)] /\ seen \in [Conns -> SeenType(B)]
  BY <1>5, <1>6, <1>8, <1>9, <1>10, <1>12
<1>14. queue = <<>> /\ daemon = "up"
  BY DEF Init
<1>15. Typed(B, E) /\ QueueOk
  BY <1>1, <1>3, <1>11, <1>13, <1>14 DEF Typed, QueueOk
<1>16. ASSUME NEW c \in Conns PROVE ConnOk(c)
  <2>1. ~Queued(c)
    BY <1>14 DEF Queued
  <2>2. Sent(c) = {}
    BY <1>5, <1>6, <1>8, ToSetEmpty, BodiesEmpty DEF Sent
  <2>3. Asks(c)
    BY <1>5, <1>6, <1>8, <1>10 DEF Asks
  <2>4. Works(c)
    BY <1>5, <1>8, <1>9, <1>14, ToSetEmpty DEF Works
  <2>a. Waits(c)
    BY <2>1 DEF Waits
  <2>5. Answers(c)
    <3>1. down[c].frames = <<>> /\ DOMAIN down[c].frames = {} /\ call[c].got = <<>>
          /\ call[c].filled = 0 /\ ~down[c].shut
      <4>1. DOMAIN <<>> = {}
        OBVIOUS
      <4> QED
        BY <1>5, <1>6, <4>1
    <3> QED
      BY ONLY <2>2, <3>1 DEF Answers
  <2>6. Outcome(c)
    BY <1>5 DEF Outcome
  <2>7. Wrote(c)
    <3>1. seen[c].wrote = <<>> /\ Len(seen[c].wrote) <= 1 /\ call[c].end = ""
      <4>1. Len(<<>>) <= 1
        OBVIOUS
      <4> QED
        BY <1>5, <1>10, <4>1
    <3> QED
      BY ONLY <2>2, <3>1 DEF Wrote
  <2> QED
    BY <2>3, <2>4, <2>a, <2>5, <2>6, <2>7 DEF ConnOk
<1>17. CallInv(B, E)
  BY <1>15, <1>16 DEF CallInv
<1> QED
  BY <1>17

LEMMA CallNext ==
  ASSUME NEW B, NEW E, CallInv(B, E), [Next]_vars
  PROVE  \E B2, E2 : CallInv(B2, E2)'
<1>1. CASE UNCHANGED vars
  <2>1. UNCHANGED <<call, up, down, task, queue, subs, core, daemon, seen>>
    BY <1>1 DEF vars
  <2>2. Typed(B, E)' /\ QueueOk'
    BY <2>1, StillQueue DEF CallInv, Typed
  <2>3. \A x \in Conns : Still(x)
    BY <2>1 DEF Still, Queued
  <2>4. \A x \in Conns : ConnOk(x)'
    BY <2>1, <2>3, StillConn DEF CallInv
  <2>5. CallInv(B, E)'
    BY <2>2, <2>4 DEF CallInv
  <2> QED
    BY <2>5
<1>2. ASSUME NEW c \in Conns, Client(c) PROVE CallInv(B, E)'
  BY <1>2, ConnectCall, ConnectCutCall, ConnectFailsCall, ClientPollsCall, HangUpCall DEF Client
<1>3. ASSUME NEW c \in Conns, Task(c) PROVE CallInv(B, E)'
  BY <1>3, AcceptCall, TaskReadsCall, AskCall, GoneCall, TaskWritesCall, TaskSentCall,
     NotifyCall, HungUpCall DEF Task
<1>4. CASE Turn
  BY <1>4, TurnReadsCall, TurnWritesCall, TurnCompactsCall, TurnFailsCall DEF Turn
<1>5. CASE PeerInserts
  BY <1>5, PeerInsertsCall
<1>6. CASE Shutdown \/ Exit
  BY <1>6, ShutdownCall, ExitCall
<1> QED
  BY <1>1, <1>2, <1>3, <1>4, <1>5, <1>6 DEF Next

\* What holds of every call in every state.
CallsOk == \E B, E : CallInv(B, E)

LEMMA CallsInvariant == Spec => []CallsOk
<1>1. Init => CallsOk
  BY CallInit DEF CallsOk
<1>2. CallsOk /\ [Next]_vars => CallsOk'
  <2> SUFFICES ASSUME CallsOk, [Next]_vars PROVE CallsOk'
    OBVIOUS
  <2>1. PICK B, E : CallInv(B, E)
    BY DEF CallsOk
  <2> QED
    BY <2>1, CallNext DEF CallsOk
<1> QED
  BY <1>1, <1>2, PTL DEF Spec

\* A call ends without an answer only when the daemon died under it or the
\* answer did not fit a frame, and an answer that was cut short is never taken
\* for the regular end of the stream: for any number of connections, any
\* requests, frame limit and buffer.
THEOREM TellsItsClients == Spec => []Told
<1>1. CallsOk => Told
  <2> SUFFICES ASSUME NEW B, NEW E, CallInv(B, E), NEW c \in Conns
               PROVE  LET ended == call[c].end
                      IN /\ ended = "NoResponse" => daemon = "exited" \/ seen[c].unsent
                         /\ ended = "IO" => daemon # "up" \/ call[c].asked = Unknown
                         /\ ended = "Truncated" => daemon = "exited"
                         /\ ended \in {"NoResponse", "none"} => down[c].frames = <<>>
                         /\ ended # "UnexpectedResponse"
    BY DEF CallsOk, Told
  <2>1. Outcome(c)
    BY ConnFacts
  <2> QED
    BY <2>1 DEF Outcome
<1> QED
  BY <1>1, CallsInvariant, PTL

\* What a client is told of its write is what became of it, whatever else was
\* written, delivered by peers or compacted, and wherever the call was cut.
THEOREM WritesAreAsTold == Spec => []WritesAsTold
<1>1. CallsOk => WritesAsTold
  <2> SUFFICES ASSUME NEW B, NEW E, CallInv(B, E), NEW c \in Conns,
                      call[c].asked.type \in Writes
               PROVE  LET ended == call[c].end
                          last  == Last(call[c].got)
                      IN /\ Len(seen[c].wrote) <= 1
                         /\ ended = "Ok" => seen[c].wrote = <<last.digest>>
                         /\ (ended = "Failed" /\ last.kind = "Rejected") => seen[c].wrote = <<>>
                         /\ ended \in {"Connect", "FrameTooLarge"} => seen[c].wrote = <<>>
    BY DEF CallsOk, WritesAsTold
  <2>1. Wrote(c) /\ call[c].got \in Seq(B) /\ call[c].asked \in Asked
    BY ConnFacts
  <2>2. call[c].got # <<>> => Last(call[c].got) \in Sent(c)
    <3> SUFFICES ASSUME call[c].got # <<>> PROVE Last(call[c].got) \in Sent(c)
      OBVIOUS
    <3>1. Len(call[c].got) \in DOMAIN call[c].got
      BY <2>1
    <3> QED
      BY <3>1 DEF Last, Sent, ToSet
  <2>3. Variant(call[c].asked) = "Written"
    BY VariantOf DEF Methods
  <2> QED
    BY <2>1, <2>2, <2>3 DEF Wrote
<1> QED
  BY <1>1, CallsInvariant, PTL

-----------------------------------------------------------------------------
(* What a step leaves alone.                                               *)

\* A client's step, or a handler's, concerns its own connection only.
LEMMA ClientElsewhere ==
  ASSUME NEW B, NEW E, CallInv(B, E), NEW c \in Conns, Client(c), NEW x \in Conns, x # c
  PROVE  Still(x) /\ UNCHANGED <<task, queue, subs, core, daemon, seen>>
<1>1. /\ call \in [Conns -> CallType(B)] /\ up \in [Conns -> PipeType(Asked)]
      /\ down \in [Conns -> PipeType(B)]
  BY DEF CallInv, Typed
<1>2. UNCHANGED <<task, queue, subs, core, daemon, seen>>
  BY DEF Client, Connect, ConnectCut, ConnectFails, ClientPolls, HangUp
<1>3. call'[x] = call[x] /\ up'[x] = up[x] /\ down'[x] = down[x]
  <2>1. CASE Connect(c)
    BY <1>1, <2>1 DEF Connect, Asking
  <2>2. CASE ConnectCut(c)
    BY <1>1, <2>2 DEF ConnectCut, Asking
  <2>3. CASE ConnectFails(c)
    BY <1>1, <2>3 DEF ConnectFails, Asking
  <2>4. CASE HangUp(c)
    BY <1>1, <2>4 DEF HangUp, Ends
  <2>5. CASE ClientPolls(c)
    BY <1>1, <2>5 DEF ClientPolls, Ends, Response
  <2> QED
    BY <2>1, <2>2, <2>3, <2>4, <2>5 DEF Client
<1> QED
  BY <1>2, <1>3 DEF Still, Queued

LEMMA TaskElsewhere ==
  ASSUME NEW B, NEW E, CallInv(B, E), NEW c \in Conns, Task(c), NEW x \in Conns, x # c
  PROVE  Still(x) /\ UNCHANGED <<call, core, daemon>>
<1>1. /\ task \in [Conns -> TaskType(B)] /\ up \in [Conns -> PipeType(Asked)]
      /\ down \in [Conns -> PipeType(B)] /\ subs \in [Conns -> SubType(B)]
      /\ seen \in [Conns -> SeenType(B)] /\ queue \in Seq(MsgType)
  BY DEF CallInv, Typed
<1>2. UNCHANGED <<call, core, daemon>>
  BY DEF Task, Accept, TaskReads, Ask, Gone, TaskWrites, TaskSent, Notify, HungUp
<1>3. Leave(c) => task'[x] = task[x] /\ down'[x] = down[x] /\ subs'[x] = subs[x]
  BY <1>1 DEF Leave
<1>4. /\ task'[x] = task[x] /\ up'[x] = up[x] /\ down'[x] = down[x] /\ subs'[x] = subs[x]
      /\ seen'[x] = seen[x] /\ (Queued(x)' => Queued(x))
  <2>1. CASE Accept(c)
    BY <1>1, <2>1 DEF Accept, Queued
  <2>2. CASE TaskReads(c)
    BY <1>1, <1>3, <2>2 DEF TaskReads, Queued
  <2>3. CASE Ask(c)
    <3>1. PICK m : m.conn = c /\ queue' = Append(queue, m)
      BY <2>3 DEF Ask
    <3>2. PICK n \in Nat : n = Len(queue) /\ DOMAIN queue = 1 .. n
      BY <1>1
    <3>3. /\ DOMAIN queue' = 1 .. n + 1 /\ queue'[n + 1] = m
          /\ \A i \in 1 .. n : queue'[i] = queue[i]
      BY <1>1, <3>1, <3>2
    <3>4. \A i \in 1 .. n + 1 : i \in 1 .. n \/ i = n + 1
      BY <3>2
    <3>5. Queued(x)' => Queued(x)
      BY ONLY <3>1, <3>2, <3>3, <3>4, x # c DEF Queued
    <3> QED
      BY <1>1, <2>3, <3>5 DEF Ask
  <2>4. CASE Gone(c)
    BY <1>1, <2>4 DEF Gone, Queued
  <2>5. CASE TaskWrites(c)
    BY <1>1, <1>3, <2>5 DEF TaskWrites, Queued
  <2>6. CASE TaskSent(c)
    BY <1>1, <1>3, <2>6 DEF TaskSent, Queued
  <2>7. CASE Notify(c)
    BY <1>1, <1>3, <2>7 DEF Notify, Queued
  <2>8. CASE HungUp(c)
    BY <1>1, <1>3, <2>8 DEF HungUp, Queued
  <2> QED
    BY <2>1, <2>2, <2>3, <2>4, <2>5, <2>6, <2>7, <2>8 DEF Task
<1> QED
  BY <1>2, <1>4 DEF Still

\* A turn answers the message it takes.
LEMMA SomeReply == ASSUME Turn PROVE \E a : Reply(Head(queue).conn, a)
<1> PICK m : m = Head(queue)
  OBVIOUS
<1>1. CASE TurnReads
  <2>1. Reply(m.conn, Reads(m))
    BY <1>1 DEF TurnReads
  <2> QED
    BY <2>1
<1>2. CASE TurnWrites
  <2>1. \/ Reply(m.conn, Failure("Rejected"))
        \/ \E n \in {Moved(core, 0, Message(m.req))} :
             Reply(m.conn, WrittenAs(n.minted, NewestOf(n).digest, "Extended"))
    BY <1>2 DEF TurnWrites
  <2> QED
    BY <2>1
<1>3. CASE TurnCompacts
  <2>1. Reply(m.conn, Compacted(OldestOf(core).digest, OldestOf(Pruned(core)).digest,
                 Len(core.chain) + Len(core.orphans)
                   - Len(Pruned(core).chain) - Len(Pruned(core).orphans)))
    BY <1>3 DEF TurnCompacts
  <2> QED
    BY <2>1
<1>4. CASE TurnFails
  <2>1. \E kind : Reply(m.conn, Failure(kind))
    BY <1>4 DEF TurnFails
  <2> QED
    BY <2>1
<1> QED
  BY <1>1, <1>2, <1>3, <1>4 DEF Turn

\* A turn concerns the connection whose message it takes, and tells the others
\* of a movement at most.
LEMMA TurnElsewhere ==
  ASSUME NEW B, NEW E, CallInv(B, E), Turn, NEW x \in Conns, x # Head(queue).conn
  PROVE  Still(x) /\ UNCHANGED <<call, up, down, daemon>>
<1>1. PICK c : c = Head(queue).conn
  OBVIOUS
<1>2. /\ queue # <<>> /\ daemon = "up" /\ queue' = Tail(queue)
      /\ UNCHANGED <<call, up, down, daemon>>
  BY DEF Turn, TurnReads, TurnWrites, TurnCompacts, TurnFails
<1>3. c \in Conns
  BY <1>1, <1>2, HeadMsg
<1>4. Queued(x)' => Queued(x)
  BY <1>1, <1>2, <1>3, TakesStep
<1>5. task \in [Conns -> TaskType(B)] /\ subs \in [Conns -> SubType(B)]
      /\ seen \in [Conns -> SeenType(B)]
  BY DEF CallInv, Typed
<1>6. task'[x] = task[x]
  <2>1. PICK a : Reply(c, a)
    BY <1>1, SomeReply
  <2> QED
    BY <1>1, <1>5, <2>1 DEF Reply
<1>7. seen'[x] = seen[x]
  BY <1>1, <1>5 DEF Turn, TurnReads, TurnWrites, TurnCompacts, TurnFails
<1>8. \/ subs' = Published(core') \/ UNCHANGED subs
      \/ \E v : subs' = [subs EXCEPT ![c].live = v]
  BY <1>1, <1>3 DEF Turn, TurnReads, TurnWrites, TurnCompacts, TurnFails, Announces
<1>9. /\ subs'[x].live = subs[x].live
      /\ \/ subs'[x].pending = subs[x].pending
         \/ subs[x].live /\ \A b \in ToSet(subs'[x].pending) : b.is = "Watch"
  <2>1. CASE subs' = Published(core')
    <3>1. PICK P, new : P = UNION {ToSet(subs'[y].pending) : y \in Conns} /\ new = core'
      OBVIOUS
    <3> QED
      BY <1>5, <2>1, <3>1, PublishedStep
  <2>2. CASE subs' # Published(core')
    BY <1>1, <1>5, <1>8, <2>2
  <2> QED
    BY <2>1, <2>2
<1> QED
  BY <1>2, <1>4, <1>6, <1>7, <1>9 DEF Still

-----------------------------------------------------------------------------
(* What a client is streamed.                                              *)

LEMMA EmptyFacts == DOMAIN <<>> = {} /\ Len(<<>>) = 0
OBVIOUS

\* A frame written, a frame read, and a handler that writes no more.
LEMMA LineWrites ==
  ASSUME NEW B, NEW F, NEW p \in Seq(B), NEW got \in Seq(B), NEW frames \in Seq(F),
         NEW out \in Seq(B), out # <<>>, NEW f \in F, f.body = out[1],
         InLine(p, got, frames, out)
  PROVE  /\ InLine(p, got, Append(frames, f), Tail(out))
         /\ InLine(p, got, Append(frames, f), <<>>)
         /\ Len(got) + Len(Append(frames, f)) + Len(Tail(out)) =
              Len(got) + Len(frames) + Len(out)
<1>1. PICK g, n, m, t : g = Len(got) /\ n = Len(frames) /\ m = Len(out) /\ t = Len(p)
  OBVIOUS
<1>2. /\ g \in Nat /\ n \in Nat /\ m \in Nat \ {0} /\ t \in Nat
      /\ DOMAIN got = 1 .. g /\ DOMAIN frames = 1 .. n /\ DOMAIN out = 1 .. m
  BY <1>1
<1>3. PICK fs, o : fs = Append(frames, f) /\ o = Tail(out)
  OBVIOUS
<1>4. /\ Len(fs) = n + 1 /\ DOMAIN fs = 1 .. n + 1 /\ fs[n + 1] = f
      /\ \A i \in 1 .. n : fs[i] = frames[i]
  BY <1>1, <1>2, <1>3
<1>5. Len(o) = m - 1 /\ DOMAIN o = 1 .. m - 1 /\ \A i \in 1 .. m - 1 : o[i] = out[i + 1]
  BY <1>1, <1>3, TailFacts
<1>6. /\ g + n + m <= t /\ \A i \in 1 .. g : got[i] = p[i]
      /\ \A i \in 1 .. n : frames[i].body = p[g + i]
      /\ \A i \in 1 .. m : out[i] = p[g + n + i]
  BY <1>1, <1>2 DEF InLine
<1>7. \A i \in 1 .. n + 1 : fs[i].body = p[g + i]
  <2> SUFFICES ASSUME NEW i \in 1 .. n + 1 PROVE fs[i].body = p[g + i]
    OBVIOUS
  <2>1. CASE i = n + 1
    <3>1. 1 \in 1 .. m /\ g + (n + 1) = g + n + 1
      BY <1>2
    <3>2. f.body = p[g + n + 1]
      BY <1>6, <3>1
    <3> QED
      BY <1>4, <2>1, <3>1, <3>2
  <2>2. CASE i # n + 1
    <3>1. i \in 1 .. n
      BY <1>2, <2>2
    <3> QED
      BY <1>4, <1>6, <3>1
  <2> QED
    BY <2>1, <2>2
<1>8. \A i \in 1 .. m - 1 : o[i] = p[g + (n + 1) + i]
  <2> SUFFICES ASSUME NEW i \in 1 .. m - 1 PROVE o[i] = p[g + (n + 1) + i]
    OBVIOUS
  <2>1. i + 1 \in 1 .. m /\ g + n + (i + 1) = g + (n + 1) + i
    BY <1>2
  <2> QED
    BY <1>5, <1>6, <2>1
<1>9. g + (n + 1) + (m - 1) = g + n + m /\ g + (n + 1) + 0 <= t
  BY <1>2, <1>6
<1>10. InLine(p, got, fs, o)
  BY <1>1, <1>2, <1>4, <1>5, <1>6, <1>7, <1>8, <1>9 DEF InLine
<1>11. InLine(p, got, fs, <<>>)
  <2>1. DOMAIN <<>> = {} /\ Len(<<>>) = 0
    OBVIOUS
  <2> QED
    BY <1>1, <1>2, <1>4, <1>6, <1>7, <1>9, <2>1 DEF InLine
<1> QED
  BY <1>1, <1>3, <1>4, <1>5, <1>9, <1>10, <1>11

LEMMA LineReads ==
  ASSUME NEW B, NEW F, NEW p \in Seq(B), NEW got \in Seq(B), NEW frames \in Seq(F),
         NEW out \in Seq(B), frames # <<>>, frames[1].body \in B,
         InLine(p, got, frames, out)
  PROVE  /\ InLine(p, Append(got, frames[1].body), Tail(frames), out)
         /\ Len(Append(got, frames[1].body)) + Len(Tail(frames)) + Len(out) =
              Len(got) + Len(frames) + Len(out)
         /\ frames[1].body = p[Len(got) + 1] /\ Len(got) + 1 \in DOMAIN p
<1>1. PICK g, n, m, t : g = Len(got) /\ n = Len(frames) /\ m = Len(out) /\ t = Len(p)
  OBVIOUS
<1>2. /\ g \in Nat /\ n \in Nat \ {0} /\ m \in Nat /\ t \in Nat /\ DOMAIN p = 1 .. t
      /\ DOMAIN got = 1 .. g /\ DOMAIN frames = 1 .. n /\ DOMAIN out = 1 .. m
  BY <1>1
<1>3. PICK gs, fs, b : b = frames[1].body /\ gs = Append(got, b) /\ fs = Tail(frames)
  OBVIOUS
<1>4. /\ Len(gs) = g + 1 /\ DOMAIN gs = 1 .. g + 1 /\ gs[g + 1] = b
      /\ \A i \in 1 .. g : gs[i] = got[i]
  BY <1>1, <1>2, <1>3
<1>5. Len(fs) = n - 1 /\ DOMAIN fs = 1 .. n - 1 /\ \A i \in 1 .. n - 1 : fs[i] = frames[i + 1]
  BY <1>1, <1>3, TailFacts
<1>6. /\ g + n + m <= t /\ \A i \in 1 .. g : got[i] = p[i]
      /\ \A i \in 1 .. n : frames[i].body = p[g + i]
      /\ \A i \in 1 .. m : out[i] = p[g + n + i]
  BY <1>1, <1>2 DEF InLine
<1>7. b = p[g + 1] /\ g + 1 \in 1 .. t
  BY <1>2, <1>3, <1>6
<1>8. \A i \in 1 .. g + 1 : gs[i] = p[i]
  BY <1>2, <1>4, <1>6, <1>7
<1>9. \A i \in 1 .. n - 1 : fs[i].body = p[(g + 1) + i]
  <2> SUFFICES ASSUME NEW i \in 1 .. n - 1 PROVE fs[i].body = p[(g + 1) + i]
    OBVIOUS
  <2>1. i + 1 \in 1 .. n /\ g + (i + 1) = (g + 1) + i
    BY <1>2
  <2> QED
    BY <1>5, <1>6, <2>1
<1>10. (g + 1) + (n - 1) + m = g + n + m /\ (g + 1) + (n - 1) = g + n
  BY <1>2
<1>11. InLine(p, gs, fs, out)
  <2>1. \A i \in 1 .. m : out[i] = p[(g + 1) + (n - 1) + i]
    BY <1>6, <1>10
  <2>2. (g + 1) + (n - 1) + m <= t
    BY <1>6, <1>10
  <2> QED
    BY ONLY <1>1, <1>2, <1>4, <1>5, <1>8, <1>9, <2>1, <2>2 DEF InLine
<1> QED
  BY <1>1, <1>2, <1>3, <1>4, <1>5, <1>7, <1>10, <1>11

LEMMA LineStops ==
  ASSUME NEW B, NEW F, NEW p \in Seq(B), NEW got \in Seq(B), NEW frames \in Seq(F),
         NEW out \in Seq(B), InLine(p, got, frames, out)
  PROVE  /\ InLine(p, got, frames, <<>>)
         /\ Len(got) <= Len(p) /\ \A i \in DOMAIN got : got[i] = p[i]
<1>1. /\ Len(got) \in Nat /\ Len(frames) \in Nat /\ Len(out) \in Nat /\ Len(p) \in Nat
      /\ DOMAIN <<>> = {} /\ Len(<<>>) = 0
  OBVIOUS
<1>2. Len(got) + Len(frames) + 0 <= Len(p) /\ Len(got) <= Len(p)
  BY <1>1 DEF InLine
<1> QED
  BY <1>1, <1>2 DEF InLine

\* Lengths are numbers.
LEMMA LineTyped ==
  ASSUME NEW B, NEW E, CallInv(B, E), NEW c \in Conns
  PROVE  /\ call[c].got \in Seq(B) /\ down[c].frames \in Seq(FrameType(B))
         /\ task[c].out \in Seq(B) /\ seen[c].picked \in Seq(B)
         /\ Len(call[c].got) \in Nat /\ Len(down[c].frames) \in Nat
         /\ Len(task[c].out) \in Nat /\ Len(seen[c].picked) \in Nat
<1>1. /\ call[c].got \in Seq(B) /\ down[c].frames \in Seq(FrameType(B))
      /\ task[c].out \in Seq(B) /\ seen \in [Conns -> SeenType(B)]
  BY ConnFacts
<1>2. seen[c].picked \in Seq(B)
  BY <1>1 DEF SeenType
<1> QED
  BY <1>1, <1>2

\* A step that moves nothing of the stream.
Steady(c) ==
  /\ call'[c].at = call[c].at /\ call'[c].asked = call[c].asked
  /\ call'[c].got = call[c].got /\ call'[c].end = call[c].end
  /\ down'[c].frames = down[c].frames /\ task'[c].out = task[c].out
  /\ seen'[c].picked = seen[c].picked /\ (seen[c].unsent => seen'[c].unsent)
  /\ (Early(c)' => Early(c)) /\ (daemon = "exited" => daemon' = "exited")

LEMMA SteadyStreams ==
  ASSUME NEW c \in Conns, Steady(c), Streams(c)
  PROVE  Streams(c)'
<1>1. Line(c)' = Line(c) /\ Sent(c)' = Sent(c) /\ (Cut(c) => Cut(c)')
  BY DEF Steady, Line, Sent, Cut
<1>2. Streamed(c) => Streamed(c)'
  BY <1>1 DEF Steady, Streamed
<1>3. Refused(c) => Refused(c)'
  BY <1>1 DEF Steady, Refused
<1> QED
  BY <1>2, <1>3 DEF Steady, Streams

LEMMA StillStreams ==
  ASSUME NEW c \in Conns, Still(c), daemon' = daemon, Streams(c)
  PROVE  Streams(c)'
<1>1. Steady(c)
  BY DEF Still, Steady, Early
<1> QED
  BY <1>1, SteadyStreams

\* A call that ends otherwise than with a failure or the end of the stream.
LEMMA DropsStreams ==
  ASSUME NEW B, NEW E, CallInv(B, E), NEW c \in Conns, Streams(c), call[c].end = "",
         call'[c].at = "ended", call'[c].asked = call[c].asked,
         call'[c].got = call[c].got \/ call'[c].got = <<>>,
         call'[c].end \notin {"Failed", "none"},
         UNCHANGED <<down, task, daemon, seen>>
  PROVE  Streams(c)'
<1> SUFFICES ASSUME call[c].asked.type = "GetEnvelopes" PROVE Streams(c)'
  BY DEF Streams
<1>1. Len(call[c].got) \in Nat /\ Len(seen[c].picked) \in Nat
  BY LineTyped
<1>a. DOMAIN <<>> = {} /\ Len(<<>>) = 0
  BY ONLY EmptyFacts
<1>2. Len(call'[c].got) <= Len(seen[c].picked)
      /\ \A i \in DOMAIN call'[c].got : call'[c].got[i] = seen[c].picked[i]
  <2>1. CASE call'[c].got = <<>>
    BY ONLY <1>1, <1>a, <2>1
  <2>2. CASE call'[c].got # <<>> /\ Streamed(c)
    BY <2>2 DEF Streamed
  <2>3. CASE call'[c].got # <<>> /\ Refused(c)
    BY <2>3 DEF Refused
  <2> QED
    BY <2>1, <2>2, <2>3 DEF Streams
<1>3. Streamed(c)'
  BY <1>2 DEF Streamed
<1> QED
  BY <1>3 DEF Streams, Early

LEMMA EmptyLine == InLine(<<>>, <<>>, <<>>, <<>>)
<1>1. Len(<<>>) + Len(<<>>) + Len(<<>>) <= Len(<<>>)
  OBVIOUS
<1> QED
  BY <1>1, EmptyFacts DEF InLine

\* A call that is open from here on, or over before it began.
LEMMA BeginsStreams ==
  ASSUME NEW B, NEW E, CallInv(B, E), NEW c \in Conns, Streams(c),
         Connect(c) \/ ConnectCut(c) \/ ConnectFails(c) \/ HangUp(c)
  PROVE  Streams(c)'
<1>1. /\ Asks(c) /\ Works(c) /\ Answers(c) /\ call \in [Conns -> CallType(B)]
  BY ConnFacts
<1>2. UNCHANGED <<down, task, daemon, seen>>
  BY DEF Connect, ConnectCut, ConnectFails, HangUp
<1>3. call[c].end = ""
  BY <1>1 DEF Connect, ConnectCut, ConnectFails, HangUp, Asks
<1>4. CASE Connect(c) /\ Sendable(call[c].asked)
  <2>1. Asking(c, "open", "") /\ call[c].at = "idle" /\ daemon = "up"
    BY <1>4 DEF Connect
  <2>2. Becomes(B, c, "open", call[c].filled, call[c].got, "")
    BY <1>1, <2>1, AskingStep DEF Outcomes
  <2>3. /\ task[c].at = "none" /\ task[c].out = <<>> /\ down[c].frames = <<>>
        /\ call[c].got = <<>>
    BY <1>1, <2>1 DEF Asks, Works, Answers
  <2>4. SUFFICES ASSUME call[c].asked.type = "GetEnvelopes" PROVE Streams(c)'
    BY <2>2 DEF Streams, Becomes
  <2>5. seen[c].picked = <<>>
    BY <2>3, <2>4 DEF Streams, Early
  <2>6. /\ call'[c].got = <<>> /\ down'[c].frames = <<>> /\ task'[c].out = <<>>
        /\ seen'[c].picked = <<>> /\ call'[c].end = ""
    BY <1>2, <2>2, <2>3, <2>5 DEF Becomes
  <2>7. Len(<<>>) <= Len(<<>>) /\ Len(<<>>) + Len(<<>>) + Len(<<>>) = Len(<<>>)
    OBVIOUS
  <2>8. Streamed(c)'
    BY ONLY <2>6, <2>7, EmptyLine, EmptyFacts DEF Streamed, Line
  <2> QED
    BY <2>6, <2>8, EmptyFacts DEF Streams
<1>5. CASE ~ (Connect(c) /\ Sendable(call[c].asked))
  <2>1. \/ \E end \in {"FrameTooLarge", "Dropped", "Connect"} : Asking(c, "ended", end)
        \/ Ends(c, "Dropped", <<>>)
    BY <1>5 DEF Connect, ConnectCut, ConnectFails, HangUp
  <2>2. /\ call'[c].at = "ended" /\ call'[c].asked = call[c].asked
        /\ call'[c].got = call[c].got \/ call'[c].got = <<>>
        /\ call'[c].end \notin {"Failed", "none"}
    <3>1. CASE \E end \in {"FrameTooLarge", "Dropped", "Connect"} : Asking(c, "ended", end)
      BY <1>1, <3>1, AskingStep DEF Outcomes, Becomes
    <3>2. CASE Ends(c, "Dropped", <<>>)
      <4>1. <<>> \in Seq(B)
        OBVIOUS
      <4>2. Becomes(B, c, "ended", 0, <<>>, "Dropped")
        BY <1>1, <3>2, <4>1, EndsStep DEF Outcomes
      <4> QED
        BY <4>2 DEF Becomes
    <3> QED
      BY <2>1, <3>1, <3>2
  <2> QED
    BY <1>2, <1>3, <2>2, DropsStreams
<1> QED
  BY <1>4, <1>5

\* A frame is handed over, or the stream ends.
LEMMA PollsStreams ==
  ASSUME NEW B, NEW E, CallInv(B, E), NEW c \in Conns, Streams(c), ClientPolls(c)
  PROVE  Streams(c)'
<1> DEFINE q == call[c].asked
           p == seen[c].picked
<1>1. UNCHANGED <<task, daemon, seen>>
  BY DEF ClientPolls
<1>2. /\ Asks(c) /\ Works(c) /\ Answers(c) /\ call \in [Conns -> CallType(B)]
      /\ down \in [Conns -> PipeType(B)] /\ down[c] \in PipeType(B) /\ call[c].filled \in Nat
      /\ q \in Asked
  BY ConnFacts
<1>3. /\ call[c].got \in Seq(B) /\ down[c].frames \in Seq(FrameType(B))
      /\ task[c].out \in Seq(B) /\ p \in Seq(B)
      /\ Len(call[c].got) \in Nat /\ Len(down[c].frames) \in Nat
      /\ Len(task[c].out) \in Nat /\ Len(p) \in Nat
  BY LineTyped
<1>4. call[c].at = "open" /\ call[c].end = ""
  BY <1>2 DEF ClientPolls, Asks
<1>5. PICK r \in Poll(down[c], call[c].filled) :
        \/ /\ r.is = "more"
           /\ call' = [call EXCEPT ![c].filled = r.filled]
           /\ UNCHANGED <<up, down>>
        \/ /\ r.is = "frame"
           /\ Response(c, r.body)
           /\ down' = [down EXCEPT ![c] = Popped(@)]
        \/ /\ r.is \notin {"more", "frame"}
           /\ Ends(c, Closed(c, r.is), call[c].got)
           /\ UNCHANGED down
  BY DEF ClientPolls
<1>6. Yields(r, down[c], call[c].filled)
  BY <1>2, PollYields
<1>7. CASE r.is = "more"
  <2>1. r.filled \in Nat /\ call' = [call EXCEPT ![c].filled = r.filled] /\ UNCHANGED down
    BY <1>5, <1>6, <1>7 DEF Yields
  <2>2. Becomes(B, c, "open", r.filled, call[c].got, "")
    BY <1>2, <1>4, <2>1, FilledStep
  <2>3. Steady(c)
    BY <1>1, <1>4, <2>1, <2>2 DEF Steady, Becomes, Early
  <2> QED
    BY <2>3, SteadyStreams
<1>8. CASE r.is = "frame"
  <2>1. PICK b, got : b = down[c].frames[1].body /\ got = Append(call[c].got, b)
    OBVIOUS
  <2>2. /\ down[c].frames # <<>> /\ Response(c, b)
        /\ down' = [down EXCEPT ![c] = Popped(@)]
    BY <1>5, <1>6, <1>8, <2>1 DEF Yields
  <2>3. down'[c].frames = Tail(down[c].frames)
    BY <1>2, <2>2, PoppedPipe
  <2>4. b \in B /\ got \in Seq(B) /\ b \in Sent(c)
    <3>1. down[c].frames[1] \in FrameType(B)
      BY <1>3, <2>2, TailFacts
    <3>2. b \in B
      BY <2>1, <3>1 DEF FrameType
    <3>3. b \in Sent(c)
      BY <1>3, <2>1, <2>2, BodiesTail DEF Sent
    <3> QED
      BY <1>3, <2>1, <3>2, <3>3
  <2>5. SUFFICES ASSUME q.type = "GetEnvelopes", call'[c].asked = q PROVE Streams(c)'
    <3>1. call'[c].asked = q
      <4>1. \/ \E end \in {"Failed", "UnexpectedResponse", "Ok"} : Ends(c, end, got)
            \/ call' = [call EXCEPT ![c].got = got, ![c].filled = 0]
        BY <2>1, <2>2 DEF Response
      <4> QED
        BY <1>2, <2>4, <4>1, EndsStep, GotStep DEF Outcomes, Becomes
    <3> QED
      BY <3>1 DEF Streams
  <2>6. b.is \in {"Failed", "Envelope"}
    <3>1. Variant(q) = "Envelope"
      BY <2>5, VariantOf DEF Methods, Many
    <3> QED
      BY <1>2, <2>4, <3>1 DEF Answers
  <2>7. got # <<>> /\ ToSet(got) = ToSet(call[c].got) \cup {b}
    BY <1>3, <2>1, AppendSet
  <2>8. Bodies(down[c].frames) = {b} \cup Bodies(Tail(down[c].frames))
    BY <1>3, <2>1, <2>2, BodiesTail
  <2>9. /\ Len(got) = Len(call[c].got) + 1
        /\ Len(Tail(down[c].frames)) = Len(down[c].frames) - 1
    BY <1>3, <2>1, <2>2, TailFacts
  <2>a. PICK F, O, G, P, T : /\ F = down[c].frames /\ O = task[c].out /\ G = call[c].got
                             /\ P = p /\ T = FrameType(B)
    OBVIOUS
  <2>b. /\ F \in Seq(T) /\ O \in Seq(B) /\ G \in Seq(B) /\ P \in Seq(B) /\ F # <<>>
        /\ F[1].body \in B /\ b = F[1].body /\ got = Append(G, b)
    BY <1>3, <2>1, <2>2, <2>4, <2>a
  <2>c. InLine(P, G, F, O) =>
          /\ InLine(P, got, Tail(F), O)
          /\ Len(got) + Len(Tail(F)) + Len(O) = Len(G) + Len(F) + Len(O)
          /\ b = P[Len(G) + 1] /\ Len(G) + 1 \in DOMAIN P
    BY ONLY <2>b, LineReads
  <2>10. /\ \A i \in DOMAIN seen'[c].picked : seen'[c].picked[i].is = "Envelope"
         /\ Early(c)' => seen'[c].picked = <<>>
    BY <1>1, <2>5 DEF Streams, Early
  <2>11. CASE b.is = "Failed"
    <3>1. Ends(c, "Failed", got)
      BY <2>1, <2>2, <2>11 DEF Response
    <3>2. Becomes(B, c, "ended", 0, got, "Failed")
      BY <1>2, <2>4, <3>1, EndsStep DEF Outcomes
    <3>3. ~Streamed(c)
      <4> SUFFICES ASSUME Streamed(c) PROVE FALSE
        OBVIOUS
      <4>1. InLine(p, call[c].got, down[c].frames, task[c].out)
        BY <1>4 DEF Streamed
      <4>2. b = p[Len(call[c].got) + 1] /\ Len(call[c].got) + 1 \in DOMAIN p
        BY <2>a, <2>c, <4>1
      <4>3. b.is = "Envelope"
        BY <2>5, <4>2 DEF Streams
      <4> QED
        BY <2>11, <4>3
    <3>4. Refused(c)
      BY <2>5, <3>3 DEF Streams
    <3>5. Line(c)' = Line(c)
      <4>1. Line(c)' = Len(got) + Len(Tail(F)) + Len(O)
        BY <1>1, <2>3, <2>a, <3>2 DEF Line, Becomes
      <4>2. Line(c) = Len(G) + Len(F) + Len(O)
        BY <2>a DEF Line
      <4>3. PICK x, y, z : x = Len(G) /\ y = Len(F) /\ z = Len(O)
        OBVIOUS
      <4>4. /\ Len(got) = x + 1 /\ Len(Tail(F)) = y - 1
            /\ x \in Nat /\ y \in Nat /\ z \in Nat
        BY <1>3, <2>9, <2>a, <4>3
      <4>5. (x + 1) + (y - 1) + z = x + y + z
        BY ONLY <4>4
      <4> QED
        BY <4>1, <4>2, <4>3, <4>4, <4>5
    <3>6. Sent(c)' = Sent(c)
      BY <1>1, <2>3, <2>7, <2>8, <3>2 DEF Sent, Becomes
    <3>7. Refused(c)'
      BY <1>1, <2>7, <3>2, <3>4, <3>5, <3>6 DEF Refused, Becomes
    <3> QED
      BY <2>10, <3>7 DEF Streams
  <2>12. CASE b.is = "Envelope"
    <3>1. Variant(q) = "Envelope"
      BY <2>5, VariantOf DEF Methods, Many
    <3>2. call' = [call EXCEPT ![c].got = got, ![c].filled = 0]
      BY <2>1, <2>2, <2>5, <2>12, <3>1 DEF Response, Many
    <3>3. Becomes(B, c, "open", 0, got, "")
      BY <1>2, <1>4, <2>4, <3>2, GotStep
    <3>4. Streamed(c)
      BY <2>4, <2>5, <2>12 DEF Streams, Refused
    <3>5. InLine(p, call[c].got, down[c].frames, task[c].out)
      BY <1>4, <3>4 DEF Streamed
    <3>6. /\ InLine(p, got, Tail(down[c].frames), task[c].out)
          /\ Len(got) + Len(Tail(down[c].frames)) + Len(task[c].out) = Line(c)
      BY <2>a, <2>c, <3>5 DEF Line
    <3>7. Len(got) <= Len(p) /\ \A i \in DOMAIN got : got[i] = p[i]
      <4>1. PICK H : H = Tail(F)
        OBVIOUS
      <4>2. /\ P \in Seq(B) /\ got \in Seq(B) /\ H \in Seq(T) /\ O \in Seq(B)
            /\ InLine(P, got, H, O)
        <5>1. H \in Seq(T)
          BY ONLY <2>b, <4>1
        <5> QED
          BY <2>4, <2>a, <2>b, <3>6, <4>1, <5>1
      <4>3. Len(got) <= Len(P) /\ \A i \in DOMAIN got : got[i] = P[i]
        BY ONLY <4>2, LineStops
      <4> QED
        BY <2>a, <4>3
    <3>8. Line(c)' = Line(c) /\ (Cut(c)' <=> Cut(c))
      BY <1>1, <2>3, <3>3, <3>6 DEF Line, Becomes, Cut
    <3>9. Streamed(c)'
      BY <1>1, <1>4, <2>3, <3>3, <3>4, <3>6, <3>7, <3>8 DEF Streamed, Becomes
    <3> QED
      BY <2>10, <3>9 DEF Streams
  <2> QED
    BY <2>6, <2>11, <2>12
<1>9. CASE r.is \notin {"more", "frame"}
  <2>1. PICK end : end = Closed(c, r.is)
    OBVIOUS
  <2>2. Ends(c, end, call[c].got) /\ UNCHANGED down
    BY <1>5, <1>9, <2>1
  <2>3. /\ r.is \in {"FrameTooLarge", "Truncated", "none"}
        /\ r.is = "none" => down[c].shut /\ down[c].frames = <<>>
    BY <1>6, <1>9 DEF Yields
  <2>4. /\ end \in {"IO", "NoResponse", "FrameTooLarge", "Truncated", "none"}
        /\ end = "none" => r.is = "none" /\ up[c].frames = <<>>
    BY <2>1, <2>3 DEF Closed
  <2>5. Becomes(B, c, "ended", 0, call[c].got, end)
    BY <1>2, <1>3, <2>2, <2>4, EndsStep DEF Outcomes
  <2>6. CASE end # "none"
    BY <1>1, <1>4, <2>2, <2>4, <2>5, <2>6, DropsStreams DEF Becomes
  <2>7. CASE end = "none"
    <3>1. down[c].shut /\ down[c].frames = <<>> /\ up[c].frames = <<>>
      BY <2>3, <2>4, <2>7
    <3>2. task[c].at = "ended" /\ task[c].out = <<>>
      BY <1>2, <1>4, <3>1 DEF Asks, Works, Answers
    <3>3. SUFFICES ASSUME q.type = "GetEnvelopes" PROVE Streams(c)'
      BY <2>5 DEF Streams, Becomes
    <3>4. Line(c) = Len(call[c].got)
      BY <1>3, <3>1, <3>2, EmptyFacts DEF Line
    <3>5. /\ Len(call[c].got) <= Len(p) /\ \A i \in DOMAIN call[c].got : call[c].got[i] = p[i]
          /\ Cut(c) \/ Len(call[c].got) = Len(p)
      <4>1. CASE Streamed(c)
        BY <1>4, <3>4, <4>1 DEF Streamed
      <4>2. CASE Refused(c)
        <5>1. call[c].got = <<>> /\ p = <<>>
          BY <1>4, <4>2 DEF Refused
        <5> QED
          BY ONLY <5>1, EmptyFacts
      <4> QED
        BY <3>3, <4>1, <4>2 DEF Streams
    <3>6. Cut(c) <=> Cut(c)'
      BY <1>1 DEF Cut
    <3>7. Streamed(c)'
      BY <1>1, <2>5, <2>7, <3>5, <3>6 DEF Streamed, Becomes
    <3> QED
      BY <1>1, <3>3, <3>7 DEF Streams, Early
  <2> QED
    BY <2>6, <2>7
<1> QED
  BY <1>7, <1>8, <1>9

\* serve returns: what it still had to write is lost, and a client that was
\* there is owed it only if a frame did not fit.
LEMMA LeavesStreams ==
  ASSUME NEW B, NEW E, CallInv(B, E), NEW c \in Conns, Streams(c), Left(B, c),
         call'[c] = call[c], daemon' = daemon, seen'[c].picked = seen[c].picked,
         seen[c].unsent => seen'[c].unsent,
         call[c].at # "open" \/ task[c].out = <<>> \/ seen'[c].unsent
  PROVE  Streams(c)'
<1>1. PICK G, F, O, P, T : /\ G = call[c].got /\ F = down[c].frames /\ O = task[c].out
                           /\ P = seen[c].picked /\ T = FrameType(B)
  OBVIOUS
<1>2. G \in Seq(B) /\ F \in Seq(T) /\ O \in Seq(B) /\ P \in Seq(B)
  BY <1>1, LineTyped
<1>3. call'[c].got = G /\ down'[c].frames = F /\ task'[c].out = <<>> /\ seen'[c].picked = P
  BY <1>1 DEF Left
<1>4. Line(c)' = Len(G) + Len(F) + Len(<<>>) /\ Line(c) = Len(G) + Len(F) + Len(O)
  BY <1>1, <1>3 DEF Line
<1>5. Line(c)' <= Line(c) /\ (O = <<>> => Line(c)' = Line(c)) /\ Line(c) \in Nat
      /\ Line(c)' \in Nat
  <2>1. PICK x, y, z : x = Len(G) /\ y = Len(F) /\ z = Len(O)
    OBVIOUS
  <2>2. x \in Nat /\ y \in Nat /\ z \in Nat /\ (O = <<>> => z = 0)
    BY ONLY <1>2, <2>1, EmptyFacts
  <2>3. Line(c)' = x + y + 0 /\ Line(c) = x + y + z
    BY ONLY <1>4, <2>1, EmptyFacts
  <2> QED
    BY ONLY <2>2, <2>3
<1>6. Sent(c)' \subseteq Sent(c)
  BY <1>1, <1>3, ToSetEmpty DEF Sent
<1>7. (Cut(c) => Cut(c)') /\ ~Early(c)'
  BY DEF Cut, Early, Left
<1>8. Streamed(c) => Streamed(c)'
  <2> SUFFICES ASSUME Streamed(c) PROVE Streamed(c)'
    OBVIOUS
  <2>1. call[c].at = "open" => InLine(P, G, F, <<>>)
    <3> SUFFICES ASSUME call[c].at = "open" PROVE InLine(P, G, F, <<>>)
      OBVIOUS
    <3>1. InLine(P, G, F, O)
      BY <1>1 DEF Streamed
    <3> QED
      BY ONLY <1>2, <3>1, LineStops
  <2>2. call[c].at = "open" => Cut(c)' \/ Line(c)' = Len(P)
    BY <1>1, <1>5, <1>7 DEF Streamed, Cut
  <2> QED
    BY <1>1, <1>3, <1>7, <2>1, <2>2 DEF Streamed
<1>9. Refused(c) => Refused(c)'
  BY <1>1, <1>3, <1>5, <1>6 DEF Refused
<1> QED
  BY <1>1, <1>3, <1>7, <1>8, <1>9 DEF Streams

\* The handler's only answer is a failure.
LEMMA FailsStreams ==
  ASSUME NEW B, NEW E, CallInv(B, E), NEW c \in Conns, Streams(c), Early(c),
         call'[c] = call[c], down'[c] = down[c], seen'[c].picked = seen[c].picked,
         NEW kind, task'[c].out = <<Failure(kind)>>, ~Early(c)'
  PROVE  Streams(c)'
<1> SUFFICES ASSUME call[c].asked.type = "GetEnvelopes" PROVE Streams(c)'
  BY DEF Streams
<1>1. PICK b : b = Failure(kind)
  OBVIOUS
<1>2. b.is = "Failed" /\ task'[c].out = <<b>>
  BY <1>1 DEF Failure
<1>3. Answers(c) /\ Wrote(c)
  BY ConnFacts
<1>4. call[c].got = <<>> /\ down[c].frames = <<>> /\ seen[c].picked = <<>> /\ call[c].end # "Failed"
  BY <1>3 DEF Answers, Wrote, Early, Streams
<1>5. Line(c)' <= 1
  <2>1. Line(c)' = Len(<<>>) + Len(<<>>) + Len(<<b>>)
    BY <1>2, <1>4 DEF Line
  <2>2. Len(<<>>) + Len(<<>>) + Len(<<b>>) <= 1
    OBVIOUS
  <2> QED
    BY <2>1, <2>2
<1>6. Sent(c)' = {b}
  <2>1. ToSet(<<b>>) = {b}
    BY ONLY TRUE DEF ToSet
  <2>2. Sent(c)' = ToSet(<<>>) \cup Bodies(<<>>) \cup ToSet(<<b>>)
    BY <1>2, <1>4 DEF Sent
  <2> QED
    BY <2>1, <2>2, ToSetEmpty, BodiesEmpty
<1>7. Refused(c)'
  BY <1>2, <1>4, <1>5, <1>6 DEF Refused
<1> QED
  BY <1>4, <1>7, EmptyFacts DEF Streams

\* A frame goes from the handler into the pipe.
LEMMA WritesStreams ==
  ASSUME NEW B, NEW E, CallInv(B, E), NEW c \in Conns, Streams(c), TaskWrites(c)
  PROVE  Streams(c)'
<1>1. /\ task \in [Conns -> TaskType(B)] /\ down \in [Conns -> PipeType(B)]
      /\ subs \in [Conns -> SubType(B)] /\ seen \in [Conns -> SeenType(B)]
      /\ down[c] \in PipeType(B) /\ task[c] \in TaskType(B) /\ seen[c] \in SeenType(B)
  BY ConnFacts
<1>2. PICK b : b = Head(task[c].out)
  OBVIOUS
<1>3. /\ task[c].at \in {"sending", "telling"} /\ task[c].out # <<>>
      /\ UNCHANGED <<call, daemon>>
      /\ seen' = [seen EXCEPT ![c].unsent = @ \/ ~Sendable(b)]
  BY <1>2 DEF TaskWrites
<1>4. /\ seen'[c].picked = seen[c].picked /\ (seen[c].unsent => seen'[c].unsent)
      /\ ~Sendable(b) => seen'[c].unsent
  BY <1>1, <1>3 DEF SeenType
<1>5. CASE call[c].at = "ended" \/ ~Sendable(b)
  <2>1. Leave(c)
    BY <1>2, <1>5 DEF TaskWrites
  <2>2. Left(B, c)
    BY <1>1, <2>1, LeaveStep
  <2>3. call[c].at # "open" \/ seen'[c].unsent
    BY <1>4, <1>5
  <2> QED
    BY <1>3, <1>4, <2>2, <2>3, LeavesStreams
<1>6. CASE call[c].at # "ended" /\ Sendable(b)
  <2>1. PICK f, G, F, O, P, T :
          /\ f = FrameOf(b, BodyLen(b)) /\ G = call[c].got /\ F = down[c].frames
          /\ O = task[c].out /\ P = seen[c].picked /\ T = FrameType(B)
    OBVIOUS
  <2>2. /\ down' = [down EXCEPT ![c] = Pushed(@, f)]
        /\ task' = [task EXCEPT ![c].out = Tail(@)]
    BY <1>2, <1>6, <2>1 DEF TaskWrites
  <2>3. G \in Seq(B) /\ F \in Seq(T) /\ O \in Seq(B) /\ P \in Seq(B) /\ O # <<>>
    BY <1>3, <2>1, LineTyped
  <2>4. b \in B /\ b = O[1] /\ Tail(O) \in Seq(B) /\ ToSet(O) = {b} \cup ToSet(Tail(O))
    BY ONLY <1>2, <2>1, <2>3, TailFacts, TailSet
  <2>5. f \in T /\ f.body = b
    <3>1. BodyLen(b) \in Nat \ {0}
      BY <1>6, FrameAssumption DEF Sendable
    <3> QED
      BY <2>1, <2>4, <3>1, FrameAssumption DEF FrameOf, FrameType
  <2>6. down'[c].frames = Append(F, f) /\ task'[c].out = Tail(O) /\ task'[c].at = task[c].at
    <3>1. Pushed(down[c], f).frames = Append(F, f)
      BY <1>1, <2>1, <2>5, PushedPipe
    <3>2. down'[c] = Pushed(down[c], f)
      BY <1>1, <2>2
    <3>3. task'[c].out = Tail(O) /\ task'[c].at = task[c].at
      BY <1>1, <2>1, <2>2 DEF TaskType
    <3> QED
      BY <3>1, <3>2, <3>3
  <2>7. /\ call'[c] = call[c] /\ call'[c].got = G /\ seen'[c].picked = P
        /\ ~Early(c)' /\ (Cut(c) => Cut(c)')
    BY <1>3, <1>4, <2>1, <2>6 DEF Early, Cut
  <2>8. Line(c)' = Line(c)
    <3>1. /\ Line(c)' = Len(G) + Len(Append(F, f)) + Len(Tail(O))
          /\ Line(c) = Len(G) + Len(F) + Len(O)
      BY <2>1, <2>6, <2>7 DEF Line
    <3>2. PICK x, y, z : x = Len(G) /\ y = Len(F) /\ z = Len(O)
      OBVIOUS
    <3>3. /\ Len(Append(F, f)) = y + 1 /\ Len(Tail(O)) = z - 1
          /\ x \in Nat /\ y \in Nat /\ z \in Nat
      BY ONLY <2>3, <2>5, <3>2, TailFacts
    <3>4. x + (y + 1) + (z - 1) = x + y + z
      BY ONLY <3>3
    <3> QED
      BY <3>1, <3>2, <3>3, <3>4
  <2>9. Sent(c)' = Sent(c)
    <3>1. Bodies(Append(F, f)) = Bodies(F) \cup {b}
      BY ONLY <2>3, <2>5, BodiesAppend
    <3> QED
      BY <2>1, <2>4, <2>6, <2>7, <3>1 DEF Sent
  <2>10. Streamed(c) => Streamed(c)'
    <3> SUFFICES ASSUME Streamed(c) PROVE Streamed(c)'
      OBVIOUS
    <3>1. call[c].at = "open" => InLine(P, G, Append(F, f), Tail(O))
      <4> SUFFICES ASSUME call[c].at = "open" PROVE InLine(P, G, Append(F, f), Tail(O))
        OBVIOUS
      <4>1. InLine(P, G, F, O) /\ f.body = O[1]
        BY <2>1, <2>4, <2>5 DEF Streamed
      <4> QED
        BY ONLY <2>3, <2>5, <4>1, LineWrites
    <3> QED
      BY <2>1, <2>6, <2>7, <2>8, <3>1 DEF Streamed
  <2>11. Refused(c) => Refused(c)'
    BY <2>1, <2>7, <2>8, <2>9 DEF Refused
  <2> QED
    BY <2>1, <2>7, <2>10, <2>11 DEF Streams
<1> QED
  BY <1>5, <1>6

\* The other steps of the handler of c.
LEMMA TaskStreams ==
  ASSUME NEW B, NEW E, CallInv(B, E), NEW c \in Conns, Streams(c), Task(c)
  PROVE  Streams(c)'
<1>1. /\ task \in [Conns -> TaskType(B)] /\ down \in [Conns -> PipeType(B)]
      /\ subs \in [Conns -> SubType(B)] /\ seen \in [Conns -> SeenType(B)]
      /\ task[c] \in TaskType(B) /\ up[c] \in PipeType(Asked) /\ task[c].filled \in Nat
      /\ Asks(c) /\ Works(c) /\ Typed(B, E) /\ call[c].asked \in Asked
  BY ConnFacts
<1>2. CASE TaskWrites(c)
  BY <1>2, WritesStreams
<1>3. SUFFICES ASSUME ~TaskWrites(c) PROVE Streams(c)'
  BY <1>2
<1>4. UNCHANGED <<call, daemon, seen>>
  BY <1>3 DEF Task, Accept, TaskReads, Ask, Gone, TaskSent, Notify, HungUp
<1>5. SUFFICES ASSUME call[c].asked.type = "GetEnvelopes" PROVE Streams(c)'
  BY <1>4 DEF Streams
<1>6. ASSUME Leave(c), call[c].at # "open" \/ task[c].out = <<>> PROVE Streams(c)'
  <2>1. Left(B, c)
    BY <1>1, <1>6, LeaveStep
  <2> QED
    BY <1>4, <1>6, <2>1, LeavesStreams
<1>7. ASSUME UNCHANGED down, task'[c].out = task[c].out, Early(c)' => Early(c)
      PROVE  Streams(c)'
  <2>1. Steady(c)
    BY <1>4, <1>7 DEF Steady
  <2> QED
    BY <2>1, SteadyStreams
<1>8. CASE Accept(c)
  <2>1. task'[c].out = task[c].out /\ UNCHANGED down /\ Early(c)
    BY <1>1, <1>8 DEF Accept, TaskType, Early
  <2> QED
    BY <1>7, <2>1
<1>9. CASE TaskReads(c)
  <2>1. PICK r \in Poll(up[c], task[c].filled) :
          \/ /\ r.is = "more"
             /\ task' = [task EXCEPT ![c].filled = r.filled]
             /\ UNCHANGED <<up, down, subs>>
          \/ /\ r.is = "frame"
             /\ task' = [task EXCEPT ![c] = IF r.body = Unknown THEN Tell(@, "Unsupported")
                                            ELSE Handle(@, r.body)]
             /\ up' = [up EXCEPT ![c] = Popped(@)]
             /\ UNCHANGED <<down, subs>>
          \/ /\ r.is \notin {"more", "frame"}
             /\ Leave(c)
             /\ UNCHANGED up
    BY <1>9 DEF TaskReads
  <2>2. Yields(r, up[c], task[c].filled)
    BY <1>1, PollYields
  <2>3. /\ task[c].at = "reading" /\ task[c].out = <<>> /\ task[c].parts = <<>> /\ Early(c)
    BY <1>1, <1>9 DEF TaskReads, Works, Early
  <2>4. CASE r.is = "more"
    <3>1. task'[c].out = task[c].out /\ UNCHANGED down
      BY <1>1, <2>1, <2>4 DEF TaskType
    <3> QED
      BY <1>7, <2>3, <3>1
  <2>5. CASE r.is = "frame"
    <3>1. r.body = call[c].asked
      BY <1>1, <2>2, <2>5 DEF Yields, Asks
    <3>2. r.body # Unknown /\ r.body.type \in Methods /\ r.body.type # "GetVersion"
      BY <1>5, <3>1 DEF Unknown, Methods, Many
    <3>3. PICK h : h = Handle(task[c], r.body)
      OBVIOUS
    <3>4. h.out = <<>>
      BY <1>1, <2>3, <3>1, <3>2, <3>3, HandleTyped DEF Typed
    <3>5. task'[c] = h /\ UNCHANGED down
      BY <1>1, <2>1, <2>5, <3>2, <3>3
    <3> QED
      BY <1>7, <2>3, <3>4, <3>5
  <2>6. CASE r.is \notin {"more", "frame"}
    BY <1>6, <2>1, <2>3, <2>6
  <2> QED
    BY <2>4, <2>5, <2>6
<1>10. CASE Ask(c)
  <2>1. task'[c].out = task[c].out /\ UNCHANGED down /\ Early(c)
    BY <1>1, <1>10 DEF Ask, TaskType, Early
  <2> QED
    BY <1>7, <2>1
<1>11. CASE Gone(c)
  <2>1. PICK t : t = Tell(task[c], "Internal")
    OBVIOUS
  <2>2. t.out = <<Failure("Internal")>> /\ t.at = "telling"
    BY <1>1, <2>1, TellTyped DEF Typed
  <2>3. task'[c] = t /\ UNCHANGED down /\ Early(c)
    BY <1>1, <1>11, <2>1 DEF Gone, Early
  <2>4. task'[c].out = <<Failure("Internal")>> /\ ~Early(c)'
    BY <2>2, <2>3 DEF Early
  <2> QED
    BY <1>4, <2>3, <2>4, FailsStreams
<1>12. CASE TaskSent(c)
  <2>1. subs[c].live => call[c].asked.type = "Watch"
    BY <1>1 DEF Works
  <2> QED
    BY <1>5, <1>6, <1>12, <2>1 DEF TaskSent
<1>13. CASE Notify(c)
  BY <1>1, <1>5, <1>13 DEF Notify, Works
<1>14. CASE HungUp(c)
  BY <1>6, <1>14 DEF HungUp
<1> QED
  BY <1>3, <1>8, <1>9, <1>10, <1>11, <1>12, <1>13, <1>14 DEF Task

\* The mainloop answers a GetEnvelopes call: what it picked is what the
\* handler has to send.
LEMMA AnswerOut ==
  ASSUME NEW B, NEW E, CallInv(B, E), NEW c \in Conns, task[c].at = "waiting",
         call[c].asked.type = "GetEnvelopes", NEW a, a.is # "Failed", Reply(c, a)
  PROVE  task'[c].out = a.frames /\ task'[c].at = "sending"
<1>1. Works(c) /\ task \in [Conns -> TaskType(B)] /\ task[c] \in TaskType(B)
  BY ConnFacts
<1>2. task[c].req = {call[c].asked} /\ task[c].parts = <<>> /\ Len(task[c].trips) = 0
  BY <1>1 DEF Works
<1>3. task[c].trips = <<>>
  <2>1. task[c].trips \in Seq(TripNames)
    BY <1>1 DEF TaskType
  <2> QED
    BY <1>2, <2>1, EmptySeq
<1>4. PICK parts : parts = Append(task[c].parts, a)
  OBVIOUS
<1>5. parts[1] = a
  <2>1. Append(<<>>, a)[1] = a
    OBVIOUS
  <2> QED
    BY <1>2, <1>4, <2>1
<1>6. task'[c] = Respond(task[c], parts)
  BY <1>1, <1>3, <1>4 DEF Reply, Takes
<1>7. (CHOOSE x \in task[c].req : TRUE) = call[c].asked
  BY <1>2
<1>8. PICK out : out = parts[1].frames
  OBVIOUS
<1>9. Respond(task[c], parts) =
        [task[c] EXCEPT !.at = "sending", !.trips = <<>>, !.parts = <<>>, !.out = out]
  BY <1>7, <1>8 DEF Respond
<1> QED
  BY <1>1, <1>5, <1>6, <1>8, <1>9 DEF TaskType

LEMMA TurnStreams ==
  ASSUME NEW B, NEW E, CallInv(B, E), NEW c \in Conns, Streams(c), Turn, c = Head(queue).conn
  PROVE  Streams(c)'
<1>1. PICK m : m = queue[1]
  OBVIOUS
<1>2. /\ queue # <<>> /\ daemon = "up" /\ queue' = Tail(queue)
      /\ UNCHANGED <<call, up, down, daemon>>
  BY DEF Turn, TurnReads, TurnWrites, TurnCompacts, TurnFails
<1>3. /\ Head(queue) = m /\ c = m.conn /\ m.req = call[c].asked /\ m.trip \in ToSet(Trips(m.req))
      /\ m.req \in Asked /\ m.req.type \in Methods \ {"GetVersion"}
  BY <1>1, <1>2, HeadMsg
<1>4. SUFFICES ASSUME call[c].asked.type = "GetEnvelopes" PROVE Streams(c)'
  BY <1>2 DEF Streams
<1>5. m.trip = "GetEnvelopes"
  BY <1>3, <1>4, TripsOf
<1>6. /\ Works(c) /\ Waits(c) /\ Asks(c) /\ Answers(c) /\ task \in [Conns -> TaskType(B)]
      /\ seen \in [Conns -> SeenType(B)] /\ task[c] \in TaskType(B) /\ Typed(B, E)
  BY ConnFacts
<1>7. Queued(c)
  BY <1>2, TakesStep
<1>8. /\ task[c].at = "waiting" \/ (task[c].at = "ended" /\ call[c].at # "open")
      /\ down[c].frames = <<>> /\ call[c].got = <<>> /\ task[c].out = <<>>
      /\ call[c].end # "Failed" /\ call[c].end # "none"
  <2>1. /\ task[c].at = "waiting" \/ (task[c].at = "ended" /\ call[c].end = "Dropped")
        /\ down[c].frames = <<>> /\ call[c].got = <<>> /\ task[c].out = <<>>
    BY <1>6, <1>7 DEF Waits
  <2> QED
    BY <1>6, <2>1 DEF Works, Asks
<1>9. ASSUME NEW a, Reply(c, a), task[c].at # "waiting" PROVE task'[c] = task[c]
  BY <1>6, <1>9 DEF Reply, Takes
<1>10. CASE TurnReads
  <2>1. PICK a : a = Reads(m)
    OBVIOUS
  <2>2. /\ Reply(c, a)
        /\ seen' = [seen EXCEPT
             ![c].beside = IF m.trip = "Read" THEN {x \in Conns : subs[x].live} ELSE @,
             ![c].picked = IF m.trip = "GetEnvelopes" THEN a.frames ELSE @,
             ![c].head = NewestOf(core).digest]
    BY <1>3, <1>10, <2>1 DEF TurnReads
  <2>3. seen'[c].picked = a.frames /\ seen'[c].unsent = seen[c].unsent
    <3>1. seen[c] \in SeenType(B)
      BY <1>6
    <3> QED
      BY <1>5, <1>6, <2>2, <3>1 DEF SeenType
  <2>4. /\ a.is = "Frames" /\ a.frames \in Seq(ToSet(a.frames))
        /\ \A b \in ToSet(a.frames) : b.is = "Envelope"
    <3>1. core \in CoreType(E)
      BY <1>6 DEF Typed
    <3>2. Variant(m.req) = "Envelope"
      BY <1>3, <1>4, VariantOf
    <3> QED
      BY <1>3, <1>4, <1>5, <2>1, <3>1, <3>2, FramesOf DEF Many
  <2>5. PICK P : P = a.frames
    OBVIOUS
  <2>6. /\ P \in Seq(ToSet(P)) /\ Len(P) \in Nat /\ DOMAIN P = 1 .. Len(P)
        /\ \A i \in DOMAIN P : P[i].is = "Envelope"
    BY <2>4, <2>5 DEF ToSet
  <2>7. CASE task[c].at = "waiting"
    <3>1. task'[c].out = P /\ task'[c].at = "sending"
      BY <1>4, <2>2, <2>4, <2>5, <2>7, AnswerOut
    <3>2. /\ call'[c].got = <<>> /\ down'[c].frames = <<>> /\ seen'[c].picked = P
          /\ call'[c].end = call[c].end
      BY <1>2, <1>8, <2>3, <2>5
    <3>3. Len(<<>>) + Len(<<>>) + Len(P) = Len(P) /\ Len(P) <= Len(P) /\ Len(<<>>) <= Len(P)
          /\ \A i \in DOMAIN P : Len(<<>>) + Len(<<>>) + i = i
      BY <2>6, EmptyFacts
    <3>4. InLine(P, <<>>, <<>>, P)
      BY <3>3, EmptyFacts DEF InLine
    <3>5. Line(c)' = Len(P)
      BY <3>1, <3>2, <3>3 DEF Line
    <3>6. Streamed(c)'
      BY <1>8, <3>1, <3>2, <3>3, <3>4, <3>5, EmptyFacts DEF Streamed
    <3> QED
      BY <2>6, <3>1, <3>2, <3>6 DEF Streams, Early
  <2>8. CASE task[c].at # "waiting"
    <3>1. task'[c] = task[c]
      BY <1>9, <2>2, <2>8
    <3>2. /\ call'[c] = call[c] /\ call[c].got = <<>> /\ seen'[c].picked = P
          /\ call[c].at # "open" /\ ~Early(c)'
      BY <1>2, <1>8, <2>3, <2>5, <2>8, <3>1 DEF Early
    <3>3. Len(<<>>) <= Len(P)
      BY <2>6, EmptyFacts
    <3>4. Streamed(c)'
      BY <1>8, <3>2, <3>3, EmptyFacts DEF Streamed
    <3> QED
      BY <2>6, <3>2, <3>4 DEF Streams
  <2> QED
    BY <2>7, <2>8
<1>11. CASE TurnFails
  <2>1. PICK a : a = Failure("Internal")
    OBVIOUS
  <2>2. Reply(c, a) /\ UNCHANGED seen
    <3>1. Kinds(m) = {"Internal"}
      BY <1>5 DEF Kinds
    <3>2. \E kind \in Kinds(m) : Reply(c, Failure(kind))
      BY <1>3, <1>11 DEF TurnFails
    <3>3. UNCHANGED seen
      BY <1>3, <1>4, <1>11 DEF TurnFails, Writes
    <3> QED
      BY <2>1, <3>1, <3>2, <3>3
  <2>3. CASE task[c].at = "waiting"
    <3>1. PICK t : t = Tell(task[c], "Internal")
      OBVIOUS
    <3>2. a.is = "Failed" /\ a.kind = "Internal"
      BY <2>1 DEF Failure
    <3>3. task'[c] = t
      BY <1>6, <2>2, <2>3, <3>1, <3>2 DEF Reply, Takes
    <3>4. t.out = <<Failure("Internal")>> /\ t.at = "telling"
      BY <1>6, <3>1, TellTyped DEF Typed
    <3>5. task'[c].out = <<Failure("Internal")>> /\ ~Early(c)' /\ Early(c)
      BY <2>3, <3>3, <3>4 DEF Early
    <3> QED
      BY <1>2, <2>2, <3>5, FailsStreams
  <2>4. CASE task[c].at # "waiting"
    <3>1. task'[c] = task[c]
      BY <1>9, <2>2, <2>4
    <3>2. Steady(c)
      BY <1>2, <2>2, <3>1 DEF Steady, Early
    <3> QED
      BY <3>2, SteadyStreams
  <2> QED
    BY <2>3, <2>4
<1>12. ~TurnWrites /\ ~TurnCompacts
  BY <1>3, <1>4 DEF TurnWrites, TurnCompacts, Writes
<1> QED
  BY <1>10, <1>11, <1>12 DEF Turn

\* The mainloop returns, or a peer's envelope moves it: no stream is touched.
LEMMA ShutdownStreams ==
  ASSUME NEW B, NEW E, CallInv(B, E), NEW c \in Conns, Streams(c), Shutdown
  PROVE  Streams(c)'
<1>1. /\ daemon = "up" /\ daemon' = "down" /\ UNCHANGED <<call, task, seen>>
      /\ down' = [x \in Conns |-> IF task[x].at = "none" THEN Shut(down[x]) ELSE down[x]]
  BY DEF Shutdown
<1>2. down[c] \in PipeType(B)
  BY ConnFacts
<1>3. PICK p : p = Shut(down[c])
  OBVIOUS
<1>4. p.frames = down[c].frames
  BY <1>2, <1>3, ShutPipe
<1>5. down'[c].frames = down[c].frames
  BY <1>1, <1>3, <1>4
<1>6. Steady(c)
  BY <1>1, <1>5 DEF Steady, Early
<1> QED
  BY <1>6, SteadyStreams

LEMMA PeerElsewhere ==
  ASSUME NEW B, NEW E, CallInv(B, E), PeerInserts, NEW x \in Conns
  PROVE  Still(x) /\ UNCHANGED <<call, up, down, task, queue, daemon, seen>>
<1>1. /\ UNCHANGED <<call, up, down, task, queue, daemon, seen>>
      /\ subs' = Published(core') \/ subs' = subs
  BY DEF PeerInserts, Announces
<1>2. subs \in [Conns -> SubType(B)]
  BY DEF CallInv, Typed
<1>3. PICK P, new : P = UNION {ToSet(subs'[y].pending) : y \in Conns} /\ new = core'
  OBVIOUS
<1>4. /\ subs'[x].live = subs[x].live
      /\ \/ subs'[x].pending = subs[x].pending
         \/ subs[x].live /\ \A b \in ToSet(subs'[x].pending) : b.is = "Watch"
  BY <1>1, <1>2, <1>3, PublishedStep
<1> QED
  BY <1>1, <1>4 DEF Still, Queued

\* The process dies: at most part of one more frame of the line is out.
LEMMA ExitStreams ==
  ASSUME NEW B, NEW E, CallInv(B, E), NEW c \in Conns, Streams(c), Exit
  PROVE  Streams(c)'
<1>1. /\ UNCHANGED <<call, seen>> /\ daemon' = "exited" /\ task'[c] = [NoTask EXCEPT !.at = "ended"]
  BY DEF Exit
<1>2. Dies(B, c, down'[c])
  BY ExitDies
<1>3. task'[c].out = <<>> /\ ~Early(c)' /\ Cut(c)'
  BY <1>1 DEF NoTask, Early, Cut
<1>4. PICK G, F, O, P, T, D : /\ G = call[c].got /\ F = down[c].frames /\ O = task[c].out
                              /\ P = seen[c].picked /\ T = FrameType(B) /\ D = down'[c].frames
  OBVIOUS
<1>5. G \in Seq(B) /\ F \in Seq(T) /\ O \in Seq(B) /\ P \in Seq(B)
  BY <1>4, LineTyped
<1>6. \/ D = F
      \/ \E f \in T : O # <<>> /\ f.body = O[1] /\ D = Append(F, f)
  BY <1>2, <1>4 DEF Dies
<1>7. call'[c].got = G /\ seen'[c].picked = P /\ call'[c] = call[c]
  BY <1>1, <1>4
<1>8. InLine(P, G, F, O) => InLine(P, G, D, <<>>)
  <2>1. CASE D = F
    BY ONLY <1>5, <2>1, LineStops
  <2>2. CASE D # F
    <3>1. PICK f \in T : O # <<>> /\ f.body = O[1] /\ D = Append(F, f)
      BY <1>6, <2>2
    <3> QED
      BY ONLY <1>5, <3>1, LineWrites
  <2> QED
    BY <2>1, <2>2
<1>9. Len(G) + Len(D) + Len(<<>>) <= Len(G) + Len(F) + Len(O)
  <2>1. PICK g, n, m : g = Len(G) /\ n = Len(F) /\ m = Len(O)
    OBVIOUS
  <2>2. g \in Nat /\ n \in Nat /\ m \in Nat /\ Len(<<>>) = 0
    BY <1>5, <2>1, EmptyFacts
  <2>3. CASE D = F
    BY ONLY <2>1, <2>2, <2>3
  <2>4. CASE D # F
    <3>1. PICK f \in T : O # <<>> /\ f.body = O[1] /\ D = Append(F, f)
      BY <1>6, <2>4
    <3>2. Len(D) = n + 1 /\ m # 0
      BY <1>5, <2>1, <3>1
    <3> QED
      BY ONLY <2>1, <2>2, <3>2
  <2> QED
    BY <2>3, <2>4
<1>10. Streamed(c) => Streamed(c)'
  <2>1. call[c].at = "open" /\ Streamed(c) => InLine(P, G, D, <<>>)
    BY <1>4, <1>8 DEF Streamed
  <2> QED
    BY <1>3, <1>4, <1>7, <2>1 DEF Streamed
<1>11. Refused(c) => Refused(c)'
  <2>1. Line(c)' = Len(G) + Len(D) + Len(<<>>) /\ Line(c) = Len(G) + Len(F) + Len(O)
    BY <1>3, <1>4, <1>7 DEF Line
  <2>2. Line(c) <= 1 => Line(c)' <= 1
    <3>1. PICK a, b : a = Len(G) + Len(D) + Len(<<>>) /\ b = Len(G) + Len(F) + Len(O)
      OBVIOUS
    <3>2. D \in Seq(T)
      BY <1>2, <1>4 DEF Dies, PipeType
    <3>3. a \in Int /\ b \in Int /\ a <= b
      BY <1>5, <1>9, <3>1, <3>2
    <3> QED
      BY ONLY <2>1, <3>1, <3>3
  <2>3. Sent(c)' \subseteq Sent(c)
    BY <1>2, <1>3, <1>4, <1>7, ToSetEmpty DEF Sent, Dies
  <2> QED
    BY <1>7, <2>2, <2>3, <1>4 DEF Refused
<1> QED
  BY <1>3, <1>4, <1>7, <1>10, <1>11 DEF Streams

LEMMA StreamsInit ==
  ASSUME Init, NEW c \in Conns
  PROVE  Streams(c)
<1>1. /\ call[c].got = <<>> /\ call[c].end = "" /\ call[c].at = "idle" /\ seen[c].picked = <<>>
  <2>1. PICK asked \in Scripts :
          call = [x \in Conns |-> [at |-> "idle", asked |-> asked[x], filled |-> 0,
                                   got |-> <<>>, end |-> ""]]
    BY DEF Init
  <2>2. seen[c].picked = <<>>
    BY DEF Init
  <2> QED
    BY ONLY <2>1, <2>2
<1>2. Len(<<>>) <= Len(<<>>)
  OBVIOUS
<1>3. Streamed(c)
  BY <1>1, <1>2, EmptyFacts DEF Streamed
<1> QED
  BY <1>1, <1>3, EmptyFacts DEF Streams

LEMMA StreamsNext ==
  ASSUME NEW B, NEW E, CallInv(B, E), [Next]_vars, NEW x \in Conns, Streams(x)
  PROVE  Streams(x)'
<1>1. CASE UNCHANGED vars
  <2>1. Steady(x)
    BY <1>1 DEF vars, Steady, Early
  <2> QED
    BY <2>1, SteadyStreams
<1>2. ASSUME NEW c \in Conns, Client(c) PROVE Streams(x)'
  <2>1. CASE x = c
    BY <1>2, <2>1, BeginsStreams, PollsStreams DEF Client
  <2>2. CASE x # c
    BY <1>2, <2>2, ClientElsewhere, StillStreams
  <2> QED
    BY <2>1, <2>2
<1>3. ASSUME NEW c \in Conns, Task(c) PROVE Streams(x)'
  <2>1. CASE x = c
    BY <1>3, <2>1, TaskStreams
  <2>2. CASE x # c
    BY <1>3, <2>2, TaskElsewhere, StillStreams
  <2> QED
    BY <2>1, <2>2
<1>4. CASE Turn
  <2>1. CASE x = Head(queue).conn
    BY <1>4, <2>1, TurnStreams
  <2>2. CASE x # Head(queue).conn
    BY <1>4, <2>2, TurnElsewhere, StillStreams
  <2> QED
    BY <2>1, <2>2
<1>5. CASE PeerInserts
  BY <1>5, PeerElsewhere, StillStreams
<1>6. CASE Shutdown
  BY <1>6, ShutdownStreams
<1>7. CASE Exit
  BY <1>7, ExitStreams
<1> QED
  BY <1>1, <1>2, <1>3, <1>4, <1>5, <1>6, <1>7 DEF Next

-----------------------------------------------------------------------------
(* The log, and a chain walk's run.                                        *)

\* Envelopes are only added to the log, under digests of their own, and taken
\* off it.
Advances ==
  /\ daemon' = "up" => daemon = "up" /\ core.minted <= core'.minted
  /\ \A e \in Entries' : e \in Entries \/ (daemon = "up" /\ core.minted < e.digest)

LEMMA EntriesTyped ==
  ASSUME NEW B, NEW E, CallInv(B, E)
  PROVE  /\ core \in CoreType(E) /\ core.chain \in Seq(E) /\ core.orphans \in Seq(E)
         /\ core.minted \in Nat /\ \A e \in Entries : e.digest \in Nat
         /\ \A i \in DOMAIN core.chain : core.chain[i] \in Entries
<1>1. core \in CoreType(E) /\ \A e \in E : e.digest \in Nat
  BY DEF CallInv, Typed
<1>2. core.chain \in Seq(E) /\ core.orphans \in Seq(E) /\ core.minted \in Nat
  BY <1>1 DEF CoreType
<1>3. Entries \subseteq E
  BY <1>2 DEF Entries, ToSet
<1> QED
  BY <1>1, <1>2, <1>3 DEF Entries, ToSet

LEMMA MovedLog ==
  ASSUME NEW B, NEW E, CallInv(B, E), LogOk, daemon = "up", daemon' = daemon,
         NEW back, NEW m, NEW n, NEW e, Moves(E, core, back, m, n, e, core')
  PROVE  LogOk' /\ Advances
<1>1. /\ core.chain \in Seq(E) /\ core.orphans \in Seq(E)
      /\ core.minted \in Nat /\ \A x \in Entries : x.digest \in Nat
      /\ \A i \in DOMAIN core.chain : core.chain[i] \in Entries
  BY EntriesTyped
<1>2. PICK k, new, g : k = core /\ new = core' /\ g = core.minted
  OBVIOUS
<1>3. MovedTo(E, k, m, n, e, new)
  BY <1>2, MovedCore
<1>4. PICK L : L = Len(k.chain)
  OBVIOUS
<1>5. /\ n \in Nat \ {0} /\ n <= L /\ L \in Nat /\ DOMAIN k.chain = 1 .. L
  BY <1>1, <1>2, <1>3, <1>4 DEF MovedTo, Moves
<1>6. /\ new.minted = g + 1 /\ e.digest = g + 1 /\ e.prev = k.chain[n].digest
      /\ Len(new.chain) = n + 1 /\ new.chain[n + 1] = e /\ DOMAIN new.chain = 1 .. n + 1
      /\ \A i \in 1 .. n : new.chain[i] = k.chain[i]
      /\ ToSet(new.orphans) = ToSet(k.orphans) \cup {k.chain[i] : i \in n + 1 .. L}
  <2>1. new.chain \in Seq(E \cup {e})
    BY <1>3 DEF MovedTo, CoreType
  <2> QED
    BY <1>2, <1>3, <1>4, <2>1 DEF MovedTo
<1>7. \A i \in 1 .. L : k.chain[i] \in Entries
  BY <1>1, <1>2, <1>5
<1>8. Entries' \subseteq Entries \cup {e}
  <2>1. ToSet(new.chain) \subseteq Entries \cup {e}
    <3>1. \A i \in 1 .. n + 1 : i = n + 1 \/ (i \in 1 .. n /\ i \in 1 .. L)
      BY <1>5
    <3> QED
      BY <1>6, <1>7, <3>1 DEF ToSet
  <2>2. ToSet(new.orphans) \subseteq Entries
    <3>1. \A i \in n + 1 .. L : i \in 1 .. L
      BY <1>5
    <3>2. ToSet(k.orphans) \subseteq Entries
      BY <1>2 DEF Entries
    <3> QED
      BY <1>6, <1>7, <3>1, <3>2
  <2> QED
    BY <1>2, <2>1, <2>2 DEF Entries
<1>9. \A x \in Entries : x.digest \in Nat /\ x.digest <= g
  BY <1>1, <1>2 DEF LogOk
<1>10. g \in Nat
  BY <1>1, <1>2
<1>11. \A x \in Entries' : x.digest <= new.minted
  BY <1>6, <1>8, <1>9, <1>10
<1>12. \A x, y \in Entries' : x.digest = y.digest => x.prev = y.prev
  <2>1. \A x \in Entries : x.digest # e.digest
    BY <1>6, <1>9, <1>10
  <2>2. \A x, y \in Entries : x.digest = y.digest => x.prev = y.prev
    BY DEF LogOk
  <2> QED
    BY <1>8, <2>1, <2>2
<1>13. \A i \in 2 .. n + 1 : new.chain[i].prev = new.chain[i - 1].digest
  <2> SUFFICES ASSUME NEW i \in 2 .. n + 1 PROVE new.chain[i].prev = new.chain[i - 1].digest
    OBVIOUS
  <2>1. CASE i = n + 1
    <3>1. i - 1 = n /\ n \in 1 .. n
      BY <1>5, <2>1
    <3> QED
      BY <1>6, <2>1, <3>1
  <2>2. CASE i # n + 1
    <3>1. i \in 1 .. n /\ i - 1 \in 1 .. n /\ i \in 2 .. L
      BY <1>5, <2>2
    <3>2. k.chain[i].prev = k.chain[i - 1].digest
      BY <1>2, <1>4, <3>1 DEF LogOk
    <3> QED
      BY <1>6, <3>1, <3>2
  <2> QED
    BY <2>1, <2>2
<1>14. LogOk'
  BY <1>2, <1>6, <1>11, <1>12, <1>13 DEF LogOk
<1>15. Advances
  BY <1>2, <1>6, <1>8, <1>9, <1>10 DEF Advances
<1> QED
  BY <1>14, <1>15

LEMMA PrunedLog ==
  ASSUME NEW B, NEW E, CallInv(B, E), LogOk, daemon = "up", daemon' = daemon,
         core' = Pruned(core)
  PROVE  LogOk' /\ Advances
<1>1. /\ core \in CoreType(E) /\ core.chain \in Seq(E)
      /\ core.minted \in Nat /\ \A i \in DOMAIN core.chain : core.chain[i] \in Entries
  BY EntriesTyped
<1>2. core.chain # <<>>
  BY DEF CallInv, Typed
<1>3. PICK k, new, L : k = core /\ new = core' /\ L = Len(core.chain)
  OBVIOUS
<1>4. k \in CoreType(E) /\ k.chain # <<>> /\ new = Pruned(k)
  BY <1>1, <1>2, <1>3
<1>5. /\ new \in CoreType(E) /\ new.minted = k.minted
      /\ ToSet(new.orphans) \subseteq ToSet(k.orphans)
      /\ \E s \in 0 .. Len(k.chain) - 1 : Drops(k.chain, new.chain, s)
  BY <1>4, PrunedCore
<1>6. PICK s \in 0 .. L - 1 : /\ Len(new.chain) = L - s
                              /\ \A i \in 1 .. L - s : new.chain[i] = k.chain[s + i]
  BY <1>3, <1>5 DEF Drops
<1>7. L \in Nat /\ DOMAIN k.chain = 1 .. L /\ DOMAIN new.chain = 1 .. L - s
  BY <1>1, <1>3, <1>5, <1>6 DEF CoreType
<1>8. Entries' \subseteq Entries
  <2>1. \A i \in 1 .. L - s : s + i \in 1 .. L
    BY <1>6, <1>7
  <2>2. \A i \in 1 .. L - s : new.chain[i] \in Entries
    BY <1>1, <1>3, <1>6, <1>7, <2>1
  <2>3. ToSet(new.chain) \subseteq Entries
    BY <1>7, <2>2 DEF ToSet
  <2> QED
    BY <1>3, <1>5, <2>3 DEF Entries
<1>9. \A i \in 2 .. L - s : new.chain[i].prev = new.chain[i - 1].digest
  <2> SUFFICES ASSUME NEW i \in 2 .. L - s PROVE new.chain[i].prev = new.chain[i - 1].digest
    OBVIOUS
  <2>1. i \in 1 .. L - s /\ i - 1 \in 1 .. L - s /\ s + i \in 2 .. L /\ s + (i - 1) = (s + i) - 1
    BY <1>6, <1>7
  <2>2. k.chain[s + i].prev = k.chain[(s + i) - 1].digest
    BY <1>3, <2>1 DEF LogOk
  <2> QED
    BY <1>6, <2>1, <2>2
<1>10. LogOk'
  BY <1>3, <1>5, <1>6, <1>8, <1>9 DEF LogOk
<1> QED
  BY <1>1, <1>3, <1>5, <1>8, <1>10 DEF Advances

LEMMA LogNext ==
  ASSUME NEW B, NEW E, CallInv(B, E), LogOk, [Next]_vars
  PROVE  LogOk' /\ Advances
<1>0. core.minted \in Nat /\ core \in CoreType(E)
  BY EntriesTyped
<1>1. CASE core' = core /\ (daemon' = "up" => daemon = "up")
  BY <1>0, <1>1 DEF LogOk, Advances, Entries
<1>2. CASE core' = NoCore /\ daemon' # "up"
  <2>1. core'.chain = <<>> /\ core'.orphans = <<>>
    BY <1>2 DEF NoCore
  <2>2. Entries' = {}
    BY <2>1, ToSetEmpty DEF Entries
  <2> QED
    BY <1>2, <2>2 DEF LogOk, Advances
<1>3. CASE daemon = "up" /\ daemon' = daemon /\ core' = Pruned(core)
  BY <1>3, PrunedLog
<1>4. ASSUME daemon = "up", daemon' = daemon, NEW back \in Nat, back < Len(core.chain), NEW m,
             core' = Moved(core, back, m)
      PROVE  LogOk' /\ Advances
  <2>1. PICK n, e : n = Len(core.chain) - back /\ e = Minted(core, core.chain[n], m)
    OBVIOUS
  <2>2. Moves(E, core, back, m, n, e, core')
    BY <1>0, <1>4, <2>1 DEF Moves
  <2> QED
    BY <1>4, <2>2, MovedLog
<1>5. ASSUME NEW c \in Conns, Client(c) \/ Task(c)
      PROVE  core' = core /\ daemon' = daemon
  BY <1>5 DEF Client, Connect, ConnectCut, ConnectFails, ClientPolls, HangUp, Task, Accept,
     TaskReads, Ask, Gone, TaskWrites, TaskSent, Notify, HungUp
<1>6. CASE Turn
  <2>1. daemon = "up" /\ daemon' = daemon
    BY <1>6 DEF Turn, TurnReads, TurnWrites, TurnCompacts, TurnFails
  <2>2. \/ core' = core \/ core' = Pruned(core) \/ \E m : core' = Moved(core, 0, m)
    BY <1>6 DEF Turn, TurnReads, TurnWrites, TurnCompacts, TurnFails
  <2>3. 0 \in Nat /\ 0 < Len(core.chain)
    <3>1. core.chain # <<>> /\ core.chain \in Seq(E)
      BY <1>0, <2>1 DEF CallInv, Typed, CoreType
    <3> QED
      BY <3>1
  <2> QED
    BY <1>1, <1>3, <1>4, <2>1, <2>2, <2>3
<1>7. CASE PeerInserts
  <2>1. PICK f \in Foreign : f.back < Len(core.chain) /\ core' = Moved(core, f.back, f.msg)
    BY <1>7 DEF PeerInserts
  <2>2. daemon = "up" /\ daemon' = daemon /\ f.back \in Nat
    BY <1>7, ForeignAssumption DEF PeerInserts
  <2> QED
    BY <1>4, <2>1, <2>2
<1>8. CASE Shutdown
  BY <1>2, <1>8 DEF Shutdown
<1>9. CASE Exit
  BY <1>2, <1>9 DEF Exit
<1>10. CASE UNCHANGED vars
  BY <1>1, <1>10 DEF vars
<1> QED
  BY <1>1, <1>5, <1>6, <1>7, <1>8, <1>9, <1>10 DEF Next

\* A program asks one thing.
LEMMA AskedStands ==
  ASSUME NEW B, NEW E, CallInv(B, E), [Next]_vars, NEW x \in Conns
  PROVE  call'[x].asked = call[x].asked
<1>1. call \in [Conns -> CallType(B)]
  BY DEF CallInv, Typed
<1>2. ASSUME NEW c \in Conns, Client(c) PROVE call'[x].asked = call[x].asked
  <2>1. ASSUME NEW at, NEW end, Asking(c, at, end) PROVE call'[x].asked = call[x].asked
    BY <1>1, <2>1 DEF Asking, CallType
  <2>2. ASSUME NEW end, NEW got, Ends(c, end, got) PROVE call'[x].asked = call[x].asked
    BY <1>1, <2>2 DEF Ends, CallType
  <2>3. ASSUME NEW filled, call' = [call EXCEPT ![c].filled = filled]
        PROVE  call'[x].asked = call[x].asked
    BY <1>1, <2>3 DEF CallType
  <2>4. ASSUME NEW got, call' = [call EXCEPT ![c].got = got, ![c].filled = 0]
        PROVE  call'[x].asked = call[x].asked
    BY <1>1, <2>4 DEF CallType
  <2>5. CASE Connect(c) \/ ConnectCut(c) \/ ConnectFails(c)
    <3>1. \E at, end : Asking(c, at, end)
      BY <2>5 DEF Connect, ConnectCut, ConnectFails
    <3> QED
      BY <2>1, <3>1
  <2>6. CASE HangUp(c)
    BY <2>2, <2>6 DEF HangUp
  <2>7. CASE ClientPolls(c)
    <3>1. ASSUME NEW b, Response(c, b) PROVE call'[x].asked = call[x].asked
      BY <2>2, <2>4, <3>1 DEF Response
    <3> QED
      BY <2>2, <2>3, <2>7, <3>1 DEF ClientPolls
  <2> QED
    BY <1>2, <2>5, <2>6, <2>7 DEF Client
<1>3. ASSUME NEW c \in Conns, Task(c) PROVE call' = call
  BY <1>3 DEF Task, Accept, TaskReads, Ask, Gone, TaskWrites, TaskSent, Notify, HungUp
<1>4. CASE Turn
  BY <1>4 DEF Turn, TurnReads, TurnWrites, TurnCompacts, TurnFails
<1>5. CASE PeerInserts \/ Shutdown \/ Exit \/ UNCHANGED vars
  BY <1>5 DEF PeerInserts, Shutdown, Exit, vars
<1> QED
  BY <1>2, <1>3, <1>4, <1>5 DEF Next

\* What was picked stays, but for the turn that picks it.
LEMMA PickedStands ==
  ASSUME NEW B, NEW E, CallInv(B, E), [Next]_vars, NEW x \in Conns,
         call[x].asked.type = "GetEnvelopes", ~ (TurnReads /\ Head(queue).conn = x)
  PROVE  seen'[x].picked = seen[x].picked /\ seen'[x].head = seen[x].head
<1>1. seen \in [Conns -> SeenType(B)]
  BY DEF CallInv, Typed
<1>2. ASSUME NEW c \in Conns, Client(c) PROVE seen' = seen
  BY <1>2 DEF Client, Connect, ConnectCut, ConnectFails, ClientPolls, HangUp
<1>3. ASSUME NEW c \in Conns, Task(c), ~TaskWrites(c) PROVE seen' = seen
  BY <1>3 DEF Task, Accept, TaskReads, Ask, Gone, TaskSent, Notify, HungUp
<1>4. ASSUME NEW c \in Conns, TaskWrites(c)
      PROVE  seen'[x].picked = seen[x].picked /\ seen'[x].head = seen[x].head
  BY <1>1, <1>4 DEF TaskWrites, SeenType
<1>5. CASE Turn
  <2>1. CASE Head(queue).conn # x
    <3>1. Still(x)
      BY <1>5, <2>1, TurnElsewhere
    <3> QED
      BY <3>1 DEF Still
  <2>2. CASE Head(queue).conn = x
    <3>1. queue # <<>> /\ daemon = "up"
      BY <1>5 DEF Turn, TurnReads, TurnWrites, TurnCompacts, TurnFails
    <3>2. Head(queue).req.type \notin Writes
      BY <2>2, <3>1, HeadMsg DEF Writes
    <3> QED
      BY <1>5, <2>2, <3>2 DEF Turn, TurnReads, TurnWrites, TurnCompacts, TurnFails
  <2> QED
    BY <2>1, <2>2
<1>6. CASE PeerInserts \/ Shutdown \/ Exit \/ UNCHANGED vars
  BY <1>6 DEF PeerInserts, Shutdown, Exit, vars
<1> QED
  BY <1>2, <1>3, <1>4, <1>5, <1>6 DEF Next

\* The walk from the head down.
LEMMA WalkRun ==
  ASSUME NEW B, NEW E, CallInv(B, E), LogOk, daemon = "up", NEW q \in Asked, NEW run,
         q.type = "GetEnvelopes", "digests" \notin DOMAIN q, run # <<>>,
         run = [i \in DOMAIN ReadEnvelopes(core, q) |-> EnvelopeFrame(ReadEnvelopes(core, q)[i])]
  PROVE  /\ \A l \in q.limit : Len(run) <= l
         /\ Last(run).digest = NewestOf(core).digest
         /\ \A i \in DOMAIN run : run[i].digest \in Nat /\ run[i].digest <= core.minted
         /\ \A i \in 2 .. Len(run) : \A e \in Entries :
              e.digest = run[i].digest => e.prev = run[i - 1].digest
<1>1. /\ core.chain \in Seq(E) /\ core.minted \in Nat /\ \A e \in Entries : e.digest \in Nat
      /\ \A i \in DOMAIN core.chain : core.chain[i] \in Entries
  BY EntriesTyped
<1>2. q.limit \in SUBSET Nat
  BY ScriptAssumption
<1>3. PICK R : R = ReadEnvelopes(core, q)
  OBVIOUS
<1>4. R = CanonicalChain(core, q.limit, q.since)
  BY <1>3 DEF ReadEnvelopes
<1>5. PICK n, ch : n = Len(core.chain) /\ ch = core.chain
  OBVIOUS
<1>6. n \in Nat /\ DOMAIN ch = 1 .. n
  BY <1>1, <1>5
<1>7. PICK s \in 0 .. n : R = SubSeq(ch, 1 + s, n) /\ \A l \in q.limit : n - s <= l
  <2>1. \E s \in 0 .. Len(core.chain) :
           /\ CanonicalChain(core, q.limit, q.since) = SubSeq(core.chain, 1 + s, Len(core.chain))
           /\ \A l \in q.limit : Len(core.chain) - s <= l
    BY <1>1, <1>2, CanonicalRun
  <2> QED
    BY <1>4, <1>5, <2>1
<1>8. R \in Seq(E) /\ Len(R) = n - s /\ \A i \in 1 .. n - s : R[i] = ch[s + i]
  <2>1. s + 1 \in Int /\ n \in Int /\ \A i \in s + 1 .. n : ch[i] \in E
    BY <1>1, <1>5, <1>6, <1>7
  <2>2. PICK a \in Int : a = 1 + s
    BY <1>7
  <2>3. /\ R \in Seq(E) /\ Len(R) = IF a <= n THEN n - a + 1 ELSE 0
        /\ \A i \in 1 .. n - a + 1 : R[i] = ch[a + i - 1]
    <3>1. R = SubSeq(ch, a, n) /\ \A i \in a .. n : ch[i] \in E
      BY <1>7, <2>1, <2>2
    <3> QED
      BY <2>1, <3>1, SubSeqProperties
  <2> QED
    BY <1>6, <1>7, <2>2, <2>3
<1>9. DOMAIN R = 1 .. n - s /\ n - s \in Nat
  BY <1>6, <1>7, <1>8
<1>10. DOMAIN run = 1 .. n - s /\ \A i \in 1 .. n - s : run[i].digest = ch[s + i].digest
  BY <1>3, <1>8, <1>9 DEF EnvelopeFrame
<1>11. run \in Seq({run[i] : i \in 1 .. n - s}) /\ Len(run) = n - s
  <2>1. PICK t \in Nat : t = n - s
    BY <1>9
  <2>2. run = [i \in 1 .. t |-> run[i]]
    BY <1>3, <1>9, <2>1
  <2>3. run \in [1 .. t -> {run[i] : i \in 1 .. t}]
    BY ONLY <2>2
  <2> QED
    BY <2>1, <2>3
<1>12. n - s \in Nat \ {0}
  BY <1>9, <1>11
<1>13. \A i \in 1 .. n - s : s + i \in 1 .. n /\ ch[s + i] \in Entries
  BY <1>1, <1>5, <1>6, <1>7
<1>14. Last(run).digest = NewestOf(core).digest
  <2>1. n - s \in 1 .. n - s /\ s + (n - s) = n
    BY <1>6, <1>7, <1>12
  <2> QED
    BY <1>5, <1>10, <1>11, <2>1 DEF Last, NewestOf
<1>15. \A i \in DOMAIN run : run[i].digest \in Nat /\ run[i].digest <= core.minted
  BY <1>1, <1>10, <1>13 DEF LogOk
<1>16. ASSUME NEW i \in 2 .. Len(run), NEW e \in Entries, e.digest = run[i].digest
       PROVE  e.prev = run[i - 1].digest
  <2>1. i \in 1 .. n - s /\ i - 1 \in 1 .. n - s /\ s + i \in 2 .. n /\ s + (i - 1) = (s + i) - 1
    BY <1>6, <1>7, <1>11
  <2>2. e.prev = ch[s + i].prev
    BY <1>10, <1>13, <1>16, <2>1 DEF LogOk
  <2>3. ch[s + i].prev = ch[(s + i) - 1].digest
    BY <1>5, <2>1 DEF LogOk
  <2> QED
    BY <1>10, <2>1, <2>2, <2>3
<1> QED
  BY <1>7, <1>11, <1>14, <1>15, <1>16

LEMMA RunNext ==
  ASSUME NEW B, NEW E, CallInv(B, E), LogOk, Advances, [Next]_vars, NEW c \in Conns, RunOk(c)
  PROVE  RunOk(c)'
<1>1. call'[c].asked = call[c].asked
  BY AskedStands
<1>2. SUFFICES ASSUME call[c].asked.type = "GetEnvelopes", "digests" \notin DOMAIN call[c].asked,
                      seen'[c].picked # <<>>
               PROVE  RunOk(c)'
  BY <1>1 DEF RunOk
<1>3. core.minted \in Nat /\ call[c].asked \in Asked /\ seen \in [Conns -> SeenType(B)]
  BY EntriesTyped, ConnFacts
<1>4. CASE ~ (TurnReads /\ Head(queue).conn = c)
  <2>1. seen'[c].picked = seen[c].picked /\ seen'[c].head = seen[c].head
    BY <1>2, <1>4, PickedStands
  <2>2. PICK run, lim : run = seen[c].picked /\ lim = call[c].asked.limit
    OBVIOUS
  <2>3. /\ \A l \in lim : Len(run) <= l
        /\ Last(run).digest = seen[c].head
        /\ \A i \in DOMAIN run :
             run[i].digest \in Nat /\ (daemon = "up" => run[i].digest <= core.minted)
        /\ \A i \in 2 .. Len(run) : \A e \in Entries :
             e.digest = run[i].digest => e.prev = run[i - 1].digest
    BY <1>2, <2>1, <2>2 DEF RunOk
  <2>4. \A i \in DOMAIN run : daemon' = "up" => run[i].digest <= core'.minted
    <3>1. CASE daemon' = "up"
      <4>1. PICK g, h : g = core.minted /\ h = core'.minted
        OBVIOUS
      <4>2. g \in Nat /\ g <= h /\ h \in Nat
        <5>1. PICK B2, E2 : CallInv(B2, E2)'
          BY CallNext
        <5>2. core' \in CoreType(E2)
          BY <5>1 DEF CallInv, Typed
        <5> QED
          BY <1>3, <3>1, <4>1, <5>2 DEF Advances, CoreType
      <4> QED
        BY <2>3, <3>1, <4>1, <4>2 DEF Advances
    <3> QED
      BY <3>1
  <2>5. ASSUME NEW i \in 2 .. Len(run), NEW e \in Entries', e.digest = run[i].digest
        PROVE  e.prev = run[i - 1].digest
    <3>1. CASE e \in Entries
      BY <2>3, <2>5, <3>1
    <3>2. CASE e \notin Entries
      <4>1. daemon = "up" /\ core.minted < e.digest
        BY <2>5, <3>2 DEF Advances
      <4>2. i \in DOMAIN run
        <5>1. run \in Seq(B)
          BY <1>3, <2>2 DEF SeenType
        <5> QED
          BY <5>1
      <4>3. run[i].digest <= core.minted /\ run[i].digest \in Nat
        BY <2>3, <4>1, <4>2
      <4> QED
        BY <1>3, <2>5, <4>1, <4>3
    <3> QED
      BY <3>1, <3>2
  <2> QED
    BY <1>1, <2>1, <2>2, <2>3, <2>4, <2>5 DEF RunOk
<1>5. CASE TurnReads /\ Head(queue).conn = c
  <2>1. queue # <<>> /\ daemon = "up" /\ UNCHANGED <<core, daemon>>
    BY <1>5 DEF TurnReads
  <2>2. PICK m, F : m = Head(queue) /\ F = Reads(m).frames
    OBVIOUS
  <2>3. m.req = call[c].asked /\ m.trip \in ToSet(Trips(m.req)) /\ m.conn = c
    BY <1>5, <2>1, <2>2, HeadMsg
  <2>4. m.trip = "GetEnvelopes"
    BY <1>2, <1>3, <2>3, TripsOf DEF Methods, Many
  <2>5. F = [i \in DOMAIN ReadEnvelopes(core, m.req) |->
               EnvelopeFrame(ReadEnvelopes(core, m.req)[i])]
    BY <2>2, <2>4 DEF Reads, Frames
  <2>6. seen'[c].picked = F /\ seen'[c].head = NewestOf(core).digest
    <3>1. seen' = [seen EXCEPT
             ![c].beside = IF m.trip = "Read" THEN {x \in Conns : subs[x].live} ELSE @,
             ![c].picked = IF m.trip = "GetEnvelopes" THEN F ELSE @,
             ![c].head = NewestOf(core).digest]
      BY <1>5, <2>2, <2>3 DEF TurnReads
    <3> QED
      BY <1>3, <2>4, <3>1 DEF SeenType
  <2>7. PICK q : q = call[c].asked
    OBVIOUS
  <2>8. /\ \A l \in q.limit : Len(F) <= l
        /\ Last(F).digest = NewestOf(core).digest
        /\ \A i \in DOMAIN F : F[i].digest \in Nat /\ F[i].digest <= core.minted
        /\ \A i \in 2 .. Len(F) : \A e \in Entries :
              e.digest = F[i].digest => e.prev = F[i - 1].digest
    <3>1. /\ q \in Asked /\ q.type = "GetEnvelopes" /\ "digests" \notin DOMAIN q /\ F # <<>>
          /\ F = [i \in DOMAIN ReadEnvelopes(core, q) |-> EnvelopeFrame(ReadEnvelopes(core, q)[i])]
      BY <1>2, <1>3, <2>3, <2>5, <2>6, <2>7
    <3> QED
      BY <2>1, <3>1, WalkRun
  <2>9. Entries' = Entries /\ core' = core
    BY <2>1 DEF Entries
  <2> QED
    BY <1>1, <2>6, <2>7, <2>8, <2>9 DEF RunOk
<1> QED
  BY <1>4, <1>5

-----------------------------------------------------------------------------
(* What a client is streamed, for the whole behaviour.                     *)

StreamsOk == CallsOk /\ LogOk /\ \A c \in Conns : Streams(c) /\ RunOk(c)

LEMMA StreamsInvariant == Spec => []StreamsOk
<1>1. Init => StreamsOk
  <2> SUFFICES ASSUME Init PROVE StreamsOk
    OBVIOUS
  <2>1. CallsOk
    BY CallInit DEF CallsOk
  <2>2. \A c \in Conns : Streams(c)
    BY StreamsInit
  <2>3. \A c \in Conns : RunOk(c)
    <3>1. \A c \in Conns : seen[c].picked = <<>>
      BY DEF Init
    <3> QED
      BY <3>1 DEF RunOk
  <2>4. LogOk
    <3>1. PICK k : k = core
      OBVIOUS
    <3>2. k.chain = <<Genesis>> /\ k.orphans = <<>> /\ k.minted = Genesis.digest
      BY <3>1 DEF Init
    <3>3. Len(k.chain) = 1 /\ \A e \in ToSet(k.chain) : e = Genesis
      BY <3>2 DEF ToSet
    <3>4. \A e \in Entries : e = Genesis
      BY <3>1, <3>2, <3>3, ToSetEmpty DEF Entries
    <3>5. Genesis.digest <= Genesis.digest /\ 2 .. 1 = {}
      BY GenesisAssumption
    <3> QED
      BY ONLY <3>1, <3>2, <3>3, <3>4, <3>5 DEF LogOk
  <2> QED
    BY <2>1, <2>2, <2>3, <2>4 DEF StreamsOk
<1>2. StreamsOk /\ [Next]_vars => StreamsOk'
  <2> SUFFICES ASSUME StreamsOk, [Next]_vars PROVE StreamsOk'
    OBVIOUS
  <2>1. PICK B, E : CallInv(B, E)
    BY DEF StreamsOk, CallsOk
  <2>2. CallsOk'
    BY <2>1, CallNext DEF CallsOk
  <2>3. LogOk' /\ Advances
    BY <2>1, LogNext DEF StreamsOk
  <2>4. \A c \in Conns : Streams(c)'
    BY <2>1, StreamsNext DEF StreamsOk
  <2>5. \A c \in Conns : RunOk(c)'
    BY <2>1, <2>3, RunNext DEF StreamsOk
  <2> QED
    BY <2>2, <2>3, <2>4, <2>5 DEF StreamsOk
<1> QED
  BY <1>1, <1>2, PTL DEF Spec

LEMMA PrefixOf ==
  ASSUME NEW B, NEW s \in Seq(B), NEW t \in Seq(B), Len(s) <= Len(t),
         \A i \in DOMAIN s : s[i] = t[i]
  PROVE  IsPrefix(s, t) /\ (Len(s) = Len(t) => s = t)
<1>1. PICK n, l : n = Len(s) /\ l = Len(t)
  OBVIOUS
<1>2. /\ n \in Nat /\ l \in Nat /\ n <= l /\ 1 \in Int /\ n \in Int
      /\ \A i \in 1 .. n : s[i] \in B /\ t[i] \in B /\ s[i] = t[i]
  BY <1>1
<1>3. PICK a, b : a = SubSeq(s, 1, n) /\ b = SubSeq(t, 1, n)
  OBVIOUS
<1>4. /\ a \in Seq(B) /\ Len(a) = IF 1 <= n THEN n - 1 + 1 ELSE 0
      /\ \A i \in 1 .. n - 1 + 1 : a[i] = s[1 + i - 1]
  BY <1>2, <1>3, SubSeqProperties
<1>5. /\ b \in Seq(B) /\ Len(b) = IF 1 <= n THEN n - 1 + 1 ELSE 0
      /\ \A i \in 1 .. n - 1 + 1 : b[i] = t[1 + i - 1]
  BY <1>2, <1>3, SubSeqProperties
<1>6. Len(a) = Len(b) /\ \A i \in 1 .. Len(a) : a[i] = b[i]
  BY <1>2, <1>4, <1>5
<1>7. a = b
  BY <1>4, <1>5, <1>6, SeqEqual
<1>8. n = l => s = t
  BY <1>1, <1>2, SeqEqual
<1> QED
  BY <1>1, <1>2, <1>3, <1>7, <1>8 DEF IsPrefix

\* PrefixOfAnswer: a client is handed, in order and without a gap, what the
\* mainloop picked for it in one trip, and all of it when its stream ends
\* between frames; for a chain walk that is a linked run up to the head it
\* was read at (Rpc::envelopes, Core::canonical_chain), for every number of
\* connections, requests, envelopes and crashes.
THEOREM StreamsAPrefix == Spec => []PrefixOfAnswer
<1>1. StreamsOk => PrefixOfAnswer
  <2> SUFFICES ASSUME StreamsOk, NEW c \in Conns
               PROVE
                 /\ call[c].asked.type = "GetEnvelopes" =>
                      LET got == IF call[c].end = "Failed" THEN Front(call[c].got)
                                 ELSE call[c].got
                      IN /\ IsPrefix(got, seen[c].picked)
                         /\ (call[c].end = "none" /\ daemon # "exited" /\ ~seen[c].unsent)
                              => got = seen[c].picked
                 /\ \A q \in task[c].req :
                      (q.type = "GetEnvelopes" /\ "limit" \in DOMAIN q /\ seen[c].picked # <<>>) =>
                        LET run == seen[c].picked
                        IN /\ \A l \in q.limit : Len(run) <= l
                           /\ Last(run).digest = seen[c].head
                           /\ \A i \in 2 .. Len(run) :
                                \A e \in ToSet(core.chain \o core.orphans) :
                                  e.digest = run[i].digest => e.prev = run[i - 1].digest
    BY DEF PrefixOfAnswer
  <2>1. PICK B, E : CallInv(B, E)
    BY DEF StreamsOk, CallsOk
  <2>2. Streams(c) /\ RunOk(c)
    BY DEF StreamsOk
  <2>3. PICK G, P, got : /\ G = call[c].got /\ P = seen[c].picked
                         /\ got = IF call[c].end = "Failed" THEN Front(G) ELSE G
    OBVIOUS
  <2>4. G \in Seq(B) /\ P \in Seq(B) /\ Len(G) \in Nat /\ Len(P) \in Nat
    BY <2>1, <2>3, LineTyped
  <2>5. ASSUME call[c].asked.type = "GetEnvelopes"
        PROVE  /\ IsPrefix(got, P)
               /\ (call[c].end = "none" /\ daemon # "exited" /\ ~seen[c].unsent) => got = P
    <3>1. CASE Streamed(c)
      <4>1. got = G /\ Len(G) <= Len(P) /\ \A i \in DOMAIN G : G[i] = P[i]
        BY <2>3, <3>1 DEF Streamed
      <4>2. IsPrefix(G, P) /\ (Len(G) = Len(P) => G = P)
        BY ONLY <2>4, <4>1, PrefixOf
      <4> QED
        BY <2>3, <3>1, <4>1, <4>2 DEF Streamed, Cut
    <3>2. CASE Refused(c)
      <4>1. P = <<>> /\ Len(G) <= 1 /\ (G # <<>> <=> call[c].end = "Failed")
        <5>1. PICK g, f, o : g = Len(G) /\ f = Len(down[c].frames) /\ o = Len(task[c].out)
          OBVIOUS
        <5>2. g \in Nat /\ f \in Nat /\ o \in Nat
          BY <2>1, <2>4, <5>1, LineTyped
        <5>3. g + f + o <= 1
          BY <2>3, <3>2, <5>1 DEF Refused, Line
        <5>a. g <= 1
          BY ONLY <5>2, <5>3
        <5>4. Len(G) <= 1
          BY <5>1, <5>a
        <5> QED
          BY <2>3, <3>2, <5>4 DEF Refused
      <4>2. got = <<>>
        <5>1. CASE G = <<>>
          BY <2>3, <4>1, <5>1
        <5>2. CASE G # <<>>
          <6>1. Len(G) - 1 = 0
            <7>1. PICK n \in Nat : n = Len(G)
              BY <2>4
            <7>2. n # 0
              BY <2>4, <5>2, <7>1
            <7>3. n <= 1
              BY <4>1, <7>1
            <7>4. n - 1 = 0
              BY ONLY <7>1, <7>2, <7>3
            <7> QED
              BY <7>1, <7>4
          <6>2. got = SubSeq(G, 1, 0)
            BY <2>3, <4>1, <5>2, <6>1 DEF Front
          <6> QED
            BY <6>2
        <5> QED
          BY <5>1, <5>2
      <4>3. IsPrefix(<<>>, <<>>)
        BY DEF IsPrefix
      <4> QED
        BY <4>1, <4>2, <4>3
    <3> QED
      BY <2>2, <2>5, <3>1, <3>2 DEF Streams
  <2>6. ASSUME NEW q \in task[c].req, q.type = "GetEnvelopes", "limit" \in DOMAIN q, P # <<>>
        PROVE  /\ \A l \in q.limit : Len(P) <= l
               /\ Last(P).digest = seen[c].head
               /\ \A i \in 2 .. Len(P) : \A e \in ToSet(core.chain \o core.orphans) :
                    e.digest = P[i].digest => e.prev = P[i - 1].digest
    <3>1. q = call[c].asked /\ q \in Asked
      <4>1. Works(c) /\ call[c].asked \in Asked
        BY <2>1, ConnFacts
      <4> QED
        BY <2>6, <4>1 DEF Works
    <3>2. "digests" \notin DOMAIN q
      BY <2>6, <3>1, ScriptAssumption
    <3>3. ToSet(core.chain \o core.orphans) = Entries
      BY <2>1, EntriesTyped, ConcatSet DEF Entries
    <3> QED
      BY <2>2, <2>3, <2>6, <3>1, <3>2, <3>3 DEF RunOk
  <2> QED
    BY <2>3, <2>5, <2>6
<1> QED
  BY <1>1, StreamsInvariant, PTL

-----------------------------------------------------------------------------
(* What a watch has shown.                                                 *)

LEMMA AfterSame ==
  ASSUME NEW s, NEW m, NEW k, k # m.key
  PROVE  SameAt(s, After(s, m), k)
<1>1. CASE m.type = "DeleteNamespace"
  BY <1>1 DEF After, SameAt
<1>2. CASE m.type # "DeleteNamespace"
  BY <1>2 DEF After, SameAt
<1> QED
  BY <1>1, <1>2

\* A movement, entry by entry.
Grows(k, new, m, n, L, e) ==
  /\ n \in Nat \ {0} /\ L \in Nat /\ n <= L /\ L = Len(k.chain) /\ DOMAIN k.chain = 1 .. L
  /\ Len(new.chain) = n + 1 /\ DOMAIN new.chain = 1 .. n + 1 /\ new.chain[n + 1] = e
  /\ \A i \in 1 .. n : new.chain[i] = k.chain[i]
  /\ \A i \in 1 .. L : k.chain[i].digest \in Nat /\ k.chain[i].digest <= k.minted
  /\ k.minted \in Nat /\ e.digest = k.minted + 1 /\ new.minted = k.minted + 1
  /\ e.key = m.key /\ e.state = After(k.chain[n].state, m)
  /\ NewestOf(k) = k.chain[L] /\ NewestOf(new) = e

LEMMA MovedGrows ==
  ASSUME NEW B, NEW E, CallInv(B, E), LogOk, daemon = "up",
         NEW back, NEW m, NEW n, NEW e, NEW new, Moves(E, core, back, m, n, e, new)
  PROVE  \E L : Grows(core, new, m, n, L, e)
<1>1. PICK k, L : k = core /\ L = Len(core.chain)
  OBVIOUS
<1>2. /\ k.chain \in Seq(E) /\ k.minted \in Nat /\ \A x \in Entries : x.digest \in Nat
      /\ \A i \in DOMAIN k.chain : k.chain[i] \in Entries
  BY <1>1, EntriesTyped
<1>3. MovedTo(E, k, m, n, e, new)
  BY <1>1, MovedCore
<1>4. L \in Nat /\ n <= L /\ L = Len(k.chain) /\ DOMAIN k.chain = 1 .. L /\ n \in Nat \ {0}
  BY <1>1, <1>2, <1>3 DEF Moves, MovedTo
<1>5. \A i \in 1 .. L : k.chain[i].digest \in Nat /\ k.chain[i].digest <= k.minted
  BY <1>1, <1>2, <1>4 DEF LogOk
<1>6. DOMAIN new.chain = 1 .. n + 1
  <2>1. new.chain \in Seq(E \cup {e}) /\ Len(new.chain) = n + 1
    BY <1>3 DEF MovedTo, CoreType
  <2> QED
    BY <2>1
<1>7. NewestOf(k) = k.chain[L]
  BY <1>4 DEF NewestOf, Last
<1>8. Grows(k, new, m, n, L, e)
  BY <1>2, <1>3, <1>4, <1>5, <1>6, <1>7 DEF Grows, MovedTo
<1> QED
  BY <1>1, <1>8

\* What StatesOk says of the chain.
Distinct(chain) == \A i, j \in DOMAIN chain : chain[i].digest = chain[j].digest => i = j
Stretches(chain) ==
  \A i \in DOMAIN chain : \A j \in i .. Len(chain) : \A k :
    Untouched(chain, i, j, k) => SameAt(chain[i].state, chain[j].state, k)

LEMMA GrownStates ==
  ASSUME NEW k, NEW new, NEW m, NEW n, NEW L, NEW e, Grows(k, new, m, n, L, e),
         Distinct(k.chain), Stretches(k.chain)
  PROVE  Distinct(new.chain) /\ Stretches(new.chain)
<1>1. PICK a, b : a = k.chain /\ b = new.chain
  OBVIOUS
<1>2. /\ n \in Nat \ {0} /\ L \in Nat /\ n <= L /\ L = Len(a) /\ DOMAIN a = 1 .. L
      /\ Len(b) = n + 1 /\ DOMAIN b = 1 .. n + 1 /\ b[n + 1] = e
      /\ \A i \in 1 .. n : b[i] = a[i]
      /\ e.key = m.key /\ e.state = After(a[n].state, m)
  BY <1>1 DEF Grows
<1>3. \A i \in 1 .. L : a[i].digest # e.digest
  BY <1>1 DEF Grows
<1>4. ASSUME NEW i \in 1 .. n + 1, NEW j \in 1 .. n + 1, b[i].digest = b[j].digest
      PROVE  i = j
  <2>1. \A l \in 1 .. n + 1 : l = n + 1 \/ (l \in 1 .. n /\ l \in 1 .. L /\ b[l] = a[l])
    BY <1>2
  <2>2. \A l \in 1 .. L : \A h \in 1 .. L : a[l].digest = a[h].digest => l = h
    BY <1>1, <1>2 DEF Distinct
  <2>3. CASE i = n + 1
    BY <1>2, <1>3, <1>4, <2>1, <2>3
  <2>4. CASE i # n + 1
    BY <1>2, <1>3, <1>4, <2>1, <2>2, <2>4
  <2> QED
    BY <2>3, <2>4
<1>5. ASSUME NEW i \in 1 .. n + 1, NEW j \in i .. n + 1, NEW x, Untouched(b, i, j, x)
      PROVE  SameAt(b[i].state, b[j].state, x)
  <2>1. CASE j = i
    BY <2>1 DEF SameAt
  <2>2. CASE j # i /\ j # n + 1
    <3>1. i \in 1 .. n /\ j \in 1 .. n /\ i \in 1 .. L /\ j \in i .. L
      BY <1>2, <2>2
    <3>2. \A l \in i + 1 .. j : l \in 1 .. n
      BY <1>2, <3>1
    <3>3. Untouched(a, i, j, x)
      BY <1>2, <1>5, <3>2 DEF Untouched
    <3>4. SameAt(a[i].state, a[j].state, x)
      BY <1>1, <1>2, <3>1, <3>3 DEF Stretches
    <3> QED
      BY <1>2, <3>1, <3>4
  <2>3. CASE j # i /\ j = n + 1
    <3>1. i \in 1 .. n /\ i \in 1 .. L /\ n \in i .. L /\ n \in 1 .. n
      BY <1>2, <2>3
    <3>2. \A l \in i + 1 .. n : l \in 1 .. n /\ l \in i + 1 .. j
      BY <2>3, <3>1
    <3>3. Untouched(a, i, n, x)
      BY <1>2, <1>5, <3>2 DEF Untouched
    <3>4. SameAt(a[i].state, a[n].state, x)
      BY <1>1, <1>2, <3>1, <3>3 DEF Stretches
    <3>5. n + 1 \in i + 1 .. j
      BY <2>3, <3>1
    <3>6. x # m.key
      BY <1>2, <1>5, <3>5 DEF Untouched
    <3>7. SameAt(a[n].state, e.state, x)
      BY <1>2, <3>6, AfterSame
    <3>8. SameAt(a[i].state, e.state, x)
      BY ONLY <3>4, <3>7 DEF SameAt
    <3> QED
      BY <1>2, <2>3, <3>1, <3>8
  <2> QED
    BY <2>1, <2>2, <2>3
<1>6. Distinct(b)
  BY <1>2, <1>4 DEF Distinct
<1>7. Stretches(b)
  BY <1>2, <1>5 DEF Stretches
<1> QED
  BY <1>1, <1>6, <1>7

\* A namespace the movement did not touch reads the same after it.
LEMMA GrownValue ==
  ASSUME NEW k, NEW new, NEW m, NEW n, NEW L, NEW e, Grows(k, new, m, n, L, e),
         Distinct(k.chain), Stretches(k.chain), NEW q, q.key \notin Touched(k, new)
  PROVE  ReadValue(new, q) = ReadValue(k, q)
<1>1. PICK a, b, x : a = k.chain /\ b = new.chain /\ x = q.key
  OBVIOUS
<1>2. /\ n \in Nat \ {0} /\ L \in Nat /\ n <= L /\ L = Len(a) /\ DOMAIN a = 1 .. L
      /\ DOMAIN b = 1 .. n + 1 /\ b[n + 1] = e
      /\ \A i \in 1 .. n : b[i] = a[i]
      /\ e.key = m.key /\ e.state = After(a[n].state, m)
      /\ NewestOf(k) = a[L] /\ NewestOf(new) = e
  BY <1>1 DEF Grows
<1>3. \A i \in 1 .. L : a[i].digest # e.digest
  BY <1>1 DEF Grows
<1>4. \A y \in ToSet(a) \ ToSet(b) : y.key # x
  BY <1>1 DEF Touched
<1>5. \A y \in ToSet(b) : y.digest \notin DigestsOf(a) => y.key # x
  BY <1>1 DEF Touched
<1>6. e.key # x
  <2>1. n + 1 \in 1 .. n + 1
    BY <1>2
  <2>2. e \in ToSet(b)
    BY <1>2, <2>1 DEF ToSet
  <2>3. e.digest \notin DigestsOf(a)
    BY <1>2, <1>3 DEF DigestsOf, ToSet
  <2> QED
    BY <1>5, <2>2, <2>3
<1>7. ASSUME NEW l \in n + 1 .. L PROVE a[l].key # x
  <2>1. l \in 1 .. L /\ l \notin 1 .. n
    BY <1>2
  <2>2. a[l] \in ToSet(a)
    BY <1>2, <2>1 DEF ToSet
  <2>3. ASSUME NEW i \in 1 .. n + 1 PROVE b[i] # a[l]
    <3>1. CASE i = n + 1
      BY <1>2, <1>3, <2>1, <3>1
    <3>2. CASE i # n + 1
      <4>1. i \in 1 .. n /\ i \in 1 .. L /\ i # l
        BY <1>2, <2>1, <3>2
      <4>2. a[i].digest # a[l].digest
        BY <1>1, <1>2, <2>1, <4>1 DEF Distinct
      <4> QED
        BY <1>2, <4>1, <4>2
    <3> QED
      BY <3>1, <3>2
  <2>4. a[l] \notin ToSet(b)
    BY <1>2, <2>3 DEF ToSet
  <2> QED
    BY <1>4, <2>2, <2>4
<1>8. SameAt(a[n].state, a[L].state, x)
  <2>1. n \in 1 .. L /\ L \in n .. L
    BY <1>2
  <2>2. Untouched(a, n, L, x)
    BY <1>7 DEF Untouched
  <2> QED
    BY <1>1, <1>2, <2>1, <2>2 DEF Stretches
<1>9. SameAt(a[n].state, e.state, x)
  BY <1>2, <1>6, AfterSame
<1>10. SameAt(a[L].state, e.state, x)
  BY ONLY <1>8, <1>9 DEF SameAt
<1> QED
  BY <1>1, <1>2, <1>10 DEF ReadValue, SameAt

\* Compaction takes off the older end only.
LEMMA PrunedStates ==
  ASSUME NEW E, NEW k \in CoreType(E), k.chain # <<>>, NEW new, new = Pruned(k),
         Distinct(k.chain), Stretches(k.chain)
  PROVE  /\ Distinct(new.chain) /\ Stretches(new.chain)
         /\ NewestOf(new) = NewestOf(k)
<1>1. /\ new \in CoreType(E) /\ new.chain # <<>>
      /\ \E s \in 0 .. Len(k.chain) - 1 : Drops(k.chain, new.chain, s)
  BY PrunedCore
<1>2. PICK a, b, L : a = k.chain /\ b = new.chain /\ L = Len(k.chain)
  OBVIOUS
<1>3. a \in Seq(E) /\ b \in Seq(E) /\ L \in Nat /\ DOMAIN a = 1 .. L /\ L = Len(a)
  BY <1>1, <1>2 DEF CoreType
<1>4. PICK s \in 0 .. L - 1 : Len(b) = L - s /\ \A i \in 1 .. L - s : b[i] = a[s + i]
  BY <1>1, <1>2 DEF Drops
<1>5. DOMAIN b = 1 .. L - s
  BY <1>3, <1>4
<1>6. \A i \in 1 .. L - s : s + i \in 1 .. L
  BY <1>3, <1>4
<1>7. Distinct(b)
  <2>1. ASSUME NEW i \in 1 .. L - s, NEW j \in 1 .. L - s, b[i].digest = b[j].digest
        PROVE  i = j
    <3>1. a[s + i].digest = a[s + j].digest /\ s + i \in 1 .. L /\ s + j \in 1 .. L
      BY <1>4, <1>6, <2>1
    <3>2. s + i = s + j
      BY <1>2, <1>3, <3>1 DEF Distinct
    <3> QED
      BY <1>4, <3>2
  <2> QED
    BY <1>5, <2>1 DEF Distinct
<1>8. ASSUME NEW i \in 1 .. L - s, NEW j \in i .. L - s, NEW x, Untouched(b, i, j, x)
      PROVE  SameAt(b[i].state, b[j].state, x)
  <2>1. j \in 1 .. L - s /\ s + i \in 1 .. L /\ s + j \in s + i .. L
    BY <1>3, <1>4
  <2>2. ASSUME NEW l \in (s + i) + 1 .. s + j PROVE a[l].key # x
    <3>1. l - s \in i + 1 .. j /\ l - s \in 1 .. L - s /\ s + (l - s) = l
      BY <1>3, <1>4, <2>1
    <3> QED
      BY <1>4, <1>8, <3>1 DEF Untouched
  <2>3. Untouched(a, s + i, s + j, x)
    BY <2>2 DEF Untouched
  <2>4. SameAt(a[s + i].state, a[s + j].state, x)
    BY <1>2, <1>3, <2>1, <2>3 DEF Stretches
  <2> QED
    BY <1>4, <2>1, <2>4
<1>9. Stretches(b)
  BY <1>4, <1>5, <1>8 DEF Stretches
<1>10. b[L - s] = a[L]
  <2>1. L - s \in 1 .. L - s /\ s + (L - s) = L
    BY <1>3, <1>4
  <2> QED
    BY <1>4, <2>1
<1> QED
  BY <1>2, <1>4, <1>7, <1>9, <1>10 DEF NewestOf, Last

\* A step sends the client of c no value, and what its watch had to show it
\* is still there while it is followed.
Tells(c) == \A b \in Sent(c)' : b \in Sent(c) \/ b.is # "Value"
Hears(c) ==
  (subs'[c].live /\ call'[c].at = "open") =>
    subs[c].live /\ call[c].at = "open" /\ Events(c) \subseteq Events(c)'
OneAnswer(c) == Once(c) => Once(c)'

LEMMA SameFresh ==
  ASSUME NEW c \in Conns, Sent(c)' = Sent(c), subs'[c] = subs[c], call'[c].at = call[c].at,
         call'[c].asked = call[c].asked, call'[c].got = call[c].got
  PROVE  Tells(c) /\ Hears(c) /\ OneAnswer(c)
<1>1. Events(c)' = Events(c)
  BY DEF Events
<1> QED
  BY <1>1 DEF Tells, Hears, OneAnswer, Once

LEMMA ClientFresh ==
  ASSUME NEW B, NEW E, CallInv(B, E), NEW c \in Conns, Client(c)
  PROVE  Tells(c) /\ Hears(c) /\ OneAnswer(c)
<1>1. /\ Asks(c) /\ Works(c) /\ Answers(c) /\ call \in [Conns -> CallType(B)]
      /\ down \in [Conns -> PipeType(B)] /\ down[c] \in PipeType(B) /\ call[c].filled \in Nat
      /\ call[c].got \in Seq(B) /\ down[c].frames \in Seq(FrameType(B))
  BY ConnFacts
<1>2. UNCHANGED <<task, subs>>
  BY DEF Client, Connect, ConnectCut, ConnectFails, ClientPolls, HangUp
<1>3. ASSUME Sent(c)' \subseteq Sent(c), call'[c].at = "ended",
             call'[c].asked = call[c].asked, Len(call'[c].got) <= 1 \/ ~Once(c) \/ call[c].asked.type \in Many
      PROVE  Tells(c) /\ Hears(c) /\ OneAnswer(c)
  BY <1>3 DEF Tells, Hears, OneAnswer, Once
<1>4. CASE Connect(c) \/ ConnectCut(c) \/ ConnectFails(c)
  <2>1. /\ UNCHANGED down /\ call[c].at = "idle"
        /\ \E at \in {"open", "ended"} : \E end \in {"", "FrameTooLarge", "Dropped", "Connect"} :
             Asking(c, at, end)
    BY <1>4 DEF Connect, ConnectCut, ConnectFails
  <2>2. /\ call'[c].asked = call[c].asked /\ call'[c].got = call[c].got
    BY <1>1, <2>1, AskingStep DEF Outcomes, Becomes
  <2>3. Sent(c)' = Sent(c)
    BY <1>2, <2>1, <2>2 DEF Sent
  <2>4. ~subs[c].live
    BY <1>1, <2>1 DEF Asks, Works
  <2> QED
    BY <1>2, <2>1, <2>2, <2>3, <2>4 DEF Tells, Hears, OneAnswer, Once
<1>5. CASE HangUp(c)
  <2>1. Ends(c, "Dropped", <<>>) /\ UNCHANGED down
    BY <1>5 DEF HangUp
  <2>2. <<>> \in Seq(B)
    OBVIOUS
  <2>3. Becomes(B, c, "ended", 0, <<>>, "Dropped")
    BY <1>1, <2>1, <2>2, EndsStep DEF Outcomes
  <2>4. call'[c].got = <<>> /\ call'[c].at = "ended" /\ call'[c].asked = call[c].asked
    BY <2>3 DEF Becomes
  <2>5. Sent(c)' \subseteq Sent(c)
    BY <1>2, <2>1, <2>4, ToSetEmpty DEF Sent
  <2>6. Len(call'[c].got) <= 1
    BY <2>4, EmptyFacts
  <2> QED
    BY <1>3, <2>4, <2>5, <2>6
<1>6. CASE ClientPolls(c)
  <2>1. PICK r \in Poll(down[c], call[c].filled) :
        \/ /\ r.is = "more"
           /\ call' = [call EXCEPT ![c].filled = r.filled]
           /\ UNCHANGED <<up, down>>
        \/ /\ r.is = "frame"
           /\ Response(c, r.body)
           /\ down' = [down EXCEPT ![c] = Popped(@)]
        \/ /\ r.is \notin {"more", "frame"}
           /\ Ends(c, Closed(c, r.is), call[c].got)
           /\ UNCHANGED down
    BY <1>6 DEF ClientPolls
  <2>2. Yields(r, down[c], call[c].filled)
    BY <1>1, PollYields
  <2>3. call[c].at = "open" /\ call[c].end = ""
    BY <1>1, <1>6 DEF ClientPolls, Asks
  <2>4. CASE r.is = "more"
    <3>1. r.filled \in Nat /\ call' = [call EXCEPT ![c].filled = r.filled] /\ UNCHANGED down
      BY <2>1, <2>2, <2>4 DEF Yields
    <3>2. Becomes(B, c, "open", r.filled, call[c].got, "")
      BY <1>1, <2>3, <3>1, FilledStep
    <3>3. /\ call'[c].at = call[c].at /\ call'[c].asked = call[c].asked
          /\ call'[c].got = call[c].got
      BY <2>3, <3>2 DEF Becomes
    <3>4. Sent(c)' = Sent(c)
      BY <1>2, <3>1, <3>3 DEF Sent
    <3> QED
      BY <1>2, <3>3, <3>4, SameFresh
  <2>5. CASE r.is = "frame"
    <3>1. PICK b, got : b = down[c].frames[1].body /\ got = Append(call[c].got, b)
      OBVIOUS
    <3>2. /\ down[c].frames # <<>> /\ Response(c, b)
          /\ down' = [down EXCEPT ![c] = Popped(@)]
      BY <2>1, <2>2, <2>5, <3>1 DEF Yields
    <3>3. down'[c].frames = Tail(down[c].frames)
      BY <1>1, <3>2, PoppedPipe
    <3>4. b \in B /\ got \in Seq(B)
      <4>1. down[c].frames[1] \in FrameType(B)
        BY <1>1, <3>2, TailFacts
      <4>2. b \in B
        BY <3>1, <4>1 DEF FrameType
      <4> QED
        BY <1>1, <3>1, <4>2
    <3>5. ToSet(got) = ToSet(call[c].got) \cup {b}
      BY <1>1, <3>1, AppendSet
    <3>6. Bodies(down[c].frames) = {b} \cup Bodies(Tail(down[c].frames))
      BY <1>1, <3>1, <3>2, BodiesTail
    <3>7. \/ \E end \in {"Failed", "UnexpectedResponse", "Ok"} : Ends(c, end, got)
          \/ call[c].asked.type \in Many /\ call' = [call EXCEPT ![c].got = got, ![c].filled = 0]
      BY <3>1, <3>2 DEF Response
    <3>8. CASE \E end \in {"Failed", "UnexpectedResponse", "Ok"} : Ends(c, end, got)
      <4>a. PICK end \in {"Failed", "UnexpectedResponse", "Ok"} : Ends(c, end, got)
        BY <3>8
      <4>b. Becomes(B, c, "ended", 0, got, end)
        BY <1>1, <3>4, <4>a, EndsStep DEF Outcomes
      <4>1. call'[c].got = got /\ call'[c].at = "ended" /\ call'[c].asked = call[c].asked
        BY <4>b DEF Becomes
      <4>2. Sent(c)' = Sent(c)
        BY <1>2, <3>3, <3>5, <3>6, <4>1 DEF Sent
      <4>3. ASSUME Once(c), call[c].asked.type \notin Many PROVE Len(call'[c].got) <= 1
        <5>1. call[c].got = <<>>
          BY <2>3, <4>3 DEF Once
        <5>2. got = Append(<<>>, b)
          BY <3>1, <5>1
        <5>3. Len(got) = 1
          BY <5>2
        <5> QED
          BY <4>1, <5>3
      <4> QED
        BY <1>3, <4>1, <4>2, <4>3
    <3>9. CASE call[c].asked.type \in Many /\ call' = [call EXCEPT ![c].got = got, ![c].filled = 0]
      <4>1. Becomes(B, c, "open", 0, got, "")
        BY <1>1, <2>3, <3>4, <3>9, GotStep
      <4>2. call'[c].got = got /\ call'[c].at = "open" /\ call'[c].asked = call[c].asked
        BY <4>1 DEF Becomes
      <4>3. Sent(c)' = Sent(c)
        BY <1>2, <3>3, <3>5, <3>6, <4>2 DEF Sent
      <4>4. Events(c)' = Events(c)
        BY <1>2, <4>3 DEF Events
      <4> QED
        BY <1>2, <2>3, <3>9, <4>2, <4>3, <4>4 DEF Tells, Hears, OneAnswer, Once
    <3> QED
      BY <3>7, <3>8, <3>9
  <2>6. CASE r.is \notin {"more", "frame"}
    <3>1. PICK end : end = Closed(c, r.is)
      OBVIOUS
    <3>2. Ends(c, end, call[c].got) /\ UNCHANGED down
      BY <2>1, <2>6, <3>1
    <3>3. r.is \in {"FrameTooLarge", "Truncated", "none"}
      BY <2>2, <2>6 DEF Yields
    <3>4. end \in {"IO", "NoResponse", "FrameTooLarge", "Truncated", "none"}
      BY <3>1, <3>3 DEF Closed
    <3>5. Becomes(B, c, "ended", 0, call[c].got, end)
      BY <1>1, <3>2, <3>4, EndsStep DEF Outcomes
    <3>6. /\ call'[c].at = "ended" /\ call'[c].asked = call[c].asked
          /\ call'[c].got = call[c].got
      BY <3>5 DEF Becomes
    <3>7. Sent(c)' = Sent(c)
      BY <1>2, <3>2, <3>6 DEF Sent
    <3> QED
      BY <1>3, <3>6, <3>7 DEF Once
  <2> QED
    BY <2>4, <2>5, <2>6
<1> QED
  BY <1>4, <1>5, <1>6 DEF Client

\* A handler's step.
LEMMA LeaveFresh ==
  ASSUME NEW B, NEW c \in Conns, Left(B, c), call' = call
  PROVE  Tells(c) /\ Hears(c) /\ OneAnswer(c) /\ Registered(c)'
<1>1. Sent(c)' \subseteq Sent(c)
  BY ToSetEmpty DEF Sent, Left
<1> QED
  BY <1>1 DEF Tells, Hears, OneAnswer, Once, Registered, Left

LEMMA WritesFresh ==
  ASSUME NEW B, NEW E, CallInv(B, E), NEW c \in Conns, TaskWrites(c)
  PROVE  Tells(c) /\ Hears(c) /\ OneAnswer(c) /\ (Registered(c) => Registered(c)')
<1>1. /\ Works(c) /\ task \in [Conns -> TaskType(B)] /\ task[c] \in TaskType(B)
      /\ down \in [Conns -> PipeType(B)] /\ down[c] \in PipeType(B)
      /\ subs \in [Conns -> SubType(B)]
      /\ down[c].frames \in Seq(FrameType(B)) /\ task[c].out \in Seq(B)
  BY ConnFacts
<1>2. PICK b : b = Head(task[c].out)
  OBVIOUS
<1>3. /\ task[c].at \in {"sending", "telling"} /\ task[c].out # <<>> /\ call' = call
  BY DEF TaskWrites
<1>4. CASE call[c].at = "ended" \/ ~Sendable(b)
  <2>1. Leave(c)
    BY <1>2, <1>4 DEF TaskWrites
  <2>2. Left(B, c)
    BY <1>1, <2>1, LeaveStep
  <2> QED
    BY <1>3, <2>2, LeaveFresh
<1>5. CASE call[c].at # "ended" /\ Sendable(b)
  <2>1. PICK f, out : f = FrameOf(b, BodyLen(b)) /\ out = Tail(task[c].out)
    OBVIOUS
  <2>2. /\ down' = [down EXCEPT ![c] = Pushed(@, f)] /\ UNCHANGED subs
        /\ task' = [task EXCEPT ![c].out = out]
    BY <1>1, <1>2, <1>5, <2>1 DEF TaskWrites
  <2>3. b \in B /\ ToSet(task[c].out) = {b} \cup ToSet(out)
    BY <1>1, <1>2, <1>3, <2>1, TailFacts, TailSet
  <2>4. f \in FrameType(B) /\ f.body = b
    <3>1. BodyLen(b) \in Nat \ {0}
      BY <1>5, FrameAssumption DEF Sendable
    <3> QED
      BY <2>1, <2>3, <3>1, FrameAssumption DEF FrameOf, FrameType
  <2>5. down'[c].frames = Append(down[c].frames, f)
    BY <1>1, <2>2, <2>4, PushedPipe
  <2>6. Bodies(down'[c].frames) = Bodies(down[c].frames) \cup {b}
    BY <1>1, <2>4, <2>5, BodiesAppend
  <2>7. task'[c].out = out /\ task'[c].at = task[c].at
    BY <1>1, <2>2 DEF TaskType
  <2>8. Sent(c)' = Sent(c)
    BY <1>3, <2>3, <2>6, <2>7 DEF Sent
  <2> QED
    BY <1>3, <2>2, <2>7, <2>8, SameFresh DEF Registered
<1> QED
  BY <1>4, <1>5

LEMMA TaskFresh ==
  ASSUME NEW B, NEW E, CallInv(B, E), NEW c \in Conns, Task(c)
  PROVE  Tells(c) /\ Hears(c) /\ OneAnswer(c) /\ (Registered(c) => Registered(c)')
<1>1. /\ task \in [Conns -> TaskType(B)] /\ down \in [Conns -> PipeType(B)]
      /\ subs \in [Conns -> SubType(B)] /\ subs[c] \in SubType(B)
      /\ task[c] \in TaskType(B) /\ up[c] \in PipeType(Asked) /\ task[c].filled \in Nat
      /\ Asks(c) /\ Works(c) /\ Answers(c) /\ Typed(B, E) /\ call[c].asked \in Asked
  BY ConnFacts
<1>2. CASE TaskWrites(c)
  BY <1>2, WritesFresh
<1>3. SUFFICES ASSUME ~TaskWrites(c)
               PROVE  Tells(c) /\ Hears(c) /\ OneAnswer(c) /\ (Registered(c) => Registered(c)')
  BY <1>2
<1>4. call' = call
  BY <1>3 DEF Task, Accept, TaskReads, Ask, Gone, TaskSent, Notify, HungUp
<1>5. ASSUME Leave(c)
      PROVE  Tells(c) /\ Hears(c) /\ OneAnswer(c) /\ (Registered(c) => Registered(c)')
  BY <1>1, <1>4, <1>5, LeaveStep, LeaveFresh
<1>6. ASSUME UNCHANGED <<down, subs>>, task'[c].out = task[c].out
      PROVE  Tells(c) /\ Hears(c) /\ OneAnswer(c)
  <2>1. Sent(c)' = Sent(c)
    BY <1>4, <1>6 DEF Sent
  <2> QED
    BY <1>4, <1>6, <2>1, SameFresh
<1>7. ASSUME UNCHANGED <<down, subs>>, NEW b, b.is # "Value", task'[c].out = <<b>>, ~Registered(c),
             task[c].out = <<>>
      PROVE  Tells(c) /\ Hears(c) /\ OneAnswer(c) /\ (Registered(c) => Registered(c)')
  <2>1. ToSet(<<b>>) = {b}
    BY DEF ToSet
  <2>2. Sent(c)' \subseteq Sent(c) \cup {b}
    BY <1>4, <1>7, <2>1 DEF Sent
  <2>3. ~subs[c].live
    BY <1>1, <1>7 DEF Works, Registered
  <2> QED
    BY <1>4, <1>7, <2>2, <2>3 DEF Tells, Hears, OneAnswer, Once
<1>8. CASE Accept(c)
  <2>1. task'[c].out = task[c].out /\ UNCHANGED <<down, subs>> /\ ~Registered(c)
    BY <1>1, <1>8 DEF Accept, TaskType, Registered
  <2> QED
    BY <1>6, <2>1
<1>9. CASE TaskReads(c)
  <2>1. PICK r \in Poll(up[c], task[c].filled) :
          \/ /\ r.is = "more"
             /\ task' = [task EXCEPT ![c].filled = r.filled]
             /\ UNCHANGED <<up, down, subs>>
          \/ /\ r.is = "frame"
             /\ task' = [task EXCEPT ![c] = IF r.body = Unknown THEN Tell(@, "Unsupported")
                                            ELSE Handle(@, r.body)]
             /\ up' = [up EXCEPT ![c] = Popped(@)]
             /\ UNCHANGED <<down, subs>>
          \/ /\ r.is \notin {"more", "frame"}
             /\ Leave(c)
             /\ UNCHANGED up
    BY <1>9 DEF TaskReads
  <2>2. Yields(r, up[c], task[c].filled)
    BY <1>1, PollYields
  <2>3. task[c].at = "reading" /\ task[c].out = <<>> /\ task[c].parts = <<>> /\ ~Registered(c)
    BY <1>1, <1>9 DEF TaskReads, Works, Registered
  <2>4. CASE r.is = "more"
    <3>1. task'[c].out = task[c].out /\ UNCHANGED <<down, subs>>
      BY <1>1, <2>1, <2>4 DEF TaskType
    <3> QED
      BY <1>6, <2>3, <3>1
  <2>5. CASE r.is = "frame" /\ r.body = Unknown
    <3>1. PICK t, b : t = Tell(task[c], "Unsupported") /\ b = Failure("Unsupported")
      OBVIOUS
    <3>2. t.out = <<b>> /\ b.is # "Value"
      BY <1>1, <3>1, TellTyped DEF Typed, Failure
    <3>3. task'[c] = t /\ UNCHANGED <<down, subs>>
      BY <1>1, <2>1, <2>5, <3>1
    <3> QED
      BY <1>7, <2>3, <3>2, <3>3
  <2>6. CASE r.is = "frame" /\ r.body # Unknown
    <3>1. r.body = call[c].asked
      BY <1>1, <2>2, <2>6 DEF Yields, Asks
    <3>2. r.body \in Asked /\ r.body.type \in Methods
      BY <1>1, <2>6, <3>1, ScriptAssumption
    <3>3. PICK h : h = Handle(task[c], r.body)
      OBVIOUS
    <3>4. h.out = <<>> \/ h.out = <<Version>>
      BY <1>1, <2>3, <3>2, <3>3, HandleTyped DEF Typed
    <3>5. task'[c] = h /\ UNCHANGED <<down, subs>>
      BY <1>1, <2>1, <2>6, <3>3
    <3>6. CASE h.out = <<>>
      BY <1>6, <2>3, <3>5, <3>6
    <3>7. CASE h.out = <<Version>>
      <4>1. PICK b : b = Version
        OBVIOUS
      <4>2. b.is # "Value"
        BY <4>1 DEF Version
      <4> QED
        BY <1>7, <2>3, <3>5, <3>7, <4>1, <4>2
    <3> QED
      BY <3>4, <3>6, <3>7
  <2>7. CASE r.is \notin {"more", "frame"}
    BY <1>5, <2>1, <2>7
  <2> QED
    BY <2>4, <2>5, <2>6, <2>7
<1>10. CASE Ask(c)
  <2>1. task'[c].out = task[c].out /\ UNCHANGED <<down, subs>> /\ ~Registered(c)
    BY <1>1, <1>10 DEF Ask, TaskType, Registered
  <2> QED
    BY <1>6, <2>1
<1>11. CASE Gone(c)
  <2>1. PICK t, b : t = Tell(task[c], "Internal") /\ b = Failure("Internal")
    OBVIOUS
  <2>2. t.out = <<b>> /\ b.is # "Value"
    BY <1>1, <2>1, TellTyped DEF Typed, Failure
  <2>3. task'[c] = t /\ UNCHANGED <<down, subs>> /\ ~Registered(c) /\ task[c].out = <<>>
    BY <1>1, <1>11, <2>1 DEF Gone, Registered, Works
  <2> QED
    BY <1>7, <2>2, <2>3
<1>12. CASE TaskSent(c)
  <2>1. CASE subs[c].live
    <3>1. task'[c].out = task[c].out /\ UNCHANGED <<down, subs>> /\ task'[c].at = "watching"
      BY <1>1, <1>12, <2>1 DEF TaskSent, TaskType
    <3> QED
      BY <1>6, <3>1 DEF Registered
  <2>2. CASE ~subs[c].live
    BY <1>5, <1>12, <2>2 DEF TaskSent
  <2> QED
    BY <2>1, <2>2
<1>13. CASE Notify(c)
  <2>1. CASE Leave(c)
    BY <1>5, <2>1
  <2>2. CASE ~Leave(c)
    <3>1. /\ task' = [task EXCEPT ![c].at = "sending", ![c].out = subs[c].pending]
          /\ subs' = [subs EXCEPT ![c].pending = <<>>]
          /\ UNCHANGED down /\ task[c].at = "watching"
      BY <1>13, <2>2 DEF Notify
    <3>2. task'[c].out = subs[c].pending /\ task'[c].at = "sending"
      BY <1>1, <3>1 DEF TaskType
    <3>3. subs'[c].pending = <<>> /\ subs'[c].live = subs[c].live
      BY <1>1, <3>1 DEF SubType
    <3>4. task[c].out = <<>> /\ \A b \in ToSet(subs[c].pending) : b.is = "Watch"
      BY <1>1, <3>1 DEF Works
    <3>5. /\ Sent(c)' = ToSet(call[c].got) \cup Bodies(down[c].frames) \cup ToSet(subs[c].pending)
          /\ Sent(c) = ToSet(call[c].got) \cup Bodies(down[c].frames)
      BY <1>4, <3>1, <3>2, <3>4, ToSetEmpty DEF Sent
    <3>6. Events(c)' = Events(c)
      BY <3>3, <3>5, ToSetEmpty DEF Events
    <3> QED
      BY <1>4, <3>2, <3>3, <3>4, <3>5, <3>6 DEF Tells, Hears, OneAnswer, Once, Registered
  <2> QED
    BY <2>1, <2>2
<1>14. CASE HungUp(c)
  BY <1>5, <1>14 DEF HungUp
<1> QED
  BY <1>3, <1>8, <1>9, <1>10, <1>11, <1>12, <1>13, <1>14 DEF Task

\* The answer to a Read is what the handler sends.
LEMMA ReadOut ==
  ASSUME NEW B, NEW E, CallInv(B, E), NEW c \in Conns, task[c].at = "waiting",
         call[c].asked.type = "Read", NEW a, a.is # "Failed", Reply(c, a)
  PROVE  task'[c].out = <<a>>
<1>1. Works(c) /\ task \in [Conns -> TaskType(B)] /\ task[c] \in TaskType(B)
  BY ConnFacts
<1>2. task[c].req = {call[c].asked} /\ task[c].parts = <<>> /\ Len(task[c].trips) = 0
  BY <1>1 DEF Works
<1>3. task[c].trips = <<>>
  <2>1. task[c].trips \in Seq(TripNames)
    BY <1>1 DEF TaskType
  <2> QED
    BY <1>2, <2>1, EmptySeq
<1>4. PICK parts : parts = Append(task[c].parts, a)
  OBVIOUS
<1>5. parts = <<a>>
  <2>1. Append(<<>>, a) = <<a>>
    OBVIOUS
  <2> QED
    BY <1>2, <1>4, <2>1
<1>6. task'[c] = Respond(task[c], parts)
  BY <1>1, <1>3, <1>4 DEF Reply, Takes
<1>7. (CHOOSE x \in task[c].req : TRUE) = call[c].asked
  BY <1>2
<1>8. Respond(task[c], parts) =
        [task[c] EXCEPT !.at = "sending", !.trips = <<>>, !.parts = <<>>, !.out = parts]
  BY <1>7 DEF Respond
<1> QED
  BY <1>1, <1>5, <1>6, <1>8 DEF TaskType

\* A turn, for the connection whose message it takes.
LEMMA TurnFresh ==
  ASSUME NEW B, NEW E, CallInv(B, E), NEW c \in Conns, Turn, c = Head(queue).conn
  PROVE  /\ OneAnswer(c) /\ (Registered(c) => Registered(c)' /\ ~subs'[c].live)
         /\ call[c].asked.type = "Read" =>
              \A b \in Sent(c)' : b.is = "Value" =>
                core' = core /\ b = ValueAt(NewestOf(core).digest, ReadValue(core, call[c].asked))
<1>1. PICK m : m = queue[1]
  OBVIOUS
<1>2. /\ queue # <<>> /\ daemon = "up" /\ queue' = Tail(queue)
      /\ UNCHANGED <<call, up, down, daemon>>
  BY DEF Turn, TurnReads, TurnWrites, TurnCompacts, TurnFails
<1>3. /\ Head(queue) = m /\ c = m.conn /\ m.req = call[c].asked /\ m.trip \in ToSet(Trips(m.req))
      /\ m.req \in Asked /\ m.req.type \in Methods \ {"GetVersion"}
  BY <1>1, <1>2, HeadMsg
<1>4. /\ Works(c) /\ Waits(c) /\ task \in [Conns -> TaskType(B)] /\ subs \in [Conns -> SubType(B)]
      /\ task[c] \in TaskType(B) /\ subs[c] \in SubType(B) /\ Typed(B, E)
  BY ConnFacts
<1>5. Queued(c)
  BY <1>2, TakesStep
<1>6. /\ task[c].at \in {"waiting", "ended"}
      /\ down[c].frames = <<>> /\ call[c].got = <<>> /\ task[c].out = <<>>
  BY <1>4, <1>5 DEF Waits
<1>7. OneAnswer(c)
  BY <1>2 DEF OneAnswer, Once
<1>8. ASSUME NEW a, Reply(c, a), task[c].at # "waiting" PROVE task'[c] = task[c]
  BY <1>4, <1>8 DEF Reply, Takes
<1>9. \E a : Reply(c, a)
  BY SomeReply
<1>10. Registered(c) => Registered(c)' /\ ~subs'[c].live
  <2> SUFFICES ASSUME Registered(c) PROVE Registered(c)' /\ ~subs'[c].live
    OBVIOUS
  <2>1. task[c].at = "ended" /\ ~subs[c].live
    BY <1>4, <1>6 DEF Registered, Works
  <2>2. task'[c] = task[c]
    BY <1>8, <1>9, <2>1
  <2>3. CASE TurnReads
    <3>1. subs' = [subs EXCEPT ![c].live = @ \/ Registers(m)]
      BY <1>3, <2>3 DEF TurnReads
    <3>2. ~Registers(m)
      BY <1>3, <2>1 DEF Registers
    <3> QED
      BY <1>4, <2>1, <2>2, <3>1, <3>2 DEF SubType, Registered
  <2>4. CASE ~TurnReads
    <3>1. UNCHANGED subs \/ subs' = Published(core')
      BY <2>4 DEF Turn, TurnWrites, TurnCompacts, TurnFails, Announces
    <3>2. ~subs'[c].live
      <4>1. subs' = Published(core') => subs'[c] = subs[c]
        BY <2>1 DEF Published, Hearers
      <4> QED
        BY <2>1, <3>1, <4>1
    <3> QED
      BY <2>1, <2>2, <3>2 DEF Registered
  <2> QED
    BY <2>3, <2>4
<1>11. Sent(c)' = ToSet(task'[c].out)
  BY <1>2, <1>6, ToSetEmpty, BodiesEmpty DEF Sent
<1>12. ASSUME call[c].asked.type = "Read", NEW b \in Sent(c)', b.is = "Value"
       PROVE  core' = core /\ b = ValueAt(NewestOf(core).digest, ReadValue(core, call[c].asked))
  <2>1. m.trip = "Read"
    BY <1>3, <1>12, TripsOf
  <2>2. task[c].at = "waiting"
    <3>1. CASE task[c].at # "waiting"
      <4>1. task'[c].out = <<>>
        BY <1>6, <1>8, <1>9, <3>1
      <4> QED
        BY <1>11, <1>12, <4>1, ToSetEmpty
    <3> QED
      BY <3>1
  <2>3. ~TurnWrites /\ ~TurnCompacts
    BY <1>3, <1>12 DEF TurnWrites, TurnCompacts, Writes
  <2>4. CASE TurnReads
    <3>1. PICK a : a = ValueAt(NewestOf(core).digest, ReadValue(core, call[c].asked))
      OBVIOUS
    <3>2. Reads(m) = a /\ core' = core
      BY <1>3, <2>1, <2>4, <3>1 DEF Reads, TurnReads
    <3>3. Reply(c, a)
      BY <1>3, <2>4, <3>2 DEF TurnReads
    <3>4. a.is # "Failed"
      BY <3>1 DEF ValueAt
    <3>5. task'[c].out = <<a>>
      BY <1>12, <2>2, <3>3, <3>4, ReadOut
    <3>6. ToSet(<<a>>) = {a}
      BY DEF ToSet
    <3> QED
      BY <1>11, <1>12, <3>1, <3>2, <3>5, <3>6
  <2>5. CASE TurnFails
    <3>1. PICK a, t : a = Failure("Internal") /\ t = Tell(task[c], "Internal")
      OBVIOUS
    <3>2. Reply(c, a) /\ a.is = "Failed" /\ a.kind = "Internal"
      <4>1. Kinds(m) = {"Internal"}
        BY <2>1 DEF Kinds
      <4>2. \E kind \in Kinds(m) : Reply(c, Failure(kind))
        BY <1>3, <2>5 DEF TurnFails
      <4> QED
        BY <3>1, <4>1, <4>2 DEF Failure
    <3>3. task'[c] = t
      BY <1>4, <2>2, <3>1, <3>2 DEF Reply, Takes
    <3>4. t.out = <<a>>
      BY <1>4, <3>1, TellTyped DEF Typed
    <3>5. ToSet(<<a>>) = {a}
      BY DEF ToSet
    <3> QED
      BY <1>11, <1>12, <3>2, <3>3, <3>4, <3>5
  <2> QED
    BY <2>3, <2>4, <2>5 DEF Turn
<1> QED
  BY <1>7, <1>10, <1>12

\* What a step does to the core of a daemon that stays up: the head stands, or
\* it moves and the movement is published or missed by those it was for.
Stands ==
  NewestOf(core') = NewestOf(core) /\ core'.minted = core.minted /\ missed' = missed
Publishes(m, n, L, e) == Grows(core, core', m, n, L, e) /\ Announces(core')
CoreMoves == daemon = "up" /\ (Stands \/ \E m, n, L, e : Publishes(m, n, L, e))

LEMMA MovesCore ==
  ASSUME NEW B, NEW E, CallInv(B, E), LogOk, StatesOk, daemon = "up", daemon' = daemon,
         NEW back \in Nat, back < Len(core.chain), NEW m, core' = Moved(core, back, m),
         Announces(core')
  PROVE  StatesOk' /\ CoreMoves
<1>1. PICK n, e : n = Len(core.chain) - back /\ e = Minted(core, core.chain[n], m)
  OBVIOUS
<1>2. PICK k, new : k = core /\ new = core'
  OBVIOUS
<1>3. core \in CoreType(E)
  BY EntriesTyped
<1>4. Moves(E, core, back, m, n, e, new)
  BY <1>1, <1>2, <1>3 DEF Moves
<1>5. PICK L : Grows(core, new, m, n, L, e)
  BY <1>4, MovedGrows
<1>6. Distinct(k.chain) /\ Stretches(k.chain)
  BY <1>2 DEF StatesOk, Distinct, Stretches
<1>7. Grows(k, new, m, n, L, e)
  BY <1>2, <1>5
<1>8. Distinct(new.chain) /\ Stretches(new.chain)
  BY <1>6, <1>7, GrownStates
<1>9. StatesOk'
  BY <1>2, <1>8 DEF StatesOk, Distinct, Stretches
<1>10. Publishes(m, n, L, e)
  BY <1>2, <1>5 DEF Publishes
<1> QED
  BY <1>9, <1>10 DEF CoreMoves

LEMMA StatesNext ==
  ASSUME NEW B, NEW E, CallInv(B, E), LogOk, StatesOk, [Next]_vars
  PROVE  StatesOk' /\ (daemon' = "up" => CoreMoves)
<1>0. core \in CoreType(E)
  BY EntriesTyped
<1>1. CASE core' = core /\ missed' = missed /\ (daemon' = "up" => daemon = "up")
  BY <1>1 DEF StatesOk, CoreMoves, Stands
<1>2. CASE daemon' # "up"
  BY <1>2 DEF StatesOk
<1>3. CASE daemon = "up" /\ daemon' = daemon /\ core' = Pruned(core) /\ missed' = missed
  <2>1. PICK k, new : k = core /\ new = core'
    OBVIOUS
  <2>2. Distinct(k.chain) /\ Stretches(k.chain) /\ k \in CoreType(E) /\ new = Pruned(k)
    BY <1>0, <1>3, <2>1 DEF StatesOk, Distinct, Stretches
  <2>3. k.chain # <<>>
    BY <1>3, <2>1 DEF CallInv, Typed
  <2>4. Distinct(new.chain) /\ Stretches(new.chain) /\ NewestOf(new) = NewestOf(k)
    BY <2>2, <2>3, PrunedStates
  <2>5. new.minted = k.minted
    BY <2>2 DEF Pruned, CoreType
  <2> QED
    BY <1>3, <2>1, <2>4, <2>5 DEF StatesOk, Distinct, Stretches, CoreMoves, Stands
<1>5. ASSUME NEW c \in Conns, Client(c) \/ Task(c)
      PROVE  core' = core /\ missed' = missed /\ daemon' = daemon
  BY <1>5 DEF Client, Connect, ConnectCut, ConnectFails, ClientPolls, HangUp, Task, Accept,
     TaskReads, Ask, Gone, TaskWrites, TaskSent, Notify, HungUp
<1>6. CASE Turn
  <2>1. daemon = "up" /\ daemon' = daemon
    BY <1>6 DEF Turn, TurnReads, TurnWrites, TurnCompacts, TurnFails
  <2>2. \/ (core' = core \/ core' = Pruned(core)) /\ missed' = missed
        \/ \E m : core' = Moved(core, 0, m) /\ Announces(core')
    BY <1>6 DEF Turn, TurnReads, TurnWrites, TurnCompacts, TurnFails, Announces
  <2>3. 0 \in Nat /\ 0 < Len(core.chain)
    <3>1. core.chain # <<>> /\ core.chain \in Seq(E)
      BY <1>0, <2>1 DEF CallInv, Typed, CoreType
    <3> QED
      BY <3>1
  <2> QED
    BY <1>1, <1>3, <2>1, <2>2, <2>3, MovesCore
<1>7. CASE PeerInserts
  <2>1. PICK f \in Foreign : /\ f.back < Len(core.chain) /\ core' = Moved(core, f.back, f.msg)
                             /\ Announces(core')
    BY <1>7 DEF PeerInserts
  <2>2. daemon = "up" /\ daemon' = daemon /\ f.back \in Nat
    BY <1>7, ForeignAssumption DEF PeerInserts
  <2> QED
    BY <2>1, <2>2, MovesCore
<1>8. CASE Shutdown
  BY <1>2, <1>8 DEF Shutdown
<1>9. CASE Exit
  BY <1>2, <1>9 DEF Exit
<1>10. CASE UNCHANGED vars
  BY <1>1, <1>10 DEF vars
<1> QED
  BY <1>1, <1>5, <1>6, <1>7, <1>8, <1>9, <1>10 DEF Next

\* What the watch at w has to show for a step: nothing new to the reader at r,
\* a head no earlier answer names, or a movement it missed since them all.
Shows(w, r) ==
  Listens(w, r)' =>
    /\ subs[w].live /\ call[w].at = "open"
    /\ \/ /\ Events(w) \subseteq Events(w)' /\ missed'[w] = missed[w]
          /\ ReadValue(core', call[r].asked) = ReadValue(core, call[r].asked)
       \/ \E e \in Events(w)' : e.head = core.minted + 1
       \/ missed'[w] = core.minted + 1

LEMMA FreshStep ==
  ASSUME NEW w \in Conns, NEW r \in Conns, FreshOk(w, r), Tells(r), Shows(w, r),
         call'[w].asked = call[w].asked, call'[r].asked = call[r].asked,
         seen'[r].beside = seen[r].beside, Registered(w) => Registered(w)',
         core.minted \in Nat, core'.minted \in Nat,
         daemon' = "up" => daemon = "up" /\ core.minted <= core'.minted
  PROVE  FreshOk(w, r)'
<1>1. w \in seen'[r].beside => Registered(w)'
  BY DEF FreshOk
<1>2. ASSUME daemon' = "up", call'[r].asked.type = "Read", NEW b \in Sent(r)', b.is = "Value"
      PROVE  /\ b.head \in Nat /\ b.head <= core'.minted
             /\ Listens(w, r)' => \/ ReadValue(core', call[r].asked) = b.value
                                  \/ \E e \in Events(w)' : e.head # b.head
                                  \/ missed'[w] > b.head
  <2>1. PICK x, y, h : x = core.minted /\ y = core'.minted /\ h = b.head
    OBVIOUS
  <2>2. b \in Sent(r)
    BY <1>2 DEF Tells
  <2>3. /\ h \in Nat /\ h <= x
        /\ Listens(w, r) => \/ ReadValue(core, call[r].asked) = b.value
                            \/ \E e \in Events(w) : e.head # h
                            \/ missed[w] > h
    BY <1>2, <2>1, <2>2 DEF FreshOk
  <2>4. x \in Nat /\ y \in Nat /\ x <= y
    BY <1>2, <2>1
  <2>5. h <= y /\ x + 1 # h /\ x + 1 > h
    BY ONLY <2>3, <2>4
  <2>6. ASSUME Listens(w, r)'
        PROVE  \/ ReadValue(core', call[r].asked) = b.value
               \/ \E e \in Events(w)' : e.head # h
               \/ missed'[w] > h
    <3>1. Listens(w, r)
      BY <1>2, <2>6 DEF Listens, Follows, Shows
    <3>2. \/ /\ Events(w) \subseteq Events(w)' /\ missed'[w] = missed[w]
             /\ ReadValue(core', call[r].asked) = ReadValue(core, call[r].asked)
          \/ \E e \in Events(w)' : e.head = x + 1
          \/ missed'[w] = x + 1
      BY <2>1, <2>6 DEF Shows
    <3> QED
      BY <2>3, <2>5, <3>1, <3>2
  <2> QED
    BY <2>1, <2>3, <2>5, <2>6
<1> QED
  BY <1>1, <1>2 DEF FreshOk

\* The head stands: what the watch holds is what it held.
LEMMA StandsShows ==
  ASSUME NEW w \in Conns, NEW r \in Conns, Stands, Hears(w)
  PROVE  Shows(w, r)
<1>1. ReadValue(core', call[r].asked) = ReadValue(core, call[r].asked)
  BY DEF ReadValue, Stands
<1> QED
  BY <1>1 DEF Shows, Listens, Hears, Stands

\* The head moves: a watch that follows the reader is told or misses it, or the
\* value is the same.
LEMMA PublishShows ==
  ASSUME NEW B, NEW E, CallInv(B, E), NEW w \in Conns, NEW r \in Conns, StatesOk, daemon = "up",
         NEW m, NEW n, NEW L, NEW e, Publishes(m, n, L, e), Still(w),
         call'[r].asked = call[r].asked
  PROVE  Shows(w, r)
<1>1. SUFFICES ASSUME Listens(w, r)' PROVE Shows(w, r)
  BY DEF Shows
<1>2. PICK k, new, q, p : k = core /\ new = core' /\ q = call[r].asked /\ p = call[w].asked
  OBVIOUS
<1>3. subs[w].live /\ call[w].at = "open"
  BY <1>1 DEF Listens, Still
<1>4. Works(w) /\ subs[w] \in SubType(B)
  BY ConnFacts
<1>5. task[w].req = {p}
  BY <1>2, <1>3, <1>4 DEF Works
<1>6. Sent(w)' = Sent(w)
  BY DEF Still, Sent
<1>7. p.select = "Head" \/ (p.select = "Namespace" /\ p.key = q.key)
  BY <1>1, <1>2 DEF Listens, Follows, Still
<1>8. Grows(k, new, m, n, L, e) /\ Announces(new)
  BY <1>2 DEF Publishes
<1>9. NewestOf(new).digest = k.minted + 1
  BY <1>8 DEF Grows
<1>10. w \in Hearers(new) <=> Selects(p, k, new)
  BY <1>2, <1>3, <1>5 DEF Hearers
<1>11. CASE Selects(p, k, new) /\ subs' = subs /\ subs' # Published(new)
  <2>1. missed'[w] = new.minted
    BY <1>8, <1>10, <1>11 DEF Announces
  <2>2. new.minted = k.minted + 1
    BY <1>8 DEF Grows
  <2> QED
    BY <1>2, <1>3, <2>1, <2>2 DEF Shows
<1>12. CASE Selects(p, k, new) /\ subs' = Published(new)
  <2>1. PICK b : \E x : b = Changed(x, NewestOf(new).digest) /\ subs'[w] = [subs[w] EXCEPT !.pending = <<b>>]
    <3>1. subs'[w] = Push(subs[w], NewestOf(core).digest, NewestOf(new).digest)
      BY <1>2, <1>10, <1>12 DEF Published
    <3> QED
      BY <3>1 DEF Push
  <2>2. b.head = k.minted + 1
    BY <1>9, <2>1 DEF Changed
  <2>3. subs'[w].pending = <<b>>
    BY <1>4, <2>1 DEF SubType
  <2>4. b \in Events(w)'
    BY <2>3 DEF Events, ToSet
  <2> QED
    BY <1>2, <1>3, <2>2, <2>4 DEF Shows
<1>13. CASE ~Selects(p, k, new)
  <2>1. subs'[w] = subs[w] /\ missed'[w] = missed[w]
    BY <1>8, <1>10, <1>13 DEF Published, Announces
  <2>2. Events(w)' = Events(w)
    BY <1>6, <2>1 DEF Events
  <2>3. q.key \notin Touched(k, new)
    BY <1>7, <1>13 DEF Selects
  <2>4. Distinct(k.chain) /\ Stretches(k.chain)
    BY <1>2 DEF StatesOk, Distinct, Stretches
  <2>5. ReadValue(new, q) = ReadValue(k, q)
    BY <1>8, <2>3, <2>4, GrownValue
  <2> QED
    BY <1>2, <1>3, <2>1, <2>2, <2>5 DEF Shows
<1> QED
  BY <1>8, <1>11, <1>12, <1>13 DEF Announces

LEMMA StillFresh ==
  ASSUME NEW x \in Conns, Still(x)
  PROVE  Tells(x) /\ (subs'[x] = subs[x] => Hears(x)) /\ (Registered(x) => Registered(x)')
<1>1. Sent(x)' = Sent(x)
  BY DEF Still, Sent
<1>2. subs'[x] = subs[x] => Events(x)' = Events(x)
  BY <1>1 DEF Events
<1> QED
  BY <1>1, <1>2 DEF Tells, Hears, Registered, Still

\* A client's step, or a handler's, for a reader and a watch.
LEMMA LocalFresh ==
  ASSUME NEW B, NEW E, CallInv(B, E), NEW c \in Conns, Client(c) \/ Task(c), NEW x \in Conns
  PROVE  /\ Tells(x) /\ Hears(x) /\ (Registered(x) => Registered(x)')
         /\ seen'[x].beside = seen[x].beside /\ Stands /\ daemon' = daemon
<1>1. seen \in [Conns -> SeenType(B)]
  BY ConnFacts
<1>2. core' = core /\ missed' = missed /\ daemon' = daemon
  BY DEF Client, Connect, ConnectCut, ConnectFails, ClientPolls, HangUp, Task, Accept,
     TaskReads, Ask, Gone, TaskWrites, TaskSent, Notify, HungUp
<1>3. seen'[x].beside = seen[x].beside
  <2>1. CASE TaskWrites(c)
    BY <1>1, <2>1 DEF TaskWrites, SeenType
  <2>2. CASE ~TaskWrites(c)
    BY <2>2 DEF Client, Connect, ConnectCut, ConnectFails, ClientPolls, HangUp, Task, Accept,
       TaskReads, Ask, Gone, TaskSent, Notify, HungUp
  <2> QED
    BY <2>1, <2>2
<1>4. Tells(x) /\ Hears(x) /\ (Registered(x) => Registered(x)')
  <2>1. CASE x = c /\ Client(c)
    <3>1. task' = task
      BY <2>1 DEF Client, Connect, ConnectCut, ConnectFails, ClientPolls, HangUp
    <3> QED
      BY <2>1, <3>1, ClientFresh DEF Registered
  <2>2. CASE x = c /\ Task(c)
    BY <2>2, TaskFresh
  <2>3. CASE x # c /\ Client(c)
    BY <2>3, ClientElsewhere, StillFresh
  <2>4. CASE x # c /\ Task(c)
    <3>1. Still(x)
      BY <2>4, TaskElsewhere
    <3>2. subs'[x] = subs[x]
      <4>1. subs \in [Conns -> SubType(B)]
        BY ConnFacts
      <4>2. Leave(c) => subs'[x] = subs[x]
        BY <2>4, <4>1 DEF Leave
      <4> QED
        BY <2>4, <4>1, <4>2 DEF Task, Accept, TaskReads, Ask, Gone, TaskWrites, TaskSent,
           Notify, HungUp
    <3> QED
      BY <3>1, <3>2, StillFresh
  <2> QED
    BY <2>1, <2>2, <2>3, <2>4
<1> QED
  BY <1>2, <1>3, <1>4 DEF Stands

\* The turn that answers the reader at r.
LEMMA ReaderFresh ==
  ASSUME NEW B, NEW E, CallInv(B, E), LogOk, Turn, NEW w \in Conns, NEW r \in Conns,
         r = Head(queue).conn, FreshOk(w, r)
  PROVE  FreshOk(w, r)'
<1>1. daemon = "up" /\ daemon' = daemon /\ call' = call
  BY DEF Turn, TurnReads, TurnWrites, TurnCompacts, TurnFails
<1>2. Registered(w) => Registered(w)'
  <2>1. CASE w = r
    BY <2>1, TurnFresh
  <2>2. CASE w # r
    BY <2>2, TurnElsewhere, StillFresh
  <2> QED
    BY <2>1, <2>2
<1>3. seen'[r].beside = seen[r].beside \/ seen'[r].beside = {c \in Conns : subs[c].live}
  <2>1. seen \in [Conns -> SeenType(B)]
    BY ConnFacts
  <2>2. CASE TurnReads
    <3>1. PICK m, F, h : m = Head(queue) /\ F = Reads(m).frames /\ h = NewestOf(core).digest
      OBVIOUS
    <3>2. seen' = [seen EXCEPT
             ![r].beside = IF m.trip = "Read" THEN {c \in Conns : subs[c].live} ELSE @,
             ![r].picked = IF m.trip = "GetEnvelopes" THEN F ELSE @,
             ![r].head = h]
      BY <2>2, <3>1 DEF TurnReads
    <3>3. PICK l : l = {c \in Conns : subs[c].live}
      OBVIOUS
    <3>4. CASE m.trip = "Read"
      <4>1. seen' = [seen EXCEPT ![r].beside = l, ![r].picked = @, ![r].head = h]
        BY <3>2, <3>3, <3>4
      <4>2. seen'[r].beside = l
        BY <2>1, <4>1 DEF SeenType
      <4> QED
        BY <3>3, <4>2
    <3>5. CASE m.trip # "Read"
      <4>1. PICK p : p = IF m.trip = "GetEnvelopes" THEN F ELSE seen[r].picked
        OBVIOUS
      <4>2. seen' = [seen EXCEPT ![r].beside = @, ![r].picked = p, ![r].head = h]
        BY <2>1, <3>2, <3>5, <4>1
      <4>3. seen'[r].beside = seen[r].beside
        BY <2>1, <4>2 DEF SeenType
      <4> QED
        BY <4>3
    <3> QED
      BY <3>4, <3>5
  <2>3. CASE ~TurnReads
    <3>1. UNCHANGED seen \/ \E v : seen' = [seen EXCEPT ![r].wrote = v]
      BY <2>3 DEF Turn, TurnWrites, TurnCompacts, TurnFails
    <3> QED
      BY <2>1, <3>1 DEF SeenType
  <2> QED
    BY <2>2, <2>3
<1>4. w \in seen'[r].beside => Registered(w)'
  <2>1. Works(w)
    BY ConnFacts
  <2>2. subs[w].live => Registered(w)
    BY <2>1 DEF Works, Registered
  <2> QED
    BY <1>2, <1>3, <2>2 DEF FreshOk
<1>5. ASSUME call[r].asked.type = "Read", NEW b \in Sent(r)', b.is = "Value"
      PROVE  /\ b.head \in Nat /\ b.head <= core'.minted
             /\ ReadValue(core', call[r].asked) = b.value
  <2>1. PICK h, v : h = NewestOf(core).digest /\ v = ReadValue(core, call[r].asked)
    OBVIOUS
  <2>2. core' = core /\ b = ValueAt(h, v)
    BY <1>5, <2>1, TurnFresh
  <2>3. h \in Nat /\ h <= core.minted
    <3>1. /\ core.chain \in Seq(E) /\ \A e \in Entries : e.digest \in Nat
          /\ \A i \in DOMAIN core.chain : core.chain[i] \in Entries
      BY EntriesTyped
    <3>2. core.chain # <<>>
      BY <1>1 DEF CallInv, Typed
    <3>3. Len(core.chain) \in DOMAIN core.chain
      BY <3>1, <3>2
    <3>4. NewestOf(core) \in Entries
      BY <3>1, <3>3 DEF NewestOf, Last
    <3> QED
      BY <1>1, <2>1, <3>1, <3>4 DEF LogOk
  <2> QED
    BY <2>1, <2>2, <2>3 DEF ValueAt
<1> QED
  BY <1>1, <1>4, <1>5 DEF FreshOk

LEMMA FreshNext ==
  ASSUME NEW B, NEW E, CallInv(B, E), LogOk, StatesOk, [Next]_vars, NEW w \in Conns,
         NEW r \in Conns, FreshOk(w, r)
  PROVE  FreshOk(w, r)'
<1>1. call'[w].asked = call[w].asked /\ call'[r].asked = call[r].asked
  BY AskedStands
<1>2. core.minted \in Nat /\ core'.minted \in Nat
  <2>1. PICK B2, E2 : CallInv(B2, E2)'
    BY CallNext
  <2>2. core' \in CoreType(E2)
    BY <2>1 DEF CallInv, Typed
  <2> QED
    BY <2>2, EntriesTyped DEF CoreType
<1>3. daemon' = "up" => daemon = "up" /\ core.minted <= core'.minted
  BY LogNext DEF Advances
<1>4. daemon' = "up" => CoreMoves
  BY StatesNext
<1>5. ASSUME Tells(r), Shows(w, r), seen'[r].beside = seen[r].beside,
             Registered(w) => Registered(w)'
      PROVE  FreshOk(w, r)'
  BY <1>1, <1>2, <1>3, <1>5, FreshStep
<1>6. ASSUME NEW c \in Conns, Client(c) \/ Task(c) PROVE FreshOk(w, r)'
  <2>1. Tells(r) /\ Hears(w) /\ Stands /\ seen'[r].beside = seen[r].beside
    BY <1>6, LocalFresh
  <2>2. Registered(w) => Registered(w)'
    BY <1>6, LocalFresh
  <2> QED
    BY <1>5, <2>1, <2>2, StandsShows
<1>7. ASSUME Still(w), daemon' = "up", Stands => subs'[w] = subs[w] \/ ~subs'[w].live
      PROVE  Shows(w, r)
  <2>1. daemon = "up"
    BY <1>3, <1>7
  <2>2. CASE Stands
    <3>1. CASE subs'[w] = subs[w]
      BY <1>7, <2>2, <3>1, StillFresh, StandsShows
    <3>2. CASE ~subs'[w].live
      BY <3>2 DEF Shows, Listens
    <3> QED
      BY <1>7, <2>2, <3>1, <3>2
  <2>3. CASE \E m, n, L, e : Publishes(m, n, L, e)
    <3>1. PICK m, n, L, e : Publishes(m, n, L, e)
      BY <2>3
    <3> QED
      BY <1>1, <1>7, <2>1, <3>1, PublishShows
  <2> QED
    BY <1>4, <1>7, <2>2, <2>3 DEF CoreMoves
<1>8. CASE Turn
  <2>1. CASE r = Head(queue).conn
    BY <1>8, <2>1, ReaderFresh
  <2>2. CASE r # Head(queue).conn
    <3>1. Still(r) /\ daemon' = daemon
      BY <1>8, <2>2, TurnElsewhere
    <3>2. Tells(r) /\ seen'[r].beside = seen[r].beside
      BY <3>1, StillFresh DEF Still
    <3>3. daemon = "up"
      BY <1>8 DEF Turn, TurnReads, TurnWrites, TurnCompacts, TurnFails
    <3>4. CASE w = Head(queue).conn
      <4>1. Registered(w) => Registered(w)' /\ ~subs'[w].live
        BY <1>8, <3>4, TurnFresh
      <4>2. Shows(w, r)
        BY <3>2, <4>1 DEF Shows, Listens, FreshOk
      <4> QED
        BY <1>5, <3>2, <4>1, <4>2
    <3>5. CASE w # Head(queue).conn
      <4>1. Still(w)
        BY <1>8, <3>5, TurnElsewhere
      <4>2. Shows(w, r)
        <5>1. \/ subs' = Published(core') /\ \E m : core' = Moved(core, 0, m)
              \/ UNCHANGED subs
              \/ \E c \in Conns \ {w} : \E v : subs' = [subs EXCEPT ![c].live = v]
          <6>1. PICK c : c = Head(queue).conn
            OBVIOUS
          <6>2. c \in Conns
            BY <1>8, <6>1, HeadMsg DEF Turn, TurnReads, TurnWrites, TurnCompacts, TurnFails
          <6> QED
            BY <1>8, <3>5, <6>1, <6>2
            DEF Turn, TurnReads, TurnWrites, TurnCompacts, TurnFails, Announces
        <5>2. CASE subs' = Published(core') /\ \E m : core' = Moved(core, 0, m)
          <6>1. PICK m : core' = Moved(core, 0, m)
            BY <5>2
          <6>2. core'.minted = core.minted + 1
            BY <6>1 DEF Moved
          <6>3. ~Stands
            BY <1>2, <6>2 DEF Stands
          <6> QED
            BY <1>7, <3>1, <3>3, <4>1, <6>3
        <5>3. CASE UNCHANGED subs
          BY <1>7, <3>1, <3>3, <4>1, <5>3
        <5>4. CASE \E c \in Conns \ {w} : \E v : subs' = [subs EXCEPT ![c].live = v]
          <6>1. subs \in [Conns -> SubType(B)]
            BY ConnFacts
          <6>2. subs'[w] = subs[w]
            BY <5>4, <6>1
          <6> QED
            BY <1>7, <3>1, <3>3, <4>1, <6>2
        <5> QED
          BY <5>1, <5>2, <5>3, <5>4
      <4> QED
        BY <1>5, <3>2, <4>1, <4>2, StillFresh
    <3> QED
      BY <3>4, <3>5
  <2> QED
    BY <2>1, <2>2
<1>9. CASE PeerInserts
  <2>1. Still(w) /\ Still(r) /\ daemon' = daemon /\ seen' = seen /\ daemon = "up"
    BY <1>9, PeerElsewhere DEF PeerInserts
  <2>2. PICK back, m : core' = Moved(core, back, m)
    BY <1>9 DEF PeerInserts
  <2>3. core'.minted = core.minted + 1
    BY <2>2 DEF Moved
  <2>4. ~Stands
    BY <1>2, <2>3 DEF Stands
  <2>5. Shows(w, r)
    BY <1>7, <2>1, <2>4
  <2> QED
    BY <1>5, <2>1, <2>5, StillFresh
<1>10. CASE Shutdown
  <2>1. daemon' # "up" /\ UNCHANGED <<task, seen>>
    BY <1>10 DEF Shutdown
  <2> QED
    BY <2>1 DEF FreshOk, Registered
<1>11. CASE Exit
  <2>1. daemon' # "up" /\ seen' = seen /\ task' = [c \in Conns |-> [NoTask EXCEPT !.at = "ended"]]
    BY <1>11 DEF Exit
  <2>2. task'[w].at = "ended"
    BY <2>1 DEF NoTask
  <2> QED
    BY <2>1, <2>2 DEF FreshOk, Registered
<1>12. CASE UNCHANGED vars
  <2>1. Sent(r)' = Sent(r) /\ Sent(w)' = Sent(w)
    BY <1>12 DEF vars, Sent
  <2>2. Events(w)' = Events(w)
    BY <1>12, <2>1 DEF vars, Events
  <2> QED
    BY <1>12, <2>1, <2>2 DEF vars, FreshOk, Registered, Listens, Follows
<1> QED
  BY <1>6, <1>8, <1>9, <1>10, <1>11, <1>12 DEF Next

LEMMA OnceNext ==
  ASSUME NEW B, NEW E, CallInv(B, E), [Next]_vars, NEW x \in Conns, Once(x)
  PROVE  Once(x)'
<1>1. ASSUME NEW c \in Conns, Client(c) PROVE Once(x)'
  <2>1. CASE x = c
    BY <1>1, <2>1, ClientFresh DEF OneAnswer
  <2>2. CASE x # c
    <3>1. Still(x)
      BY <1>1, <2>2, ClientElsewhere
    <3> QED
      BY <3>1 DEF Still, Once
  <2> QED
    BY <2>1, <2>2
<1>2. ASSUME call' = call PROVE Once(x)'
  BY <1>2 DEF Once
<1>3. ASSUME NEW c \in Conns, Task(c) PROVE call' = call
  BY <1>3 DEF Task, Accept, TaskReads, Ask, Gone, TaskWrites, TaskSent, Notify, HungUp
<1>4. CASE Turn
  <2>1. call' = call
    BY <1>4 DEF Turn, TurnReads, TurnWrites, TurnCompacts, TurnFails
  <2> QED
    BY <1>2, <2>1
<1>5. CASE PeerInserts \/ Shutdown \/ Exit \/ UNCHANGED vars
  <2>1. call' = call
    BY <1>5 DEF PeerInserts, Shutdown, Exit, vars
  <2> QED
    BY <1>2, <2>1
<1> QED
  BY <1>1, <1>2, <1>3, <1>4, <1>5 DEF Next

-----------------------------------------------------------------------------
(* What a watch has shown, for the whole behaviour.                        *)

WatchesOk ==
  /\ CallsOk /\ LogOk /\ StatesOk /\ \A c \in Conns : Once(c)
  /\ \A w, r \in Conns : FreshOk(w, r)

LEMMA WatchesInit == ASSUME Init PROVE WatchesOk
<1>1. CallsOk
  BY CallInit DEF CallsOk
<1>2. PICK k : k = core
  OBVIOUS
<1>3. k.chain = <<Genesis>> /\ k.orphans = <<>> /\ k.minted = Genesis.digest
  BY <1>2 DEF Init
<1>4. Len(k.chain) = 1 /\ DOMAIN k.chain = {1} /\ \A e \in ToSet(k.chain) : e = Genesis
  BY <1>3 DEF ToSet
<1>5. LogOk
  <2>1. \A e \in Entries : e = Genesis
    BY <1>2, <1>3, <1>4, ToSetEmpty DEF Entries
  <2>2. Genesis.digest <= Genesis.digest /\ 2 .. 1 = {}
    BY GenesisAssumption
  <2> QED
    BY ONLY <1>2, <1>3, <1>4, <2>1, <2>2 DEF LogOk
<1>6. StatesOk
  <2>1. 1 .. 1 = {1}
    OBVIOUS
  <2> QED
    BY <1>2, <1>4, <2>1 DEF StatesOk, SameAt
<1>7. ASSUME NEW c \in Conns
      PROVE  call[c].got = <<>> /\ down[c].frames = <<>> /\ task[c].out = <<>>
  <2>1. call[c].got = <<>>
    <3>1. PICK asked \in Scripts :
            call = [x \in Conns |-> [at |-> "idle", asked |-> asked[x], filled |-> 0,
                                     got |-> <<>>, end |-> ""]]
      BY DEF Init
    <3> QED
      BY <3>1
  <2>2. down[c].frames = <<>>
    BY DEF Init
  <2>3. task[c].out = <<>>
    BY DEF Init, NoTask
  <2> QED
    BY <2>1, <2>2, <2>3
<1>8. \A c \in Conns : Once(c)
  BY <1>7, EmptyFacts DEF Once
<1>9. ASSUME NEW w \in Conns, NEW r \in Conns PROVE FreshOk(w, r)
  <2>1. Sent(r) = {}
    BY <1>7, ToSetEmpty, BodiesEmpty DEF Sent
  <2>2. w \notin seen[r].beside
    BY DEF Init
  <2> QED
    BY <2>1, <2>2 DEF FreshOk
<1> QED
  BY <1>1, <1>5, <1>6, <1>8, <1>9 DEF WatchesOk

LEMMA WatchesInvariant == Spec => []WatchesOk
<1>1. Init => WatchesOk
  BY WatchesInit
<1>2. WatchesOk /\ [Next]_vars => WatchesOk'
  <2> SUFFICES ASSUME WatchesOk, [Next]_vars PROVE WatchesOk'
    OBVIOUS
  <2>1. PICK B, E : CallInv(B, E)
    BY DEF WatchesOk, CallsOk
  <2>2. CallsOk'
    BY <2>1, CallNext DEF CallsOk
  <2>3. LogOk'
    BY <2>1, LogNext DEF WatchesOk
  <2>4. StatesOk'
    BY <2>1, StatesNext DEF WatchesOk
  <2>5. \A c \in Conns : Once(c)'
    BY <2>1, OnceNext DEF WatchesOk
  <2>6. \A w, r \in Conns : FreshOk(w, r)'
    BY <2>1, FreshNext DEF WatchesOk
  <2> QED
    BY <2>2, <2>3, <2>4, <2>5, <2>6 DEF WatchesOk
<1> QED
  BY <1>1, <1>2, PTL DEF Spec

\* WatchedIsFresh: a program that reads while its watch is registered, and is
\* told of no head but the one it read at, holds the value of the head unless
\* the store failed since under a movement that was for the watch, for every number of readers, watches, writers and peers and every chain
\* (lotus_sdk's crate docs, Core::insert's publish, Core::read).
THEOREM WatchesMissNothing == Spec => []WatchedIsFresh
<1>1. WatchesOk => WatchedIsFresh
  <2> SUFFICES ASSUME WatchesOk, NEW w \in Conns, NEW r \in Conns,
                      call[w].asked.type = "Watch", Quiet(w),
                      call[r].asked.type = "Read", call[r].end = "Ok", w \in seen[r].beside,
                      \/ call[w].asked.select = "Head"
                      \/ /\ call[w].asked.select = "Namespace"
                         /\ call[w].asked.key = call[r].asked.key,
                      \A i \in DOMAIN call[w].got : call[w].got[i].head = call[r].got[1].head,
                      ~Overlooked(w, r)
               PROVE  ReadValue(core, call[r].asked) = call[r].got[1].value
    BY DEF WatchedIsFresh
  <2>1. PICK B, E : CallInv(B, E)
    BY DEF WatchesOk, CallsOk
  <2>2. PICK G : G = call[r].got
    OBVIOUS
  <2>3. G[1] \in Sent(r) /\ G[1].is = "Value"
    <3>1. Wrote(r) /\ G \in Seq(B) /\ call[r].asked \in Asked
      BY <2>1, <2>2, ConnFacts
    <3>2. Variant(call[r].asked) = "Value"
      BY <3>1, VariantOf DEF Methods
    <3>3. G # <<>> /\ Last(G).is = "Value"
      BY <2>2, <3>1, <3>2 DEF Wrote
    <3>4. Len(G) <= 1
      <4>1. Once(r)
        BY DEF WatchesOk
      <4> QED
        BY <2>2, <4>1 DEF Once, Many
    <3>5. Len(G) = 1 /\ 1 \in DOMAIN G
      <4>1. PICK n \in Nat : n = Len(G) /\ DOMAIN G = 1 .. n
        BY <3>1
      <4>2. n # 0
        BY <3>1, <3>3, <4>1
      <4> QED
        BY <3>4, <4>1, <4>2
    <3> QED
      BY <2>2, <3>3, <3>5 DEF Last, Sent, ToSet
  <2>4. daemon = "up" /\ call[w].at = "open" /\ task[w].at = "watching"
        /\ subs[w].pending = <<>> /\ down[w].frames = <<>>
    BY DEF Quiet
  <2>5. subs[w].live /\ task[w].out = <<>>
    <3>1. Works(w)
      BY <2>1, ConnFacts
    <3> QED
      BY <2>4, <3>1 DEF Works
  <2>6. Events(w) = ToSet(call[w].got)
    BY <2>4, <2>5, ToSetEmpty, BodiesEmpty DEF Events, Sent
  <2>7. \A e \in Events(w) : e.head = G[1].head
    BY <2>2, <2>6 DEF ToSet
  <2>8. Listens(w, r)
    BY <2>4, <2>5 DEF Listens, Follows
  <2>9. FreshOk(w, r)
    BY DEF WatchesOk
  <2> QED
    BY <2>2, <2>3, <2>4, <2>7, <2>8, <2>9 DEF FreshOk, Overlooked
<1> QED
  BY <1>1, WatchesInvariant, PTL
=============================================================================

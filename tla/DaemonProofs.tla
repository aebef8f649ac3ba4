---------------------------- MODULE DaemonProofs ----------------------------
(***************************************************************************)
(* Theorems about the daemon's mainloop and what hangs off it: what a      *)
(* subscription has not been shown yet, what an orphaned envelope's author *)
(* is told, and what the ticket on the chain says of this node.            *)
(***************************************************************************)
EXTENDS Daemon, FiniteSetTheorems, SequenceTheorems, WellFoundedInduction,
        NaturalsInduction, TLAPS

-----------------------------------------------------------------------------
(* Induction over data.                                                    *)

\* A set of naturals closed under successor holds them all.
LEMMA NatInd ==
  ASSUME NEW S, 0 \in S, \A n \in Nat : n \in S => n + 1 \in S
  PROVE  Nat \subseteq S
<1> SUFFICES ASSUME ~ (Nat \subseteq S) PROVE FALSE
  OBVIOUS
<1> DEFINE T == Nat \ S
           R == OpToRel(<, Nat)
<1>1. T \subseteq Nat /\ T # {}
  OBVIOUS
<1>2. IsWellFoundedOn(R, Nat)
  BY NatLessThanWellFounded
<1>3. PICK d \in T : \A y \in T : ~ (<<y, d>> \in R)
  <2> HIDE DEF T, R
  <2> QED
    BY <1>1, <1>2, WFMin
<1>4. d \in Nat /\ d # 0
  OBVIOUS
<1>5. d - 1 \in Nat /\ d - 1 < d /\ (d - 1) + 1 = d
  BY <1>4
<1>6. <<d - 1, d>> \in R
  BY <1>4, <1>5 DEF OpToRel
<1>7. d - 1 \in S
  BY <1>3, <1>5, <1>6
<1>8. d \in S
  BY <1>5, <1>7
<1> QED
  BY <1>8

\* The element a fold takes of a set, and what it leaves.
Pick(s) == CHOOSE x \in s : TRUE
Less(s) == s \ {Pick(s)}

\* A finite set is reached from the empty one, an element at a time.
LEMMA LessSmaller ==
  ASSUME NEW s, IsFiniteSet(s), s # {}
  PROVE  /\ Pick(s) \in s /\ IsFiniteSet(Less(s)) /\ Cardinality(s) \in Nat
         /\ Cardinality(Less(s)) = Cardinality(s) - 1 /\ Cardinality(s) # 0
<1>1. Pick(s) \in s
  BY DEF Pick
<1> QED
  BY <1>1, FS_RemoveElement, FS_CardinalityType, FS_EmptySet DEF Less

\* So what holds of {} and is kept by adding back the picked element holds of all.
LEMMA SetInd ==
  ASSUME NEW S, IsFiniteSet(S), NEW C, {} \in C,
         \A s \in SUBSET S : (s # {} /\ Less(s) \in C) => s \in C
  PROVE  \A s \in SUBSET S : s \in C
<1> DEFINE N == {n \in Nat : \A s \in SUBSET S : Cardinality(s) = n => s \in C}
<1>1. \A s \in SUBSET S : IsFiniteSet(s) /\ Cardinality(s) \in Nat
  BY FS_Subset, FS_CardinalityType
<1>2. 0 \in N
  BY <1>1, FS_EmptySet
<1>3. ASSUME NEW n \in Nat, n \in N PROVE n + 1 \in N
  <2> SUFFICES ASSUME NEW s \in SUBSET S, Cardinality(s) = n + 1 PROVE s \in C
    OBVIOUS
  <2>1. s # {}
    BY FS_EmptySet
  <2>2. Less(s) \in SUBSET S
    BY DEF Less
  <2>3. Cardinality(Less(s)) = n
    BY <1>1, <2>1, LessSmaller
  <2> QED
    BY <1>3, <2>1, <2>2, <2>3
<1>4. Nat \subseteq N
  <2> HIDE DEF N
  <2> QED
    BY <1>2, <1>3, NatInd
<1> QED
  BY <1>1, <1>4

-----------------------------------------------------------------------------
(* Change sets.                                                            *)

\* f is the fold of TouchAll over the sets of D.
Folds(f, D, cs) ==
  \A s \in D : f[s] = IF s = {} THEN cs ELSE Touch(f[Less(s)], Pick(s)[1], Pick(s)[2])

\* TouchAll's own equation, as a function of f.
Unfolded(f, S, cs) ==
  [s \in SUBSET S |-> IF s = {} THEN cs ELSE Touch(f[Less(s)], Pick(s)[1], Pick(s)[2])]

\* The equation has a solution, so that TouchAll is one.
LEMMA FoldExists ==
  ASSUME NEW S, IsFiniteSet(S), NEW cs
  PROVE  \E f : f = Unfolded(f, S, cs)
<1> DEFINE D(n) == {s \in SUBSET S : Cardinality(s) <= n}
           N == {n \in Nat : \E f : f = [s \in D(n) |-> f[s]] /\ Folds(f, D(n), cs)}
<1>1. \A s \in SUBSET S : IsFiniteSet(s) /\ Cardinality(s) \in Nat
  BY FS_Subset, FS_CardinalityType
<1>2. ASSUME NEW n \in Nat, NEW s \in D(n), s # {}
      PROVE  Less(s) \in D(n) /\ (n # 0 => Less(s) \in D(n - 1))
  <2>1. Less(s) \in SUBSET S
    BY DEF Less
  <2>2. PICK a, b : a = Cardinality(s) /\ b = Cardinality(Less(s))
    OBVIOUS
  <2>3. a \in Nat /\ b = a - 1 /\ a <= n
    BY <1>1, <1>2, <2>2, LessSmaller
  <2>4. b <= n /\ (n # 0 => b <= n - 1)
    BY <2>3
  <2> QED
    BY <2>1, <2>2, <2>4
<1>3. 0 \in N
  <2> DEFINE f == [s \in D(0) |-> cs]
  <2>1. \A s \in D(0) : s = {}
    <3> SUFFICES ASSUME NEW s \in D(0), s # {} PROVE FALSE
      OBVIOUS
    <3>1. Cardinality(s) # 0 /\ Cardinality(s) \in Nat
      BY <1>1, LessSmaller
    <3> QED
      BY <3>1
  <2>2. f = [s \in D(0) |-> f[s]] /\ Folds(f, D(0), cs)
    BY <2>1 DEF Folds
  <2> HIDE DEF f
  <2> QED
    BY <2>2
<1>4. ASSUME NEW n \in Nat, n \in N PROVE n + 1 \in N
  <2>1. PICK f : f = [s \in D(n) |-> f[s]] /\ Folds(f, D(n), cs)
    BY <1>4
  <2> DEFINE g == [s \in D(n + 1) |->
                     IF s = {} THEN cs ELSE Touch(f[Less(s)], Pick(s)[1], Pick(s)[2])]
  <2>2. ASSUME NEW s \in D(n) PROVE s \in D(n + 1) /\ g[s] = f[s]
    <3>1. s \in D(n + 1)
      BY <1>1
    <3> QED
      BY <2>1, <3>1 DEF Folds
  <2>3. ASSUME NEW s \in D(n + 1), s # {} PROVE Less(s) \in D(n)
    BY <1>2, <2>3
  <2>4. Folds(g, D(n + 1), cs)
    <3> SUFFICES ASSUME NEW s \in D(n + 1)
                 PROVE  g[s] = IF s = {} THEN cs ELSE Touch(g[Less(s)], Pick(s)[1], Pick(s)[2])
      BY DEF Folds
    <3>1. CASE s = {}
      BY <3>1
    <3>2. CASE s # {}
      BY <2>2, <2>3, <3>2
    <3> QED
      BY <3>1, <3>2
  <2>5. g = [s \in D(n + 1) |-> g[s]]
    OBVIOUS
  <2> HIDE DEF g, D
  <2> QED
    BY <2>4, <2>5
<1>5. Nat \subseteq N
  <2> HIDE DEF N
  <2> QED
    BY <1>3, <1>4, NatInd
<1>6. PICK n \in Nat : n = Cardinality(S)
  BY FS_CardinalityType
<1>7. D(n) = SUBSET S
  BY <1>6, FS_Subset, <1>1
<1>8. PICK f : f = [s \in D(n) |-> f[s]] /\ Folds(f, D(n), cs)
  BY <1>5, <1>6
<1>9. f = Unfolded(f, S, cs)
  <2> HIDE DEF D
  <2> QED
    BY <1>7, <1>8 DEF Folds, Unfolded
<1> QED
  BY <1>9

\* What TouchAll computes.
LEMMA TouchAllFolds ==
  ASSUME NEW S, IsFiniteSet(S), NEW cs
  PROVE  \E f : Folds(f, SUBSET S, cs) /\ TouchAll(cs, S) = f[S]
<1> DEFINE h == CHOOSE f : f = Unfolded(f, S, cs)
<1>1. h = Unfolded(h, S, cs)
  BY FoldExists
<1>2. TouchAll(cs, S) = h[S]
  BY DEF TouchAll, Unfolded, Pick, Less
<1> HIDE DEF h
<1>3. Folds(h, SUBSET S, cs)
  BY <1>1 DEF Folds, Unfolded
<1> QED
  BY <1>2, <1>3

\* A sequence and its indices.
LEMMA SeqDomain ==
  ASSUME NEW s, IsSeq(s)
  PROVE  Len(s) \in Nat /\ DOMAIN s = 1 .. Len(s)
BY DEF IsSeq

\* Whatever touches under a path touches what covers it.
LEMMA CoversOverlaps ==
  ASSUME NEW a, IsSeq(a), NEW b, IsSeq(b), NEW q, IsSeq(q), Covers(a, b), Overlaps(b, q)
  PROVE  Overlaps(a, q)
<1>1. PICK l, m, n \in Nat : l = Len(a) /\ m = Len(b) /\ n = Len(q)
  BY SeqDomain
<1> QED
  BY <1>1 DEF Covers, Overlaps, Shorter

\* A path covers itself.
LEMMA CoversSelf ==
  ASSUME NEW a, IsSeq(a)
  PROVE  Covers(a, a)
BY SeqDomain DEF Covers, Overlaps, Shorter

\* No path recorded for a namespace covers another.
Tidy(cs) ==
  /\ IsFiniteSet(DOMAIN cs)
  /\ \A k \in DOMAIN cs :
       /\ IsFiniteSet(cs[k])
       /\ \A a \in cs[k] : IsSeq(a)
       /\ \A a, b \in cs[k] : Covers(a, b) => a = b

\* ChangeSet::touch keeps no path that another covers.
LEMMA TouchTidy ==
  ASSUME NEW cs, Tidy(cs), NEW key, NEW p, IsSeq(p)
  PROVE  Tidy(Touch(cs, key, p))
<1>1. CASE \E t \in ChangeOf(cs, key) : Covers(t, p)
  BY <1>1 DEF Touch
<1>2. CASE ~ \E t \in ChangeOf(cs, key) : Covers(t, p)
  <2> DEFINE new == {t \in ChangeOf(cs, key) : ~Covers(p, t)} \cup {p}
             res == [k \in DOMAIN cs \cup {key} |-> IF k = key THEN new ELSE cs[k]]
  <2>1. Touch(cs, key, p) = res
    BY <1>2 DEF Touch
  <2>2. IsFiniteSet(ChangeOf(cs, key)) /\ (\A a \in ChangeOf(cs, key) : IsSeq(a))
        /\ (\A a, b \in ChangeOf(cs, key) : Covers(a, b) => a = b)
    BY FS_EmptySet DEF Tidy, ChangeOf
  <2>3. IsFiniteSet(new)
    BY <2>2, FS_Subset, FS_AddElement
  <2>4. \A a \in new : IsSeq(a)
    BY <2>2
  <2>5. \A a, b \in new : Covers(a, b) => a = b
    BY <1>2, <2>2
  <2>6. IsFiniteSet(DOMAIN res)
    BY FS_AddElement DEF Tidy
  <2> HIDE DEF new
  <2>7. Tidy(res)
    BY <2>3, <2>4, <2>5, <2>6 DEF Tidy
  <2> QED
    BY <2>1, <2>7
<1> QED
  BY <1>1, <1>2

\* It records the path asked for, and loses none it had.
LEMMA TouchTouches ==
  ASSUME NEW cs, Tidy(cs), NEW key, NEW p, IsSeq(p), NEW k, NEW q, IsSeq(q)
  PROVE  Touches(Touch(cs, key, p), k, q) <=>
           Touches(cs, k, q) \/ (k = key /\ Overlaps(p, q))
<1>1. \A t \in ChangeOf(cs, key) : IsSeq(t)
  BY DEF ChangeOf, Tidy
<1>2. CASE \E t \in ChangeOf(cs, key) : Covers(t, p)
  <2>1. Touch(cs, key, p) = cs
    BY <1>2 DEF Touch
  <2>2. ASSUME k = key, Overlaps(p, q) PROVE Touches(cs, k, q)
    BY <1>1, <1>2, <2>2, CoversOverlaps DEF Touches
  <2> QED
    BY <2>1, <2>2
<1>3. CASE ~ \E t \in ChangeOf(cs, key) : Covers(t, p)
  <2> DEFINE new == {t \in ChangeOf(cs, key) : ~Covers(p, t)} \cup {p}
             res == [x \in DOMAIN cs \cup {key} |-> IF x = key THEN new ELSE cs[x]]
  <2>1. Touch(cs, key, p) = res
    BY <1>3 DEF Touch
  <2>2. CASE k # key
    <3>1. ChangeOf(res, k) = ChangeOf(cs, k)
      BY <2>2 DEF ChangeOf
    <3> HIDE DEF res
    <3> QED
      BY <2>1, <2>2, <3>1 DEF Touches
  <2>3. CASE k = key
    <3>1. ChangeOf(res, k) = new
      BY <2>3 DEF ChangeOf
    <3>2. \A t \in ChangeOf(cs, key) : Covers(p, t) /\ Overlaps(t, q) => Overlaps(p, q)
      BY <1>1, CoversOverlaps
    <3> HIDE DEF res
    <3> QED
      BY <2>1, <2>3, <3>1, <3>2 DEF Touches
  <2> QED
    BY <2>2, <2>3
<1> QED
  BY <1>2, <1>3

\* What TouchAll leaves is tidy, and touches what it did and what was asked.
LEMMA TouchAllIs ==
  ASSUME NEW S, IsFiniteSet(S), \A x \in S : IsSeq(x[2]), NEW cs, Tidy(cs)
  PROVE  /\ Tidy(TouchAll(cs, S))
         /\ \A k, q : IsSeq(q) =>
              (Touches(TouchAll(cs, S), k, q) <=>
                 Touches(cs, k, q) \/ \E x \in S : k = x[1] /\ Overlaps(x[2], q))
<1>1. PICK f : Folds(f, SUBSET S, cs) /\ TouchAll(cs, S) = f[S]
  BY TouchAllFolds
<1> DEFINE Is(s) ==
             /\ Tidy(f[s])
             /\ \A k, q : IsSeq(q) =>
                  (Touches(f[s], k, q) <=>
                     Touches(cs, k, q) \/ \E x \in s : k = x[1] /\ Overlaps(x[2], q))
           C == {s \in SUBSET S : Is(s)}
<1>2. Is({})
  BY <1>1 DEF Folds
<1>3. ASSUME NEW s \in SUBSET S, s # {}, Is(Less(s)) PROVE Is(s)
  <2>1. Pick(s) \in s /\ Less(s) \in SUBSET S /\ s = Less(s) \cup {Pick(s)}
    BY <1>3 DEF Pick, Less
  <2>2. PICK x \in S : x = Pick(s)
    BY <2>1
  <2>3. f[s] = Touch(f[Less(s)], x[1], x[2])
    BY <1>1, <1>3, <2>2 DEF Folds
  <2>4. IsSeq(x[2]) /\ Tidy(f[Less(s)])
    BY <1>3
  <2>5. Tidy(f[s])
    BY <2>3, <2>4, TouchTidy
  <2>6. ASSUME NEW k, NEW q, IsSeq(q)
        PROVE  Touches(f[s], k, q) <=>
                 Touches(cs, k, q) \/ \E y \in s : k = y[1] /\ Overlaps(y[2], q)
    <3>1. Touches(f[s], k, q) <=> Touches(f[Less(s)], k, q) \/ (k = x[1] /\ Overlaps(x[2], q))
      BY <2>3, <2>4, <2>6, TouchTouches
    <3>2. Touches(f[Less(s)], k, q) <=>
            Touches(cs, k, q) \/ \E y \in Less(s) : k = y[1] /\ Overlaps(y[2], q)
      BY <1>3, <2>6
    <3> QED
      BY <2>1, <2>2, <3>1, <3>2
  <2> QED
    BY <2>5, <2>6
<1>4. \A s \in SUBSET S : s \in C
  <2>1. {} \in C
    BY <1>2
  <2>2. ASSUME NEW s \in SUBSET S, s # {} /\ Less(s) \in C PROVE s \in C
    BY <1>3, <2>2
  <2> HIDE DEF C
  <2> QED
    BY <2>1, <2>2, SetInd
<1>5. S \in C
  BY <1>4
<1> QED
  BY <1>1, <1>5

\* A finite set has finitely many images.
LEMMA ImageFinite ==
  ASSUME NEW S, IsFiniteSet(S), NEW f, DOMAIN f = S
  PROVE  IsFiniteSet({f[x] : x \in S})
<1> DEFINE T == {f[x] : x \in S}
           g == [x \in S |-> f[x]]
<1>1. g \in Surjection(S, T)
  BY DEF Surjection
<1> QED
  BY <1>1, FS_Surjection

\* The places of a tidy record: finitely many, and they are what it touches.
LEMMA PlacesTidy ==
  ASSUME NEW cs, Tidy(cs)
  PROVE  /\ IsFiniteSet(PlacesOf(cs)) /\ \A x \in PlacesOf(cs) : IsSeq(x[2])
         /\ \A k, q : Touches(cs, k, q) <=>
              \E x \in PlacesOf(cs) : k = x[1] /\ Overlaps(x[2], q)
<1> DEFINE At(k) == {<<k, p>> : p \in cs[k]}
           All == {At(k) : k \in DOMAIN cs}
<1>1. PlacesOf(cs) = UNION All
  BY DEF PlacesOf
<1>2. ASSUME NEW k \in DOMAIN cs PROVE IsFiniteSet(At(k))
  <2> DEFINE f == [p \in cs[k] |-> <<k, p>>]
  <2>1. At(k) = {f[p] : p \in cs[k]}
    OBVIOUS
  <2>2. DOMAIN f = cs[k] /\ IsFiniteSet(cs[k])
    BY DEF Tidy
  <2> HIDE DEF f, At
  <2> QED
    BY <2>1, <2>2, ImageFinite
<1>3. IsFiniteSet(All) /\ \A T \in All : IsFiniteSet(T)
  <2> DEFINE f == [k \in DOMAIN cs |-> At(k)]
  <2>1. All = {f[k] : k \in DOMAIN cs}
    OBVIOUS
  <2>2. DOMAIN f = DOMAIN cs /\ IsFiniteSet(DOMAIN cs)
    BY DEF Tidy
  <2>3. \A T \in All : IsFiniteSet(T)
    BY <1>2
  <2> HIDE DEF f, All
  <2> QED
    BY <2>1, <2>2, <2>3, ImageFinite
<1>4. IsFiniteSet(PlacesOf(cs))
  BY <1>1, <1>3, FS_UNION
<1>5. \A x \in PlacesOf(cs) : IsSeq(x[2])
  BY <1>1 DEF Tidy
<1>6. ASSUME NEW k, NEW q
      PROVE  Touches(cs, k, q) <=> \E x \in PlacesOf(cs) : k = x[1] /\ Overlaps(x[2], q)
  <2>1. ASSUME Touches(cs, k, q)
        PROVE  \E x \in PlacesOf(cs) : k = x[1] /\ Overlaps(x[2], q)
    <3>1. PICK t \in ChangeOf(cs, k) : Overlaps(t, q)
      BY <2>1 DEF Touches
    <3>2. k \in DOMAIN cs /\ t \in cs[k]
      BY DEF ChangeOf
    <3>3. <<k, t>> \in PlacesOf(cs)
      BY <1>1, <3>2
    <3> QED
      BY <3>1, <3>3
  <2>2. ASSUME NEW x \in PlacesOf(cs), k = x[1], Overlaps(x[2], q)
        PROVE  Touches(cs, k, q)
    <3>1. PICK j \in DOMAIN cs : x \in At(j)
      BY <1>1
    <3>2. PICK p \in cs[j] : x = <<j, p>>
      BY <3>1
    <3> QED
      BY <2>2, <3>2 DEF Touches, ChangeOf
  <2> QED
    BY <2>1, <2>2
<1> QED
  BY <1>4, <1>5, <1>6

\* What a merged movement touches is what either did.
LEMMA MergeIs ==
  ASSUME NEW cs, Tidy(cs), NEW other, Tidy(other)
  PROVE  /\ Tidy(MergeChanges(cs, other))
         /\ \A k, q : IsSeq(q) => (Touches(MergeChanges(cs, other), k, q) <=>
                                     Touches(cs, k, q) \/ Touches(other, k, q))
<1> DEFINE S == PlacesOf(other)
<1>1. IsFiniteSet(S) /\ (\A x \in S : IsSeq(x[2]))
      /\ \A k, q : Touches(other, k, q) <=> \E x \in S : k = x[1] /\ Overlaps(x[2], q)
  BY PlacesTidy
<1> HIDE DEF S
<1>2. /\ Tidy(TouchAll(cs, S))
      /\ \A k, q : IsSeq(q) =>
           (Touches(TouchAll(cs, S), k, q) <=>
              Touches(cs, k, q) \/ \E x \in S : k = x[1] /\ Overlaps(x[2], q))
  BY <1>1, TouchAllIs
<1>3. MergeChanges(cs, other) = TouchAll(cs, S)
  BY DEF MergeChanges, S
<1> QED
  BY <1>1, <1>2, <1>3

\* The record of finitely many envelopes is tidy.
LEMMA RecordIs ==
  ASSUME NEW es, IsFiniteSet(es), \A e \in es : IsSeq(e.path)
  PROVE  Tidy(Record(es))
<1> DEFINE S == {<<e.key, e.path>> : e \in es}
           f == [e \in es |-> <<e.key, e.path>>]
<1>1. IsFiniteSet(S)
  <2>1. S = {f[e] : e \in es} /\ DOMAIN f = es
    OBVIOUS
  <2> HIDE DEF f, S
  <2> QED
    BY <2>1, ImageFinite
<1>3. \A x \in S : IsSeq(x[2])
  OBVIOUS
<1>2. Tidy(NoChanges)
  BY FS_EmptySet DEF Tidy, NoChanges
<1> QED
  BY <1>1, <1>2, <1>3, TouchAllIs DEF Record

-----------------------------------------------------------------------------
(* The path and its movements.                                             *)

\* Sequences over any set are sequences.
LEMMA SeqIs ==
  ASSUME NEW X, NEW s \in Seq(X)
  PROVE  IsSeq(s)
<1> DEFINE Y == {s[i] : i \in DOMAIN s}
<1>1. Len(s) \in Nat /\ DOMAIN s = 1 .. Len(s) /\ s = [i \in 1 .. Len(s) |-> s[i]]
  OBVIOUS
<1>2. s \in [1 .. Len(s) -> Y]
  BY <1>1
<1> HIDE DEF Y
<1>3. s \in Seq(Y)
  BY <1>1, <1>2, SeqDef
<1> QED
  BY <1>3 DEF IsSeq, Y

LEMMA EmptyIs == IsSeq(<<>>)
<1>1. <<>> \in Seq({})
  OBVIOUS
<1> QED
  BY <1>1, SeqIs

\* The operator Max picks the greatest.
LEMMA MaxIs ==
  ASSUME NEW S, S \subseteq Nat, NEW m \in S, \A y \in S : y <= m
  PROVE  Max(S) = m
<1>1. \A x \in S : (\A y \in S : x >= y) => x = m
  <2> SUFFICES ASSUME NEW x \in S, \A y \in S : x >= y PROVE x = m
    OBVIOUS
  <2>1. x >= m /\ x <= m /\ x \in Nat /\ m \in Nat
    OBVIOUS
  <2> QED
    BY <2>1
<1>2. \A y \in S : m >= y
  OBVIOUS
<1> QED
  BY <1>1, <1>2 DEF Max

\* Paths are sequences of envelopes that were made one after another.
GoodPath ==
  /\ IsSeq(path) /\ path # <<>> /\ made \in Nat
  /\ \A i \in 1 .. Len(path) : IsSeq(path[i].path) /\ path[i].id \in Nat /\ path[i].id <= made
  /\ \A i, j \in 1 .. Len(path) : i < j => path[i].id < path[j].id

\* What Extend makes of the path.
Grown(keep, run) == SubSeq(path, 1, keep) \o [i \in DOMAIN run |-> Envelope(i, run[i])]

Sound(run) == IsSeq(run) /\ \A i \in 1 .. Len(run) : IsSeq(run[i].path)

\* The path up to keep, and then the envelopes of the run.
LEMMA GrownIs ==
  ASSUME IsSeq(path), NEW keep \in 1 .. Len(path), NEW run, IsSeq(run)
  PROVE  LET new == Grown(keep, run)
         IN /\ IsSeq(new) /\ Len(new) = keep + Len(run)
            /\ \A i \in 1 .. keep : new[i] = path[i]
            /\ \A i \in 1 .. Len(run) : new[keep + i] = Envelope(i, run[i])
<1> DEFINE kept == SubSeq(path, 1, keep)
           top == [i \in DOMAIN run |-> Envelope(i, run[i])]
           X == {path[i] : i \in DOMAIN path} \cup {Envelope(i, run[i]) : i \in DOMAIN run}
<1>1. Len(path) \in Nat /\ DOMAIN path = 1 .. Len(path)
      /\ Len(run) \in Nat /\ DOMAIN run = 1 .. Len(run)
  BY SeqDomain
<1>2. path \in Seq(X)
  <2>1. path \in [1 .. Len(path) -> X] /\ Len(path) \in Nat
    <3>1. path = [i \in 1 .. Len(path) |-> path[i]]
      BY DEF IsSeq
    <3> QED
      BY <1>1, <3>1
  <2> HIDE DEF X
  <2> QED
    BY <2>1, SeqDef
<1>3. top \in Seq(X) /\ Len(top) = Len(run)
  <2>1. top \in [1 .. Len(run) -> X]
    BY <1>1
  <2> HIDE DEF X, top
  <2>2. top \in Seq(X)
    BY <1>1, <2>1, SeqDef
  <2>3. DOMAIN top = 1 .. Len(run)
    BY <2>1
  <2> QED
    BY <1>1, <2>2, <2>3
<1>4. kept \in Seq(X) /\ Len(kept) = keep /\ \A i \in 1 .. keep : kept[i] = path[i]
  <2> HIDE DEF X
  <2> QED
    BY <1>1, <1>2
<1>5. \A i \in 1 .. Len(run) : top[i] = Envelope(i, run[i])
  BY <1>1
<1>6. Grown(keep, run) = kept \o top
  BY DEF Grown
<1> HIDE DEF X, kept, top
<1>7. kept \o top \in Seq(X) /\ Len(kept \o top) = keep + Len(run)
  BY <1>1, <1>3, <1>4
<1>8. \A i \in 1 .. keep : (kept \o top)[i] = path[i]
  BY <1>1, <1>3, <1>4
<1>9. \A i \in 1 .. Len(run) : (kept \o top)[keep + i] = Envelope(i, run[i])
  BY <1>1, <1>3, <1>4, <1>5
<1> QED
  BY <1>6, <1>7, <1>8, <1>9, SeqIs

\* The two paths meet where the run begins: its envelopes are new.
LEMMA MeetIs ==
  ASSUME GoodPath, NEW keep \in 1 .. Len(path), NEW run, Sound(run)
  PROVE  Meet(path, Grown(keep, run)) = keep
<1>1. PICK new : new = Grown(keep, run)
  OBVIOUS
<1>2. /\ IsSeq(new) /\ Len(new) = keep + Len(run)
      /\ \A i \in 1 .. keep : new[i] = path[i]
      /\ \A i \in 1 .. Len(run) : new[keep + i] = Envelope(i, run[i])
  BY <1>1, GrownIs DEF GoodPath, Sound
<1>3. PICK l, n \in Nat : l = Len(path) /\ n = Len(run)
  BY SeqDomain DEF GoodPath, Sound
<1>4. PICK s \in Nat : s = Shorter(path, new)
  BY <1>2, <1>3 DEF Shorter
<1>5. keep <= s /\ s <= l /\ s <= keep + n
  BY <1>2, <1>3, <1>4 DEF Shorter
<1> DEFINE S == {0} \cup {i \in 1 .. s : \A j \in 1 .. i : path[j] = new[j]}
<1>6. S \subseteq Nat /\ keep \in S
  BY <1>2, <1>3, <1>5
<1>7. ASSUME NEW y \in S, ~ (y <= keep) PROVE FALSE
  <2>1. y \in 1 .. s /\ keep + 1 \in 1 .. y /\ y \in Nat
    BY <1>6, <1>7
  <2>2. path[keep + 1] = new[keep + 1]
    BY <1>7, <2>1
  <2>3. 1 \in 1 .. n /\ keep + 1 \in 1 .. l
    BY <1>3, <1>5, <2>1
  <2>4. new[keep + 1] = Envelope(1, run[1])
    BY <1>2, <1>3, <2>3
  <2>5. Envelope(1, run[1]).id = made + 1
    BY DEF Envelope
  <2>6. path[keep + 1].id <= made /\ path[keep + 1].id \in Nat /\ made \in Nat
    BY <1>3, <2>3 DEF GoodPath
  <2> QED
    BY <2>2, <2>4, <2>5, <2>6
<1>8. Meet(path, new) = Max(S)
  BY <1>4 DEF Meet
<1> HIDE DEF S
<1>9. Max(S) = keep
  BY <1>6, <1>7, MaxIs
<1> QED
  BY <1>1, <1>8, <1>9

\* Finitely many envelopes lie above the meet.
LEMMA AboveFinite ==
  ASSUME NEW b, IsSeq(b), NEW n \in Nat
  PROVE  IsFiniteSet(AboveMeet(b, n))
<1> DEFINE I == n + 1 .. Len(b)
           f == [i \in I |-> b[i]]
<1>1. IsFiniteSet(I)
  BY SeqDomain, FS_Interval
<1>2. AboveMeet(b, n) = {f[i] : i \in I} /\ DOMAIN f = I
  BY DEF AboveMeet
<1> HIDE DEF f, I
<1> QED
  BY <1>1, <1>2, ImageFinite

\* A movement as the core hands it out.
IsMovement(m) == m = [changes |-> m.changes, orphaned |-> m.orphaned] /\ Tidy(m.changes)

\* What left the path, and that the record of what changed is tidy.
LEMMA DiffIs ==
  ASSUME GoodPath, NEW keep \in 1 .. Len(path), NEW run, Sound(run)
  PROVE  LET m == Diff(path, Grown(keep, run))
         IN /\ IsMovement(m)
            /\ m.orphaned = {path[i].id : i \in keep + 1 .. Len(path)}
<1>1. PICK new : new = Grown(keep, run)
  OBVIOUS
<1>2. /\ IsSeq(new) /\ Len(new) = keep + Len(run)
      /\ \A i \in 1 .. keep : new[i] = path[i]
      /\ \A i \in 1 .. Len(run) : new[keep + i] = Envelope(i, run[i])
  BY <1>1, GrownIs DEF GoodPath, Sound
<1>3. PICK l, n \in Nat : l = Len(path) /\ n = Len(run)
  BY SeqDomain DEF GoodPath, Sound
<1>4. Meet(path, new) = keep
  BY <1>1, MeetIs
<1> DEFINE undone == AboveMeet(path, keep)
           fresh  == AboveMeet(new, keep)
<1>5. IsFiniteSet(undone \cup fresh)
  <2>1. keep \in Nat
    BY <1>3
  <2>2. IsFiniteSet(undone) /\ IsFiniteSet(fresh)
    BY <1>2, <2>1, AboveFinite DEF GoodPath
  <2> QED
    BY <2>2, FS_Union
<1>6. ASSUME NEW e \in undone \cup fresh PROVE IsSeq(e.path)
  <2>1. CASE e \in undone
    <3>1. PICK i \in keep + 1 .. l : e = path[i]
      BY <1>3, <2>1 DEF AboveMeet
    <3> QED
      BY <1>3, <3>1 DEF GoodPath
  <2>2. CASE e \in fresh
    <3>1. PICK i \in keep + 1 .. keep + n : e = new[i]
      BY <1>2, <1>3, <2>2 DEF AboveMeet
    <3>2. PICK j \in 1 .. n : i = keep + j
      BY <1>3, <3>1
    <3>3. e = Envelope(j, run[j])
      BY <1>2, <1>3, <3>1, <3>2
    <3> QED
      BY <1>3, <3>3 DEF Envelope, Sound
  <2> QED
    BY <2>1, <2>2
<1>7. Diff(path, new) = [changes |-> Record(undone \cup fresh),
                         orphaned |-> {e.id : e \in undone}]
  BY <1>4 DEF Diff
<1>8. Tidy(Record(undone \cup fresh))
  <2> HIDE DEF undone, fresh
  <2> QED
    BY <1>5, <1>6, RecordIs
<1>9. {e.id : e \in undone} = {path[i].id : i \in keep + 1 .. Len(path)}
  BY DEF AboveMeet
<1>10. PICK c, o : c = Record(undone \cup fresh) /\ o = {e.id : e \in undone}
  OBVIOUS
<1>11. PICK m : m = Diff(path, new)
  OBVIOUS
<1>12. m = [changes |-> c, orphaned |-> o]
  BY <1>7, <1>10, <1>11
<1>13. m.changes = c /\ m.orphaned = o
  BY <1>12
<1> HIDE DEF undone, fresh
<1> QED
  BY <1>1, <1>8, <1>9, <1>10, <1>11, <1>12, <1>13 DEF IsMovement

-----------------------------------------------------------------------------
(* The registry.                                                           *)

\* The envelopes that were on the path and have left it, or never were there.
Left == {id \in Nat : id <= made /\ ~OnPath(id)}

\* Movement m is what the movements of owed come to.
Exact(m, owed, left) ==
  /\ IsMovement(m)
  /\ m.orphaned = UNION {d.orphaned : d \in owed} /\ m.orphaned \subseteq left
  /\ \A w \in Writes : Touches(m.changes, w.key, w.path) <=>
       \E d \in owed : Touches(d.changes, w.key, w.path)

\* What a subscriber finds is what it is owed.
Kept(sub, owed, left) ==
  /\ sub = [filter |-> sub.filter, pending |-> sub.pending]
  /\ \/ sub.pending = {} /\ owed = {}
     \/ /\ owed # {}
        /\ \E from, head, m : /\ sub.pending = {[from |-> from, head |-> head, movement |-> m]}
                              /\ Exact(m, owed, left)

\* Every subscriber finds what it is owed.
Registry ==
  /\ DOMAIN due = DOMAIN subs
  /\ \A s \in DOMAIN subs : Kept(subs[s], due[s], Left)

\* The orphans a subscriber will hear of.
Awaiting(sub) == UNION {p.movement.orphaned : p \in sub.pending}

LEMMA WritesSeq == \A w \in Writes : IsSeq(w.path) /\ w.to = None
BY LedgerAssumption DEF Foreign

\* A movement on its own.
LEMMA ExactOne ==
  ASSUME NEW m, IsMovement(m), NEW left, m.orphaned \subseteq left
  PROVE  Exact(m, {m}, left)
<1>1. UNION {d.orphaned : d \in {m}} = m.orphaned
  OBVIOUS
<1> QED
  BY <1>1 DEF Exact

\* A movement merged into what was pending.
LEMMA ExactMerge ==
  ASSUME NEW m, NEW owed, NEW left, Exact(m, owed, left),
         NEW n, IsMovement(n), n.orphaned \subseteq left
  PROVE  Exact(MergeMovement(m, n), owed \cup {n}, left)
<1>1. PICK c : c = MergeChanges(m.changes, n.changes)
  OBVIOUS
<1>2. PICK o : o = m.orphaned \cup n.orphaned
  OBVIOUS
<1>3. PICK r : r = MergeMovement(m, n)
  OBVIOUS
<1>4. r = [changes |-> c, orphaned |-> o]
  BY <1>1, <1>2, <1>3 DEF MergeMovement
<1>5. r.changes = c /\ r.orphaned = o
  BY <1>4
<1>6. Tidy(c) /\ \A k, q : IsSeq(q) => (Touches(c, k, q) <=>
                            Touches(m.changes, k, q) \/ Touches(n.changes, k, q))
  BY <1>1, MergeIs DEF Exact, IsMovement
<1>7. o = UNION {d.orphaned : d \in owed \cup {n}} /\ o \subseteq left
  BY <1>2 DEF Exact
<1>8. ASSUME NEW w \in Writes
      PROVE  Touches(c, w.key, w.path) <=>
               \E d \in owed \cup {n} : Touches(d.changes, w.key, w.path)
  <2>1. Touches(c, w.key, w.path) <=>
          Touches(m.changes, w.key, w.path) \/ Touches(n.changes, w.key, w.path)
    BY <1>6, WritesSeq
  <2>2. Touches(m.changes, w.key, w.path) <=>
          \E d \in owed : Touches(d.changes, w.key, w.path)
    BY DEF Exact
  <2> QED
    BY <2>1, <2>2
<1> QED
  BY <1>3, <1>4, <1>5, <1>6, <1>7, <1>8 DEF Exact, IsMovement

\* More envelopes may leave the path, and the record stays exact.
LEMMA ExactMore ==
  ASSUME NEW m, NEW owed, NEW left, Exact(m, owed, left), NEW more, left \subseteq more
  PROVE  Exact(m, owed, more)
BY DEF Exact

LEMMA KeptMore ==
  ASSUME NEW sub, NEW owed, NEW left, Kept(sub, owed, left), NEW more, left \subseteq more
  PROVE  Kept(sub, owed, more)
BY ExactMore DEF Kept

\* A subscriber that hears of a movement.
Pushed(new, sub, from, head, m) == new = [sub EXCEPT !.pending = Push(@, from, head, m)]

\* The subscriber after a movement.
Heard(new, sub, owed, left, m) ==
  /\ Kept(new, owed \cup {m}, left) /\ new.filter = sub.filter
  /\ Awaiting(new) = Awaiting(sub) \cup m.orphaned

\* Subscriber::push and its merge lose nothing and make nothing up.
LEMMA PushKeeps ==
  ASSUME NEW sub, NEW owed, NEW left, Kept(sub, owed, left),
         NEW m, IsMovement(m), m.orphaned \subseteq left, NEW from, NEW head,
         NEW new, Pushed(new, sub, from, head, m)
  PROVE  Heard(new, sub, owed, left, m)
<1>1. PICK f, P : f = sub.filter /\ P = sub.pending
  OBVIOUS
<1>2. sub = [filter |-> f, pending |-> P]
  BY <1>1 DEF Kept
<1>3. PICK Q : Q = Push(P, from, head, m)
  OBVIOUS
<1>5. new = [filter |-> f, pending |-> Q]
  BY <1>2, <1>3 DEF Pushed
<1>6. new.filter = f /\ new.pending = Q
  BY <1>5
<1>7. CASE P = {} /\ owed = {}
  <2> DEFINE r == [from |-> from, head |-> head, movement |-> m]
  <2>1. Q = {r}
    BY <1>3, <1>7 DEF Push
  <2>2. Exact(m, {m}, left) /\ owed \cup {m} = {m} /\ r.movement = m
    BY <1>7, ExactOne
  <2>3. Kept(new, owed \cup {m}, left)
    BY <1>5, <1>6, <2>1, <2>2 DEF Kept
  <2>4. Awaiting(new) = m.orphaned /\ Awaiting(sub) = {}
    BY <1>1, <1>6, <1>7, <2>1, <2>2 DEF Awaiting
  <2> QED
    BY <1>1, <1>6, <2>3, <2>4 DEF Heard
<1>8. CASE owed # {} /\ \E a, b, x : /\ P = {[from |-> a, head |-> b, movement |-> x]}
                                     /\ Exact(x, owed, left)
  <2>1. PICK a, b, x : /\ P = {[from |-> a, head |-> b, movement |-> x]}
                       /\ Exact(x, owed, left)
    BY <1>8
  <2>2. PICK y : y = MergeMovement(x, m)
    OBVIOUS
  <2> DEFINE p == [from |-> a, head |-> b, movement |-> x]
             r == [from |-> a, head |-> head, movement |-> y]
  <2>3. Q = {r}
    <3>1. P # {} /\ P = {p}
      BY <2>1
    <3>2. [from |-> p.from, head |-> head, movement |-> MergeMovement(p.movement, m)] = r
      BY <2>2
    <3>3. Q = {[from |-> q.from, head |-> head, movement |-> MergeMovement(q.movement, m)]
                 : q \in P}
      BY <1>3, <3>1 DEF Push
    <3> HIDE DEF p, r
    <3> QED
      BY <3>1, <3>2, <3>3
  <2>4. Exact(y, owed \cup {m}, left) /\ owed \cup {m} # {} /\ r.movement = y /\ p.movement = x
    BY <2>1, <2>2, ExactMerge
  <2>5. Kept(new, owed \cup {m}, left)
    BY <1>5, <1>6, <2>3, <2>4 DEF Kept
  <2>6. y.orphaned = x.orphaned \cup m.orphaned
    BY <2>2 DEF MergeMovement
  <2>7. Awaiting(new) = y.orphaned /\ Awaiting(sub) = x.orphaned
    <3>1. sub.pending = {p}
      BY <1>1, <2>1
    <3> HIDE DEF p, r
    <3> QED
      BY <1>6, <2>3, <2>4, <3>1 DEF Awaiting
  <2> QED
    BY <1>1, <1>6, <2>5, <2>6, <2>7 DEF Heard
<1> QED
  BY <1>1, <1>7, <1>8 DEF Kept

\* The path after Extend.
LEMMA GrownGood ==
  ASSUME GoodPath, NEW keep \in 1 .. Len(path), NEW run, Sound(run),
         path' = Grown(keep, run), made' = made + Len(run)
  PROVE  /\ GoodPath' /\ Left \subseteq Left'
         /\ {path[i].id : i \in keep + 1 .. Len(path)} \subseteq Left'
         /\ \A id : OnPath(id) /\ id \notin {path[i].id : i \in keep + 1 .. Len(path)}
              => OnPath(id)'
<1>1. PICK new : new = Grown(keep, run)
  OBVIOUS
<1>2. /\ IsSeq(new) /\ Len(new) = keep + Len(run)
      /\ \A i \in 1 .. keep : new[i] = path[i]
      /\ \A i \in 1 .. Len(run) : new[keep + i] = Envelope(i, run[i])
  BY <1>1, GrownIs DEF GoodPath, Sound
<1>3. PICK l, n \in Nat : l = Len(path) /\ n = Len(run)
  BY SeqDomain DEF GoodPath, Sound
<1>4. PICK old : old = path /\ keep \in 1 .. l
  BY <1>3
<1>5. PICK o \in Nat : o = made
  BY DEF GoodPath
<1>6. \A i \in 1 .. l : IsSeq(old[i].path) /\ old[i].id \in Nat /\ old[i].id <= o
  BY <1>3, <1>4, <1>5 DEF GoodPath
<1>7. \A i, j \in 1 .. l : i < j => old[i].id < old[j].id
  BY <1>3, <1>4 DEF GoodPath
<1>8. ASSUME NEW i \in 1 .. keep + n
      PROVE  \/ i \in 1 .. l /\ i <= keep /\ new[i] = old[i]
             \/ \E j \in 1 .. n : i = keep + j /\ new[i].id = o + j /\ IsSeq(new[i].path)
  <2>1. CASE i <= keep
    BY <1>2, <1>4, <2>1
  <2>2. CASE ~ (i <= keep)
    <3>1. PICK j \in 1 .. n : i = keep + j
      BY <1>3, <1>4, <2>2
    <3>2. new[i] = Envelope(j, run[j])
      BY <1>2, <1>3, <3>1
    <3> QED
      BY <1>3, <1>5, <3>1, <3>2 DEF Envelope, Sound
  <2> QED
    BY <2>1, <2>2
<1>9. \A i \in 1 .. keep + n : IsSeq(new[i].path) /\ new[i].id \in Nat /\ new[i].id <= o + n
  <2> SUFFICES ASSUME NEW i \in 1 .. keep + n
               PROVE  IsSeq(new[i].path) /\ new[i].id \in Nat /\ new[i].id <= o + n
    OBVIOUS
  <2>1. CASE i \in 1 .. l /\ new[i] = old[i]
    <3>1. PICK x \in Nat : x = old[i].id /\ x <= o
      BY <1>6, <2>1
    <3>2. IsSeq(old[i].path)
      BY <1>6, <2>1
    <3> QED
      BY <2>1, <3>1, <3>2
  <2>2. CASE \E j \in 1 .. n : i = keep + j /\ new[i].id = o + j /\ IsSeq(new[i].path)
    BY <2>2
  <2> QED
    BY <1>8, <2>1, <2>2
<1>10. \A i, j \in 1 .. keep + n : i < j => new[i].id < new[j].id
  <2> SUFFICES ASSUME NEW i \in 1 .. keep + n, NEW j \in 1 .. keep + n, i < j
               PROVE  new[i].id < new[j].id
    OBVIOUS
  <2>1. CASE j <= keep
    <3>1. i \in 1 .. l /\ j \in 1 .. l /\ i <= keep
      BY <1>4, <2>1
    <3>2. new[i] = old[i] /\ new[j] = old[j]
      BY <1>4, <1>2, <3>1, <2>1
    <3> QED
      BY <1>7, <3>1, <3>2
  <2>2. CASE ~ (j <= keep)
    <3>1. PICK b \in 1 .. n : j = keep + b /\ new[j].id = o + b
      BY <1>8, <2>2
    <3>2. CASE i <= keep
      <4>1. i \in 1 .. l /\ new[i] = old[i]
        BY <1>2, <1>4, <3>2
      <4>2. PICK x \in Nat : x = old[i].id /\ x <= o
        BY <1>6, <4>1
      <4> QED
        BY <3>1, <4>1, <4>2
    <3>3. CASE ~ (i <= keep)
      <4>1. PICK a \in 1 .. n : i = keep + a /\ new[i].id = o + a
        BY <1>8, <3>3
      <4> QED
        BY <3>1, <4>1, <1>4
    <3> QED
      BY <3>2, <3>3
  <2> QED
    BY <2>1, <2>2
<1>11. path' = new /\ made' = o + n /\ Len(new) = keep + n /\ keep + n \in Nat \ {0}
  BY <1>1, <1>2, <1>3, <1>4, <1>5
<1>12. new # <<>>
  BY <1>11
<1>13. GoodPath'
  BY <1>2, <1>9, <1>10, <1>11, <1>12 DEF GoodPath
<1>14. ASSUME NEW id \in Nat, id <= o, NEW i \in 1 .. keep + n, new[i].id = id
       PROVE  i \in 1 .. l /\ i <= keep /\ old[i].id = id
  BY <1>8, <1>14
<1>15. \A id : OnPath(id)' <=> \E i \in 1 .. keep + n : new[i].id = id
  BY <1>11 DEF OnPath
<1>16. \A id : OnPath(id) <=> \E i \in 1 .. l : old[i].id = id
  BY <1>3, <1>4 DEF OnPath
<1>17. Left' = {id \in Nat : id <= o + n /\ ~ \E i \in 1 .. keep + n : new[i].id = id}
  BY <1>11, <1>15 DEF Left
<1>18. Left = {id \in Nat : id <= o /\ ~ \E i \in 1 .. l : old[i].id = id}
  BY <1>5, <1>16 DEF Left
<1>19. Left \subseteq Left'
  <2> SUFFICES ASSUME NEW id \in Nat, id <= o, ~ \E i \in 1 .. l : old[i].id = id,
                      NEW i \in 1 .. keep + n, new[i].id = id
               PROVE  FALSE
    BY <1>17, <1>18
  <2> QED
    BY <1>14
<1>20. {path[i].id : i \in keep + 1 .. Len(path)} \subseteq Left'
  <2> SUFFICES ASSUME NEW k \in keep + 1 .. l PROVE old[k].id \in Left'
    BY <1>3, <1>4
  <2>1. k \in 1 .. l /\ old[k].id \in Nat /\ old[k].id <= o
    BY <1>4, <1>6
  <2>2. ASSUME NEW i \in 1 .. keep + n, new[i].id = old[k].id PROVE FALSE
    <3>1. i \in 1 .. l /\ i <= keep /\ old[i].id = old[k].id
      BY <1>14, <2>1, <2>2
    <3>2. old[i].id < old[k].id
      BY <1>4, <1>7, <2>1, <3>1
    <3> QED
      BY <2>1, <3>1, <3>2
  <2>3. old[k].id <= o + n
    BY <2>1
  <2> QED
    BY <1>17, <2>1, <2>2, <2>3
<1>21. ASSUME NEW id, OnPath(id), id \notin {path[i].id : i \in keep + 1 .. Len(path)}
       PROVE  OnPath(id)'
  <2>1. PICK i \in 1 .. l : old[i].id = id
    BY <1>16, <1>21
  <2>2. i <= keep
    BY <1>3, <1>4, <1>21, <2>1
  <2>3. new[i] = old[i] /\ i \in 1 .. keep + n
    BY <1>2, <1>4, <2>2
  <2> QED
    BY <1>15, <2>1, <2>3
<1> QED
  BY <1>13, <1>19, <1>20, <1>21

\* The registry after Insert.
LEMMA InsertKeeps ==
  ASSUME GoodPath, Registry, NEW keep \in 1 .. Len(path), NEW run, Sound(run),
         Insert(Grown(keep, run)), made' = made + Len(run)
  PROVE  /\ GoodPath' /\ Registry' /\ Left \subseteq Left' /\ DOMAIN subs' = DOMAIN subs
         /\ \A s \in DOMAIN subs :
              /\ subs'[s].filter = subs[s].filter
              /\ Awaiting(subs[s]) \subseteq Awaiting(subs'[s])
              /\ \A id : /\ subs[s].filter = {[on |-> "Orphaned", id |-> id]}
                          /\ OnPath(id) /\ ~OnPath(id)'
                         => id \in Awaiting(subs'[s])
<1>1. path' = Grown(keep, run)
  BY DEF Insert
<1>2. PICK m : m = Diff(path, path')
  OBVIOUS
<1>3. /\ IsMovement(m)
      /\ m.orphaned = {path[i].id : i \in keep + 1 .. Len(path)}
  BY <1>1, <1>2, DiffIs
<1>4. /\ GoodPath' /\ Left \subseteq Left' /\ m.orphaned \subseteq Left'
      /\ \A id : OnPath(id) /\ id \notin m.orphaned => OnPath(id)'
  BY <1>1, <1>3, GrownGood
<1> DEFINE hear == {s \in DOMAIN subs : Matches(subs[s].filter, m)}
<1>a. PICK head, from : head = path'[Len(path')].id /\ from = CurrentHead
  OBVIOUS
<1>5. /\ subs' = [s \in DOMAIN subs |->
           IF s \in hear THEN [subs[s] EXCEPT !.pending = Push(@, from, head, m)]
           ELSE subs[s]]
      /\ due' = [s \in DOMAIN due |-> IF s \in hear THEN due[s] \cup {m} ELSE due[s]]
  BY <1>2, <1>a, Zenon DEF Insert
<1>6. ASSUME NEW s \in DOMAIN subs, NEW id, subs[s].filter = {[on |-> "Orphaned", id |-> id]},
             OnPath(id), ~OnPath(id)'
      PROVE  s \in hear /\ id \in m.orphaned
  <2>1. id \in m.orphaned
    BY <1>4, <1>6
  <2> DEFINE sel == [on |-> "Orphaned", id |-> id]
  <2>2. sel.on = "Orphaned" /\ sel.id = id
    OBVIOUS
  <2>3. Selects(sel, m)
    BY <2>1, <2>2 DEF Selects
  <2>4. sel \in subs[s].filter
    BY <1>6
  <2> HIDE DEF sel
  <2>5. Matches(subs[s].filter, m)
    BY <2>3, <2>4 DEF Matches
  <2> QED
    BY <2>1, <2>5
<1> HIDE DEF hear
<1>7. ASSUME NEW s \in DOMAIN subs
      PROVE  /\ Kept(subs'[s], due'[s], Left') /\ subs'[s].filter = subs[s].filter
             /\ Awaiting(subs[s]) \subseteq Awaiting(subs'[s])
             /\ s \in hear => m.orphaned \subseteq Awaiting(subs'[s])
  <2>1. Kept(subs[s], due[s], Left') /\ s \in DOMAIN due
    BY <1>4, KeptMore DEF Registry
  <2>2. CASE s \in hear
    <3>1. Pushed(subs'[s], subs[s], from, head, m) /\ due'[s] = due[s] \cup {m}
      BY <1>5, <2>1, <2>2 DEF Pushed
    <3>a. PICK new : new = subs'[s] /\ Pushed(new, subs[s], from, head, m)
      BY <3>1
    <3>2. /\ Kept(new, due[s] \cup {m}, Left') /\ new.filter = subs[s].filter
          /\ Awaiting(new) = Awaiting(subs[s]) \cup m.orphaned
      <4>1. Heard(new, subs[s], due[s], Left', m)
        BY <1>3, <1>4, <2>1, <3>a, PushKeeps
      <4> QED
        BY <4>1 DEF Heard
    <3> QED
      BY <3>1, <3>2, <3>a
  <2>3. CASE s \notin hear
    <3>1. subs'[s] = subs[s] /\ due'[s] = due[s]
      BY <1>5, <2>1, <2>3
    <3> QED
      BY <2>1, <2>3, <3>1
  <2> QED
    BY <2>2, <2>3
<1>8. DOMAIN subs' = DOMAIN subs /\ DOMAIN due' = DOMAIN subs
  BY <1>5 DEF Registry
<1>9. Registry'
  BY <1>7, <1>8 DEF Registry
<1> QED
  BY <1>4, <1>6, <1>7, <1>8, <1>9
\* A function of the numbers up to n that starts in X and is led from X to X
\* stays in it.
LEMMA Stays ==
  ASSUME NEW X, NEW n \in Nat, NEW f, f[0] \in X,
         \A i \in 1 .. n : f[i - 1] \in X => f[i] \in X
  PROVE  \A i \in 0 .. n : f[i] \in X
<1> DEFINE S == {i \in Nat : i <= n => f[i] \in X}
<1>1. 0 \in S
  OBVIOUS
<1>2. ASSUME NEW i \in Nat, i \in S PROVE i + 1 \in S
  <2> SUFFICES ASSUME i + 1 <= n PROVE f[i + 1] \in X
    OBVIOUS
  <2>1. f[i] \in X
    BY <1>2
  <2>2. i + 1 \in 1 .. n /\ (i + 1) - 1 = i
    OBVIOUS
  <2> QED
    BY <2>1, <2>2
<1>3. Nat \subseteq S
  <2> HIDE DEF S
  <2> QED
    BY <1>1, <1>2, NatInd
<1> QED
  BY <1>3

\* The first n steps of g in X, from x on.
Leads(g, X, n) == g \in [1 .. n -> [X -> X]]
Runs(f, g, X, n, x) ==
  f \in [0 .. n -> X] /\ f[0] = x /\ \A i \in 1 .. n : f[i] = g[i][f[i - 1]]

\* A start and a step define a function.
LEMMA Unfolds ==
  ASSUME NEW X, NEW n \in Nat, NEW x \in X, NEW g, Leads(g, X, n)
  PROVE  \E f : Runs(f, g, X, n, x)
<1> USE DEF Leads
<1> DEFINE Up(m, f) == f[0] = x /\ \A i \in 1 .. m : f[i] = g[i][f[i - 1]]
           S == {m \in Nat : m <= n => \E f \in [0 .. m -> X] : Up(m, f)}
<1>1. 0 \in S
  <2> DEFINE f == [i \in 0 .. 0 |-> x]
  <2>1. f \in [0 .. 0 -> X] /\ Up(0, f)
    OBVIOUS
  <2> QED
    BY <2>1
<1>2. ASSUME NEW m \in Nat, m \in S PROVE m + 1 \in S
  <2> SUFFICES ASSUME m + 1 <= n PROVE \E f \in [0 .. m + 1 -> X] : Up(m + 1, f)
    OBVIOUS
  <2>1. PICK f \in [0 .. m -> X] : Up(m, f)
    BY <1>2
  <2> DEFINE h == [i \in 0 .. m + 1 |-> IF i <= m THEN f[i] ELSE g[m + 1][f[m]]]
  <2>2. f[m] \in X /\ m + 1 \in 1 .. n
    BY <2>1
  <2>3. g[m + 1][f[m]] \in X
    BY <2>2
  <2>4. h \in [0 .. m + 1 -> X]
    BY <2>1, <2>3
  <2>5. h[0] = x
    BY <2>1
  <2>6. ASSUME NEW i \in 1 .. m + 1 PROVE h[i] = g[i][h[i - 1]]
    <3>1. CASE i <= m
      BY <2>1, <3>1
    <3>2. CASE i = m + 1
      BY <3>2
    <3> QED
      BY <3>1, <3>2
  <2>7. Up(m + 1, h)
    BY <2>5, <2>6
  <2> HIDE DEF h, Up
  <2> QED
    BY <2>4, <2>7
<1>3. Nat \subseteq S
  <2> HIDE DEF S
  <2> QED
    BY <1>1, <1>2, NatInd
<1>4. n \in S
  BY <1>3
<1>5. PICK f \in [0 .. n -> X] : Up(n, f)
  BY <1>4
<1>6. Runs(f, g, X, n, x)
  BY <1>5 DEF Runs
<1> QED
  BY <1>6


-----------------------------------------------------------------------------
(* Listings and the edits that lead from one to another.                   *)

\* Numbers have a least one.
LEMMA LeastNat ==
  ASSUME NEW S, S \subseteq Nat, S # {}
  PROVE  \E m \in S : \A y \in S : m <= y
<1> DEFINE T == {n \in Nat : \A y \in S : n <= y}
<1> SUFFICES ASSUME \A m \in S : \E y \in S : ~ (m <= y) PROVE FALSE
  OBVIOUS
<1>1. 0 \in T
  OBVIOUS
<1>2. ASSUME NEW n \in Nat, n \in T PROVE n + 1 \in T
  <2>1. n \notin S
    BY <1>2
  <2>2. \A y \in S : y \in Nat /\ n <= y /\ y # n
    BY <1>2, <2>1
  <2> QED
    BY <2>2
<1>3. Nat \subseteq T
  <2> HIDE DEF T
  <2> QED
    BY <1>1, <1>2, NatInd
<1>4. PICK s \in S : s \in Nat
  OBVIOUS
<1>5. s + 1 \in T
  BY <1>3, <1>4
<1> QED
  BY <1>4, <1>5

\* The greatest of some numbers with a bound.
LEMMA MaxOf ==
  ASSUME NEW n \in Nat, NEW S, S \subseteq 0 .. n, S # {}
  PROVE  Max(S) \in S /\ \A y \in S : y <= Max(S)
<1> DEFINE T == {n - x : x \in S}
<1>1. T \subseteq Nat /\ T # {}
  OBVIOUS
<1>2. PICK t \in T : \A y \in T : t <= y
  <2> HIDE DEF T
  <2> QED
    BY <1>1, LeastNat
<1>3. PICK m \in S : t = n - m
  OBVIOUS
<1>4. ASSUME NEW y \in S PROVE y <= m
  <2>1. n - m <= n - y
    BY <1>2, <1>3
  <2> QED
    BY <2>1
<1>5. S \subseteq Nat
  OBVIOUS
<1>6. Max(S) = m
  BY <1>4, <1>5, MaxIs
<1> QED
  BY <1>4, <1>6

LEMMA EmptyIn ==
  ASSUME NEW X
  PROVE  <<>> \in Seq(X) /\ Len(<<>>) = 0
OBVIOUS

LEMMA EntryIn ==
  ASSUME NEW X, NEW s \in Seq(X)
  PROVE  \A k \in 1 .. Len(s) : s[k] \in X
OBVIOUS

\* An entry that is not the first that is wanted.
IsSpare(listed, wanted, i) ==
  listed[i] \notin Range(wanted) \/ \E j \in 1 .. i - 1 : listed[j] = listed[i]

\* Spare entries, in order.
Spares(s, listed, wanted) ==
  /\ s \in Seq(1 .. Len(listed))
  /\ \A k \in 1 .. Len(s) : IsSpare(listed, wanted, s[k])
  /\ \A k, l \in 1 .. Len(s) : k < l => s[k] < s[l]

\* The fold that collects the spare entries finds each once, in order.
LEMMA SpareIs ==
  ASSUME NEW listed, IsSeq(listed), NEW wanted
  PROVE  Spares(Spare(listed, wanted), listed, wanted)
<1> DEFINE n == Len(listed)
           Off(i) == listed[i] \notin Range(wanted) \/ \E j \in 1 .. i - 1 : listed[j] = listed[i]
           Up(f) == f = [i \in 0 .. n |->
                           IF i = 0 THEN <<>>
                           ELSE IF Off(i) THEN Append(f[i - 1], i) ELSE f[i - 1]]
           X == Seq(Nat)
           g == [i \in 1 .. n |-> [s \in X |-> IF Off(i) THEN Append(s, i) ELSE s]]
           z == <<>>
<1>1. n \in Nat
  BY SeqDomain
<1>2. Spare(listed, wanted) = (CHOOSE f : Up(f))[n]
  BY DEF Spare
<1>3. \A i : Off(i) => IsSpare(listed, wanted, i)
  BY DEF IsSpare
<1> HIDE DEF n, Off
<1>4. z \in X /\ Leads(g, X, n)
  BY <1>1 DEF Leads
<1>5. PICK f : Runs(f, g, X, n, z)
  <2> HIDE DEF g, X, z
  <2> QED
    BY <1>1, <1>4, Unfolds
<1>6. ASSUME NEW i \in 0 .. n, i # 0
      PROVE  f[i] = IF Off(i) THEN Append(f[i - 1], i) ELSE f[i - 1]
  <2>1. i \in 1 .. n /\ i - 1 \in 0 .. n
    BY <1>1, <1>6
  <2>2. f[i - 1] \in X /\ f[i] = g[i][f[i - 1]]
    BY <1>5, <2>1 DEF Runs
  <2> QED
    BY <2>1, <2>2
<1>7. Up(f)
  BY <1>5, <1>6 DEF Runs
<1> DEFINE h == CHOOSE e : Up(e)
<1>8. Up(h)
  <2> HIDE DEF Up
  <2> QED
    BY <1>7
<1> HIDE DEF h
<1> DEFINE Good(i, s) ==
             /\ s \in Seq(1 .. n) /\ \A k \in 1 .. Len(s) : Off(s[k]) /\ s[k] <= i
             /\ \A k, l \in 1 .. Len(s) : k < l => s[k] < s[l]
           S == {i \in Nat : i <= n => Good(i, h[i])}
<1>9. 0 \in S
  <2>1. h[0] = <<>>
    BY <1>1, <1>8
  <2>2. PICK e : e = <<>> /\ e \in Seq(1 .. n) /\ Len(e) = 0
    BY EmptyIn
  <2>3. Good(0, e)
    BY <2>2
  <2> QED
    BY <2>1, <2>2, <2>3
<1>10. ASSUME NEW i \in Nat, i \in S PROVE i + 1 \in S
  <2> SUFFICES ASSUME i + 1 <= n PROVE Good(i + 1, h[i + 1])
    OBVIOUS
  <2>1. i + 1 \in 0 .. n /\ i + 1 # 0 /\ (i + 1) - 1 = i /\ i + 1 \in 1 .. n
    BY <1>1
  <2>2. PICK s : s = h[i] /\ Good(i, s)
    BY <1>1, <1>10
  <2>3. h[i + 1] = IF Off(i + 1) THEN Append(s, i + 1) ELSE s
    BY <1>8, <2>1, <2>2
  <2>a. PICK m \in Nat : m = Len(s)
    BY <2>2
  <2>b. \A k \in 1 .. m : s[k] \in 1 .. n /\ s[k] <= i
    <3>1. \A k \in 1 .. m : s[k] <= i
      BY <2>2, <2>a
    <3>2. s \in Seq(1 .. n)
      BY <2>2
    <3>3. \A k \in 1 .. m : s[k] \in 1 .. n
      BY <2>a, <3>2, EntryIn
    <3> QED
      BY <3>1, <3>3
  <2>c. \A k \in 1 .. m : s[k] <= i + 1
    BY <1>1, <2>b
  <2>4. Good(i + 1, s)
    BY <2>2, <2>a, <2>c
  <2>5. ASSUME Off(i + 1) PROVE Good(i + 1, Append(s, i + 1))
    <3>1. PICK t : t = Append(s, i + 1)
      OBVIOUS
    <3>2. /\ t \in Seq(1 .. n) /\ Len(t) = Len(s) + 1 /\ t[Len(s) + 1] = i + 1
          /\ \A k \in 1 .. Len(s) : t[k] = s[k]
      BY <2>1, <2>2, <3>1
    <3>3. m = Len(s)
      BY <2>a
    <3>4. \A k \in 1 .. m + 1 : k = m + 1 \/ k \in 1 .. m
      BY <3>3
    <3>5. \A k \in 1 .. m : s[k] \in 1 .. n /\ s[k] <= i
      BY <2>b
    <3>a. \A k \in 1 .. m : Off(s[k])
      BY <2>2, <2>a
    <3>6. \A k \in 1 .. m + 1 : Off(t[k]) /\ t[k] <= i + 1
      BY <2>5, <2>c, <3>2, <3>3, <3>4, <3>a
    <3>7. \A k, l \in 1 .. m + 1 : k < l => t[k] < t[l]
      <4> SUFFICES ASSUME NEW k \in 1 .. m + 1, NEW l \in 1 .. m + 1, k < l PROVE t[k] < t[l]
        OBVIOUS
      <4>1. k \in 1 .. m /\ t[k] = s[k]
        BY <3>2, <3>3
      <4>2. CASE l = m + 1
        <5>1. t[l] = i + 1
          BY <3>2, <3>3, <4>2
        <5> QED
          BY <3>5, <4>1, <5>1
      <4>3. CASE l \in 1 .. m
        <5>1. t[l] = s[l]
          BY <3>2, <3>3, <4>3
        <5> QED
          BY <2>2, <3>3, <4>1, <4>3, <5>1
      <4> QED
        BY <3>4, <4>2, <4>3
    <3> QED
      BY <3>1, <3>2, <3>3, <3>6, <3>7
  <2> QED
    BY <2>3, <2>4, <2>5
<1>11. Nat \subseteq S
  <2> HIDE DEF S
  <2> QED
    BY <1>9, <1>10, NatInd
<1>12. Good(n, h[n])
  BY <1>1, <1>11
<1>13. Spare(listed, wanted) = h[n]
  BY <1>2 DEF h
<1> QED
  BY <1>3, <1>12, <1>13 DEF Spares, n

\* What is missing is wanted.
LEMMA LackingIs ==
  ASSUME NEW T, NEW listed, NEW wanted \in Seq(T)
  PROVE  Lacking(listed, wanted) \in Seq(T)
<1> DEFINE n == Len(wanted)
           Off(i) == wanted[i] \notin Range(listed)
           Up(f) == f = [i \in 0 .. n |->
                           IF i = 0 THEN <<>>
                           ELSE IF Off(i) THEN Append(f[i - 1], wanted[i]) ELSE f[i - 1]]
           X == Seq(T)
           g == [i \in 1 .. n |-> [s \in X |-> IF Off(i) THEN Append(s, wanted[i]) ELSE s]]
           z == <<>>
<1>1. n \in Nat /\ \A i \in 1 .. n : wanted[i] \in T
  OBVIOUS
<1>2. Lacking(listed, wanted) = (CHOOSE f : Up(f))[n]
  BY DEF Lacking
<1> HIDE DEF n, Off
<1>4. z \in X /\ Leads(g, X, n)
  BY <1>1 DEF Leads
<1>5. PICK f : Runs(f, g, X, n, z)
  <2> HIDE DEF g, X, z
  <2> QED
    BY <1>1, <1>4, Unfolds
<1>6. ASSUME NEW i \in 0 .. n, i # 0
      PROVE  f[i] = IF Off(i) THEN Append(f[i - 1], wanted[i]) ELSE f[i - 1]
  <2>1. i \in 1 .. n /\ i - 1 \in 0 .. n
    BY <1>1, <1>6
  <2>2. f[i - 1] \in X /\ f[i] = g[i][f[i - 1]]
    BY <1>5, <2>1 DEF Runs
  <2> QED
    BY <2>1, <2>2
<1>7. Up(f)
  BY <1>5, <1>6 DEF Runs
<1> DEFINE h == CHOOSE e : Up(e)
<1>8. Up(h)
  <2> HIDE DEF Up
  <2> QED
    BY <1>7
<1> HIDE DEF h
<1>9. h[0] \in X
  BY <1>1, <1>8
<1>10. ASSUME NEW i \in 1 .. n, h[i - 1] \in X PROVE h[i] \in X
  <2>1. i \in 0 .. n /\ i # 0
    BY <1>1
  <2>2. h[i] = IF Off(i) THEN Append(h[i - 1], wanted[i]) ELSE h[i - 1]
    BY <1>8, <2>1
  <2> QED
    BY <1>1, <1>10, <2>2
<1>11. \A i \in 0 .. n : h[i] \in X
  <2> HIDE DEF X
  <2> QED
    BY <1>1, <1>9, <1>10, Stays
<1>12. h[n] \in X
  BY <1>1, <1>11
<1> QED
  BY <1>2, <1>12 DEF h

\* The stages of a run of updates.
Staged(h, listed, run) ==
  h[0] = listed /\ \A i \in 1 .. Len(run) : h[i] = Updated(h[i - 1], run[i])

\* The fold over the updates yields one listing per update.
LEMMA StagesAre ==
  ASSUME NEW listed, NEW run, IsSeq(run)
  PROVE  \E h : Staged(h, listed, run) /\ Stages(listed, run) = [i \in 1 .. Len(run) |-> h[i]]
<1> DEFINE n == Len(run)
           Up(f) == f = [i \in 0 .. n |->
                           IF i = 0 THEN listed ELSE Updated(f[i - 1], run[i])]
           Part(m, f) == f[0] = listed /\ \A i \in 1 .. m : f[i] = Updated(f[i - 1], run[i])
           S == {m \in Nat : \E f : f = [i \in 0 .. m |-> f[i]] /\ Part(m, f)}
<1>1. n \in Nat /\ DOMAIN run = 1 .. n
  BY SeqDomain
<1>2. Stages(listed, run) = [i \in 1 .. n |-> (CHOOSE f : Up(f))[i]]
  BY <1>1 DEF Stages
<1> HIDE DEF n
<1>3. 0 \in S
  <2> DEFINE f == [i \in 0 .. 0 |-> listed]
  <2>1. f = [i \in 0 .. 0 |-> f[i]] /\ Part(0, f)
    OBVIOUS
  <2> HIDE DEF f, Part
  <2> QED
    BY <2>1
<1>4. ASSUME NEW m \in Nat, m \in S PROVE m + 1 \in S
  <2>1. PICK f : f = [i \in 0 .. m |-> f[i]] /\ Part(m, f)
    BY <1>4
  <2> DEFINE g == [i \in 0 .. m + 1 |-> IF i <= m THEN f[i] ELSE Updated(f[m], run[m + 1])]
  <2>2. g = [i \in 0 .. m + 1 |-> g[i]] /\ g[0] = listed
    BY <2>1
  <2>3. ASSUME NEW i \in 1 .. m + 1 PROVE g[i] = Updated(g[i - 1], run[i])
    <3>1. CASE i <= m
      <4>1. g[i] = f[i] /\ g[i - 1] = f[i - 1] /\ i \in 1 .. m
        BY <3>1
      <4> QED
        BY <2>1, <4>1
    <3>2. CASE i = m + 1
      <4>1. g[i] = Updated(f[m], run[i]) /\ g[i - 1] = f[m]
        BY <3>2
      <4> QED
        BY <4>1
    <3> QED
      BY <3>1, <3>2
  <2>4. Part(m + 1, g)
    BY <2>2, <2>3
  <2> HIDE DEF g, Part
  <2> QED
    BY <2>2, <2>4
<1>5. Nat \subseteq S
  <2> HIDE DEF S
  <2> QED
    BY <1>3, <1>4, NatInd
<1>6. PICK f : f = [i \in 0 .. n |-> f[i]] /\ Part(n, f)
  BY <1>1, <1>5
<1>7. Up(f)
  <2>1. \A i \in 0 .. n : f[i] = IF i = 0 THEN listed ELSE Updated(f[i - 1], run[i])
    BY <1>1, <1>6
  <2> HIDE DEF Part
  <2> QED
    BY <1>6, <2>1
<1> DEFINE h == CHOOSE e : Up(e)
<1>8. Up(h)
  <2> HIDE DEF Up
  <2> QED
    BY <1>7
<1>9. Stages(listed, run) = [i \in 1 .. n |-> h[i]]
  BY <1>2
<1> HIDE DEF h
<1>10. Staged(h, listed, run)
  BY <1>1, <1>8 DEF Staged, n
<1> QED
  BY <1>9, <1>10 DEF n

\* What the four updates make of a listing.
LEMMA UpdatedWhole ==
  ASSUME NEW l, NEW w
  PROVE  Updated(l, Transports(w)) = w
BY DEF Updated, Transports

LEMMA UpdatedReplace ==
  ASSUME NEW l, NEW i, NEW x
  PROVE  Updated(l, Replace(i, x)) = [l EXCEPT ![i] = x]
BY DEF Updated, Replace

LEMMA UpdatedDrop ==
  ASSUME NEW l, NEW i
  PROVE  Updated(l, Drop(i)) = RemoveAt(l, i)
BY DEF Updated, Drop

LEMMA UpdatedAdded ==
  ASSUME NEW l, NEW x
  PROVE  Updated(l, Added(x)) = Append(l, x)
BY DEF Updated, Added

\* Up to b, a stage s is still what was listed, but for the entries of r.
Intact(T, listed, s, b, r) ==
  /\ s \in Seq(T) /\ b \in 0 .. Len(s) /\ b <= Len(listed)
  /\ \A x \in 1 .. b : x \notin r => s[x] = listed[x]

\* A wanted transport is listed elsewhere than at a spare entry.
LEMMA StillListed ==
  ASSUME NEW T, NEW listed \in Seq(T), NEW wanted, NEW s, NEW b, NEW r,
         Intact(T, listed, s, b, r), \A y \in r : IsSpare(listed, wanted, y),
         NEW y \in 1 .. b, y \notin r, IsSpare(listed, wanted, y),
         NEW v \in Range(s) \cap Range(wanted)
  PROVE  \E z \in 1 .. Len(s) : z # y /\ s[z] = v
<1>1. PICK l, m \in Nat : l = Len(listed) /\ m = Len(s)
  BY DEF Intact
<1>2. b \in 0 .. m /\ b <= l /\ DOMAIN s = 1 .. m
  BY <1>1 DEF Intact
<1>3. PICK z \in 1 .. m : s[z] = v
  BY <1>2 DEF Range
<1>4. CASE z # y
  BY <1>1, <1>3, <1>4
<1>5. CASE z = y
  <2>1. listed[y] = v
    BY <1>3, <1>5 DEF Intact
  <2> DEFINE S == {j \in 1 .. y : listed[j] = v}
  <2>2. S \subseteq Nat /\ S # {}
    BY <1>2, <2>1
  <2>3. PICK j \in S : \A k \in S : j <= k
    <3> HIDE DEF S
    <3> QED
      BY <2>2, LeastNat
  <2>4. ~ IsSpare(listed, wanted, j)
    <3>1. ASSUME NEW k \in 1 .. j - 1, listed[k] = listed[j] PROVE FALSE
      <4>1. k \in S /\ k < j /\ k \in Nat /\ j \in Nat
        BY <2>3, <3>1
      <4> QED
        BY <2>3, <4>1
    <3>2. listed[j] \in Range(wanted)
      OBVIOUS
    <3> QED
      BY <3>1, <3>2 DEF IsSpare
  <2>5. j # y /\ j \notin r /\ j \in 1 .. b
    BY <1>2, <2>4
  <2>6. s[j] = v /\ j \in 1 .. m
    BY <1>2, <2>5 DEF Intact
  <2> QED
    BY <1>1, <2>5, <2>6
<1> QED
  BY <1>4, <1>5

\* Adding, replacing and dropping leave a stage intact.
LEMMA IntactAppend ==
  ASSUME NEW T, NEW listed \in Seq(T), NEW s, NEW b, NEW r, Intact(T, listed, s, b, r),
         NEW x \in T
  PROVE  Intact(T, listed, Append(s, x), b, r) /\ Range(s) \subseteq Range(Append(s, x))
<1>1. PICK t : t = Append(s, x)
  OBVIOUS
<1>2. s \in Seq(T)
  BY DEF Intact
<1>3. PICK m \in Nat : m = Len(s)
  BY <1>2
<1>4. t \in Seq(T) /\ Len(t) = m + 1 /\ \A i \in 1 .. m : t[i] = s[i]
  BY <1>1, <1>2, <1>3
<1>5. DOMAIN s = 1 .. m /\ DOMAIN t = 1 .. m + 1
  BY <1>2, <1>3, <1>4
<1>6. b \in 0 .. m /\ b <= Len(listed) /\ \A i \in 1 .. b : i \notin r => s[i] = listed[i]
  BY <1>3 DEF Intact
<1>7. b \in 0 .. m + 1 /\ \A i \in 1 .. b : i \notin r => t[i] = listed[i]
  BY <1>4, <1>6
<1>8. Intact(T, listed, t, b, r)
  BY <1>4, <1>6, <1>7 DEF Intact
<1>9. Range(s) \subseteq Range(t)
  BY <1>4, <1>5 DEF Range
<1> QED
  BY <1>1, <1>8, <1>9

LEMMA IntactReplace ==
  ASSUME NEW T, NEW listed \in Seq(T), NEW wanted, NEW s, NEW b, NEW r,
         Intact(T, listed, s, b, r), \A y \in r : IsSpare(listed, wanted, y),
         NEW y \in 1 .. b, y \notin r, IsSpare(listed, wanted, y), NEW x \in T
  PROVE  /\ Intact(T, listed, [s EXCEPT ![y] = x], b, r \cup {y})
         /\ Range(s) \cap Range(wanted) \subseteq Range([s EXCEPT ![y] = x])
<1>1. PICK t : t = [s EXCEPT ![y] = x]
  OBVIOUS
<1>2. s \in Seq(T)
  BY DEF Intact
<1>3. PICK m \in Nat : m = Len(s)
  BY <1>2
<1>4. b \in 0 .. m /\ b <= Len(listed) /\ \A i \in 1 .. b : i \notin r => s[i] = listed[i]
  BY <1>3 DEF Intact
<1>5. t \in Seq(T) /\ Len(t) = m /\ \A i \in 1 .. m : i # y => t[i] = s[i]
  BY <1>1, <1>2, <1>3, <1>4
<1>6. DOMAIN t = 1 .. m
  BY <1>3, <1>5
<1>7. \A i \in 1 .. b : i \notin r \cup {y} => t[i] = listed[i]
  BY <1>4, <1>5
<1>8. Intact(T, listed, t, b, r \cup {y})
  BY <1>4, <1>5, <1>7 DEF Intact
<1>9. ASSUME NEW v \in Range(s) \cap Range(wanted) PROVE v \in Range(t)
  <2>1. PICK z \in 1 .. m : z # y /\ s[z] = v
    BY <1>3, StillListed
  <2> QED
    BY <1>5, <1>6, <2>1 DEF Range
<1> QED
  BY <1>1, <1>8, <1>9

LEMMA IntactDrop ==
  ASSUME NEW T, NEW listed \in Seq(T), NEW wanted, NEW s, NEW b, NEW r,
         Intact(T, listed, s, b, r), \A y \in r : IsSpare(listed, wanted, y),
         NEW y \in 1 .. b, y \notin r, IsSpare(listed, wanted, y)
  PROVE  /\ Intact(T, listed, RemoveAt(s, y), y - 1, r)
         /\ Range(s) \cap Range(wanted) \subseteq Range(RemoveAt(s, y))
<1>1. PICK t : t = RemoveAt(s, y)
  OBVIOUS
<1>2. s \in Seq(T)
  BY DEF Intact
<1>3. PICK m \in Nat : m = Len(s)
  BY <1>2
<1>4. b \in 0 .. m /\ b <= Len(listed) /\ \A i \in 1 .. b : i \notin r => s[i] = listed[i]
  BY <1>3 DEF Intact
<1>a. PICK u, w : u = SubSeq(s, 1, y - 1) /\ w = SubSeq(s, y + 1, m)
  OBVIOUS
<1>b. /\ u \in Seq(T) /\ Len(u) = y - 1 /\ \A i \in 1 .. y - 1 : u[i] = s[i]
      /\ w \in Seq(T) /\ Len(w) = m - y /\ \A i \in 1 .. m - y : w[i] = s[y + i]
  BY <1>2, <1>3, <1>4, <1>a
<1>c. t = u \o w
  BY <1>1, <1>3, <1>a DEF RemoveAt
<1>d. y \in 1 .. m /\ y \in Nat /\ y - 1 \in Nat /\ m - y \in Nat
  BY <1>3, <1>4
<1>e. t \in Seq(T) /\ Len(t) = Len(u) + Len(w)
  BY <1>b, <1>c, ConcatProperties
<1>x. \A i \in 1 .. Len(u) + Len(w) : t[i] = IF i <= Len(u) THEN u[i] ELSE w[i - Len(u)]
  BY <1>b, <1>c, ConcatProperties, ZenonT(30)
<1>y. Len(u) \in Nat /\ Len(w) \in Nat
  BY <1>b, <1>d
<1>f. \A i \in 1 .. Len(u) : t[i] = u[i]
  BY <1>x, <1>y
<1>g. \A i \in 1 .. Len(w) : t[Len(u) + i] = w[i]
  <2> SUFFICES ASSUME NEW i \in 1 .. Len(w) PROVE t[Len(u) + i] = w[i]
    OBVIOUS
  <2>1. /\ Len(u) + i \in 1 .. Len(u) + Len(w) /\ ~(Len(u) + i <= Len(u))
        /\ (Len(u) + i) - Len(u) = i
    BY <1>y
  <2> QED
    BY <1>x, <2>1
<1>h. Len(t) = m - 1
  BY <1>b, <1>d, <1>e
<1>5. /\ t \in Seq(T) /\ Len(t) = m - 1 /\ \A i \in 1 .. y - 1 : t[i] = s[i]
      /\ \A i \in 1 .. m - y : t[y - 1 + i] = s[y + i]
  BY <1>b, <1>e, <1>f, <1>g, <1>h
<1>6. DOMAIN t = 1 .. m - 1
  BY <1>3, <1>5
<1>7. y - 1 \in 0 .. m - 1 /\ y - 1 <= Len(listed)
      /\ \A i \in 1 .. y - 1 : i \notin r => t[i] = listed[i]
  BY <1>4, <1>5
<1>8. Intact(T, listed, t, y - 1, r)
  BY <1>5, <1>7 DEF Intact
<1>9. ASSUME NEW v \in Range(s) \cap Range(wanted) PROVE v \in Range(t)
  <2>1. PICK z \in 1 .. m : z # y /\ s[z] = v
    BY <1>3, StillListed
  <2>2. CASE z < y
    <3>1. z \in 1 .. y - 1 /\ z \in 1 .. m - 1
      BY <1>4, <2>2
    <3> QED
      BY <1>5, <1>6, <2>1, <3>1 DEF Range
  <2>3. CASE y < z
    <3>a. z - y \in 1 .. m - y /\ z = y + (z - y)
      BY <1>d, <2>3
    <3>1. PICK i \in 1 .. m - y : z = y + i
      BY <3>a
    <3>2. y - 1 + i \in 1 .. m - 1
      BY <1>4, <3>1
    <3> QED
      BY <1>5, <1>6, <2>1, <3>1, <3>2 DEF Range
  <2> QED
    BY <1>4, <2>1, <2>2, <2>3
<1> QED
  BY <1>1, <1>8, <1>9

\* A function of 1 .. n is a sequence of n.
LEMMA FunctionIs ==
  ASSUME NEW n \in Nat, NEW f, f = [i \in 1 .. n |-> f[i]]
  PROVE  IsSeq(f) /\ Len(f) = n
<1> DEFINE X == {f[i] : i \in 1 .. n}
<1>1. f \in [1 .. n -> X]
  OBVIOUS
<1>2. f \in Seq(X)
  <2> HIDE DEF X
  <2> QED
    BY <1>1, SeqDef
<1>3. DOMAIN f = 1 .. n
  OBVIOUS
<1> HIDE DEF X
<1>4. Len(f) = n
  BY <1>2, <1>3
<1> QED
  BY <1>2, <1>4, SeqIs

\* c is a and then b.
Joins(c, a, b) ==
  /\ IsSeq(c) /\ Len(c) = Len(a) + Len(b)
  /\ \A i \in 1 .. Len(a) : c[i] = a[i]
  /\ \A i \in 1 .. Len(b) : c[Len(a) + i] = b[i]

LEMMA JoinIs ==
  ASSUME NEW a, IsSeq(a), NEW b, IsSeq(b)
  PROVE  Joins(a \o b, a, b)
<1>1. PICK X : X = {a[i] : i \in DOMAIN a} \cup {b[i] : i \in DOMAIN b}
  OBVIOUS
<1>2. a \in Seq(X) /\ b \in Seq(X)
  <2>1. /\ Len(a) \in Nat /\ DOMAIN a = 1 .. Len(a) /\ a = [i \in 1 .. Len(a) |-> a[i]]
        /\ Len(b) \in Nat /\ DOMAIN b = 1 .. Len(b) /\ b = [i \in 1 .. Len(b) |-> b[i]]
    BY DEF IsSeq
  <2>2. a \in [1 .. Len(a) -> X] /\ b \in [1 .. Len(b) -> X]
    BY <1>1, <2>1
  <2> QED
    BY <2>1, <2>2, SeqDef
<1>3. a \o b \in Seq(X) /\ Len(a \o b) = Len(a) + Len(b)
  BY <1>2, ConcatProperties
<1>4. \A i \in 1 .. Len(a) : (a \o b)[i] = a[i]
  BY <1>2
<1>5. \A i \in 1 .. Len(b) : (a \o b)[Len(a) + i] = b[i]
  BY <1>2
<1> QED
  BY <1>3, <1>4, <1>5, SeqIs DEF Joins

\* The run of edits: a transports added, p spare entries spent, q dropped.
Edited(T, e, listed, wanted, spare, missing, a, p, q) ==
  /\ Spares(spare, listed, wanted) /\ Len(spare) = p + q
  /\ missing \in Seq(T) /\ Len(missing) = p + a
  /\ IsSeq(e) /\ Len(e) = a + p + q
  /\ \A i \in 1 .. a : e[i] = Added(missing[p + i])
  /\ \A i \in 1 .. p : e[a + i] = Replace(spare[i], missing[i])
  /\ \A i \in 1 .. q : e[a + p + i] = Drop(spare[p + q + 1 - i])

\* Core::transport_edits yields such a run.
LEMMA EditsAre ==
  ASSUME NEW T, NEW listed \in Seq(T), NEW wanted \in Seq(T)
  PROVE  \E spare, missing : \E a, p, q \in Nat :
           Edited(T, TransportEdits(listed, wanted), listed, wanted, spare, missing, a, p, q)
<1>1. PICK spare, missing : spare = Spare(listed, wanted) /\ missing = Lacking(listed, wanted)
  OBVIOUS
<1>2. Spares(spare, listed, wanted) /\ missing \in Seq(T)
  BY <1>1, SpareIs, LackingIs, SeqIs
<1>3. PICK m, n \in Nat : m = Len(missing) /\ n = Len(spare)
  BY <1>2 DEF Spares
<1>4. PICK p \in Nat : p = IF n < m THEN n ELSE m
  BY <1>3
<1>5. PICK a, q \in Nat : a = m - p /\ q = n - p
  <2>1. m - p \in Nat /\ n - p \in Nat
    BY <1>3, <1>4
  <2> QED
    BY <2>1
<1> DEFINE f == [i \in 1 .. a |-> Added(missing[p + i])]
           g == [i \in 1 .. p |-> Replace(spare[i], missing[i])]
           h == [i \in 1 .. q |-> Drop(spare[n + 1 - i])]
<1>6. TransportEdits(listed, wanted) = (f \o g) \o h
  BY <1>1, <1>3, <1>4, <1>5 DEF TransportEdits
<1>7. /\ IsSeq(f) /\ Len(f) = a /\ IsSeq(g) /\ Len(g) = p /\ IsSeq(h) /\ Len(h) = q
  <2>1. f = [i \in 1 .. a |-> f[i]] /\ g = [i \in 1 .. p |-> g[i]] /\ h = [i \in 1 .. q |-> h[i]]
    OBVIOUS
  <2> HIDE DEF f, g, h
  <2> QED
    BY <2>1, FunctionIs
<1>8. /\ \A i \in 1 .. a : f[i] = Added(missing[p + i])
      /\ \A i \in 1 .. p : g[i] = Replace(spare[i], missing[i])
      /\ \A i \in 1 .. q : h[i] = Drop(spare[n + 1 - i])
  OBVIOUS
<1> HIDE DEF f, g, h
<1>9. PICK k : k = f \o g
  OBVIOUS
<1>10. /\ IsSeq(k) /\ Len(k) = a + p /\ \A i \in 1 .. a : k[i] = f[i]
       /\ \A i \in 1 .. p : k[a + i] = g[i]
  <2>1. Joins(k, f, g)
    BY <1>7, <1>9, JoinIs
  <2> QED
    BY <1>7, <2>1 DEF Joins
<1>11. PICK e : e = k \o h
  OBVIOUS
<1>12. /\ IsSeq(e) /\ Len(e) = a + p + q /\ \A i \in 1 .. a + p : e[i] = k[i]
       /\ \A i \in 1 .. q : e[a + p + i] = h[i]
  <2>1. Joins(e, k, h)
    BY <1>7, <1>10, <1>11, JoinIs
  <2> QED
    BY <1>7, <1>10, <2>1 DEF Joins
<1>13. n = p + q /\ m = p + a
  BY <1>3, <1>4, <1>5
<1>14. \A i \in 1 .. a : e[i] = Added(missing[p + i])
  <2>1. \A i \in 1 .. a : i \in 1 .. a + p
    OBVIOUS
  <2> QED
    BY <1>8, <1>10, <1>12, <2>1
<1>15. \A i \in 1 .. p : e[a + i] = Replace(spare[i], missing[i])
  BY <1>8, <1>10, <1>12
<1>16. \A i \in 1 .. q : e[a + p + i] = Drop(spare[p + q + 1 - i])
  BY <1>8, <1>12, <1>13
<1>17. Edited(T, e, listed, wanted, spare, missing, a, p, q)
  BY <1>2, <1>3, <1>12, <1>13, <1>14, <1>15, <1>16 DEF Edited
<1> QED
  BY <1>6, <1>9, <1>11, <1>17

\* What each edit leaves of the listing.
LEMMA EditsKeep ==
  ASSUME NEW T, NEW listed \in Seq(T), NEW wanted, NEW e, NEW spare, NEW missing,
         NEW a \in Nat, NEW p \in Nat, NEW q \in Nat,
         Edited(T, e, listed, wanted, spare, missing, a, p, q), NEW h, Staged(h, listed, e)
  PROVE  \A i \in 1 .. Len(e) :
           h[i] \in Seq(T) /\ Range(h[i - 1]) \cap Range(wanted) \subseteq Range(h[i])
<1>1. PICK n \in Nat : n = Len(listed)
  OBVIOUS
<1> DEFINE R(i) == {spare[k] : k \in {x \in 1 .. p : a + x <= i}}
           B(i) == IF i <= a + p THEN n ELSE spare[p + q + 1 - (i - (a + p))] - 1
           J(i) == Intact(T, listed, h[i], B(i), R(i))
           Ok(i) == Range(h[i - 1]) \cap Range(wanted) \subseteq Range(h[i])
           S == {i \in Nat : i <= a + p + q => J(i) /\ (i # 0 => Ok(i))}
<1>2. /\ spare \in Seq(1 .. n) /\ Len(spare) = p + q /\ missing \in Seq(T)
      /\ Len(missing) = p + a /\ Len(e) = a + p + q
  BY <1>1 DEF Edited, Spares
<1>3. \A k \in 1 .. p + q : spare[k] \in 1 .. n /\ IsSpare(listed, wanted, spare[k])
  BY <1>1, <1>2, EntryIn DEF Edited, Spares
<1>4. \A k, l \in 1 .. p + q : k < l => spare[k] < spare[l]
  BY <1>2 DEF Edited, Spares
<1>5. \A i : \A y \in R(i) : IsSpare(listed, wanted, y)
  BY <1>3
<1>6. 0 \in S
  <2>1. h[0] = listed /\ B(0) = n
    BY DEF Staged
  <2>2. n \in 0 .. Len(listed) /\ n <= Len(listed)
    BY <1>1
  <2> QED
    BY <2>1, <2>2 DEF Intact
<1>7. ASSUME NEW i \in Nat, i \in S PROVE i + 1 \in S
  <2> SUFFICES ASSUME i + 1 <= a + p + q PROVE J(i + 1) /\ Ok(i + 1)
    OBVIOUS
  <2>1. J(i)
    BY <1>7
  <2>2. h[i + 1] = Updated(h[i], e[i + 1]) /\ (i + 1) - 1 = i
    BY <1>2 DEF Staged
  <2>3. CASE i + 1 <= a
    <3>1. PICK x \in T : e[i + 1] = Added(x)
      <4>1. e[i + 1] = Added(missing[p + (i + 1)]) /\ p + (i + 1) \in 1 .. p + a
        BY <2>3 DEF Edited
      <4>2. missing[p + (i + 1)] \in T
        BY <1>2, <4>1, EntryIn
      <4> QED
        BY <4>1, <4>2
    <3>2. h[i + 1] = Append(h[i], x)
      BY <2>2, <3>1, UpdatedAdded
    <3>3. B(i + 1) = n /\ B(i) = n /\ R(i + 1) = {} /\ R(i) = {}
      BY <2>3
    <3>4. Intact(T, listed, h[i], n, {})
      BY <2>1, <3>3
    <3>5. Intact(T, listed, Append(h[i], x), n, {}) /\ Range(h[i]) \subseteq Range(Append(h[i], x))
      BY <3>4, IntactAppend
    <3> HIDE DEF R, B
    <3> QED
      BY <2>2, <3>2, <3>3, <3>5
  <2>4. CASE ~ (i + 1 <= a) /\ i + 1 <= a + p
    <3>1. PICK k \in 1 .. p : i + 1 = a + k
      <4>1. (i + 1) - a \in 1 .. p /\ i + 1 = a + ((i + 1) - a)
        BY <2>4
      <4> QED
        BY <4>1
    <3>2. PICK x \in T : e[i + 1] = Replace(spare[k], x)
      <4>1. e[i + 1] = Replace(spare[k], missing[k]) /\ k \in 1 .. p + a
        BY <3>1 DEF Edited
      <4>2. missing[k] \in T
        BY <1>2, <4>1, EntryIn
      <4> QED
        BY <4>1, <4>2
    <3>3. PICK y : y = spare[k] /\ y \in 1 .. n /\ IsSpare(listed, wanted, y)
      BY <1>3, <3>1
    <3>4. h[i + 1] = [h[i] EXCEPT ![y] = x]
      BY <2>2, <3>2, <3>3, UpdatedReplace
    <3>5. B(i + 1) = n /\ B(i) = n
      BY <2>4
    <3>6. R(i + 1) = R(i) \cup {y}
      <4>1. \A z \in 1 .. p : a + z <= i + 1 <=> a + z <= i \/ z = k
        BY <3>1
      <4> QED
        BY <3>3, <4>1
    <3>7. y \notin R(i)
      <4> SUFFICES ASSUME NEW z \in 1 .. p, a + z <= i, spare[z] = y PROVE FALSE
        OBVIOUS
      <4>1. z < k /\ z \in 1 .. p + q /\ k \in 1 .. p + q
        BY <3>1
      <4>2. spare[z] < spare[k]
        BY <1>4, <4>1
      <4> QED
        BY <1>3, <3>3, <4>1, <4>2
    <3>8. Intact(T, listed, h[i], n, R(i)) /\ \A z \in R(i) : IsSpare(listed, wanted, z)
      BY <1>5, <2>1, <3>5
    <3> HIDE DEF R, B
    <3>9. /\ Intact(T, listed, [h[i] EXCEPT ![y] = x], n, R(i) \cup {y})
          /\ Range(h[i]) \cap Range(wanted) \subseteq Range([h[i] EXCEPT ![y] = x])
      <4>1. PICK s, r : s = h[i] /\ r = R(i)
        OBVIOUS
      <4> QED
        BY <3>3, <3>7, <3>8, <4>1, IntactReplace
    <3> QED
      BY <2>2, <3>4, <3>5, <3>6, <3>9
  <2>5. CASE ~ (i + 1 <= a + p)
    <3>1. PICK k \in 1 .. q : i + 1 = a + p + k
      <4>1. (i + 1) - (a + p) \in 1 .. q /\ i + 1 = a + p + ((i + 1) - (a + p))
        BY <2>5
      <4> QED
        BY <4>1
    <3>2. PICK d \in 1 .. p + q : d = p + q + 1 - k /\ p < d
      <4>1. p + q + 1 - k \in 1 .. p + q /\ p < p + q + 1 - k
        OBVIOUS
      <4> QED
        BY <4>1
    <3>3. PICK y : y = spare[d] /\ y \in 1 .. n /\ IsSpare(listed, wanted, y)
      BY <1>3
    <3>4. h[i + 1] = RemoveAt(h[i], y)
      <4>1. e[i + 1] = Drop(y)
        BY <3>1, <3>2, <3>3 DEF Edited
      <4> QED
        BY <2>2, <4>1, UpdatedDrop
    <3>5. B(i + 1) = y - 1
      BY <2>5, <3>1, <3>2, <3>3
    <3>6. y \in 1 .. B(i)
      <4>1. CASE k = 1
        BY <3>1, <3>3, <4>1
      <4>2. CASE k # 1
        <5>1. d + 1 \in 1 .. p + q /\ ~ (i <= a + p) /\ p + q + 1 - (i - (a + p)) = d + 1
          BY <3>1, <3>2, <4>2
        <5>2. B(i) = spare[d + 1] - 1
          BY <5>1
        <5>3. spare[d] < spare[d + 1] /\ spare[d + 1] \in 1 .. n
          BY <1>3, <1>4, <5>1
        <5> QED
          BY <1>1, <3>3, <5>2, <5>3
      <4> QED
        BY <4>1, <4>2
    <3>7. R(i + 1) = R(i)
      <4>1. \A z \in 1 .. p : a + z <= i + 1 /\ a + z <= i
        BY <3>1
      <4> QED
        BY <4>1
    <3>8. y \notin R(i)
      <4> SUFFICES ASSUME NEW z \in 1 .. p, spare[z] = y PROVE FALSE
        OBVIOUS
      <4>1. z < d /\ z \in 1 .. p + q
        BY <3>2
      <4>2. spare[z] < spare[d]
        BY <1>4, <4>1
      <4> QED
        BY <1>3, <3>3, <4>1, <4>2
    <3>9. Intact(T, listed, h[i], B(i), R(i)) /\ \A z \in R(i) : IsSpare(listed, wanted, z)
      BY <1>5, <2>1
    <3> HIDE DEF R, B
    <3>10. /\ Intact(T, listed, RemoveAt(h[i], y), y - 1, R(i))
           /\ Range(h[i]) \cap Range(wanted) \subseteq Range(RemoveAt(h[i], y))
      <4>1. PICK s, b, r : s = h[i] /\ b = B(i) /\ r = R(i)
        OBVIOUS
      <4> QED
        BY <3>3, <3>6, <3>8, <3>9, <4>1, IntactDrop
    <3> QED
      BY <2>2, <3>4, <3>5, <3>7, <3>10
  <2> QED
    BY <2>3, <2>4, <2>5
<1>8. Nat \subseteq S
  <2> HIDE DEF S
  <2> QED
    BY <1>6, <1>7, NatInd
<1> SUFFICES ASSUME NEW i \in 1 .. a + p + q PROVE h[i] \in Seq(T) /\ Ok(i)
  BY <1>2
<1>9. J(i) /\ Ok(i)
  <2>1. i \in Nat /\ i <= a + p + q /\ i # 0
    OBVIOUS
  <2>2. i \in S
    BY <1>8, <2>1
  <2> HIDE DEF J, Ok
  <2> QED
    BY <2>1, <2>2
<1> QED
  BY <1>9 DEF Intact

\* A run of updates, and what each leaves of the listing.
Keeps(T, listed, wanted, run) ==
  /\ IsSeq(run) /\ run # <<>>
  /\ \E h : /\ h[0] = listed /\ Stages(listed, run) = [i \in 1 .. Len(run) |-> h[i]]
            /\ \A i \in 1 .. Len(run) :
                 h[i] \in Seq(T) /\ Range(h[i - 1]) \cap Range(wanted) \subseteq Range(h[i])

\* So does the batch that is advertised, also when it is one whole listing.
LEMMA BatchKeeps ==
  ASSUME NEW T, NEW listed \in Seq(T), NEW wanted \in Seq(T)
  PROVE  Keeps(T, listed, wanted, AdvertiseBatch(listed, wanted))
<1>1. PICK run : run = AdvertiseBatch(listed, wanted)
  OBVIOUS
<1>2. CASE run = <<Transports(wanted)>>
  <2>1. IsSeq(run) /\ Len(run) = 1 /\ run[1] = Transports(wanted) /\ run # <<>>
    <3>1. run \in Seq({Transports(wanted)})
      BY <1>2
    <3>2. Len(run) = 1 /\ run[1] = Transports(wanted)
      BY <1>2
    <3>3. run # <<>>
      <4>1. Len(<<>>) = 0 /\ 0 # 1
        BY EmptyIn
      <4> QED
        BY ONLY <3>2, <4>1
    <3> QED
      BY <3>1, <3>2, <3>3, SeqIs
  <2>2. PICK h : Staged(h, listed, run)
                 /\ Stages(listed, run) = [i \in 1 .. Len(run) |-> h[i]]
    BY <2>1, StagesAre
  <2>3. h[0] = listed /\ h[1] = Updated(h[1 - 1], run[1])
    BY <2>1, <2>2 DEF Staged
  <2>4. h[1] = wanted
    BY <2>1, <2>3, UpdatedWhole
  <2>5. ASSUME NEW i \in 1 .. 1
        PROVE  h[i] \in Seq(T) /\ Range(h[i - 1]) \cap Range(wanted) \subseteq Range(h[i])
    <3>1. i = 1
      OBVIOUS
    <3> QED
      BY <2>4, <3>1
  <2> QED
    BY <1>1, <2>1, <2>2, <2>3, <2>5 DEF Keeps
<1>3. CASE run = TransportEdits(listed, wanted) /\ run # <<>>
  <2>1. PICK spare, missing : \E a, p, q \in Nat :
          Edited(T, run, listed, wanted, spare, missing, a, p, q)
    BY <1>3, EditsAre
  <2>2. PICK a, p, q \in Nat : Edited(T, run, listed, wanted, spare, missing, a, p, q)
    BY <2>1
  <2>3. IsSeq(run)
    BY <2>2 DEF Edited
  <2>4. PICK h : Staged(h, listed, run)
                 /\ Stages(listed, run) = [i \in 1 .. Len(run) |-> h[i]]
    BY <2>3, StagesAre
  <2>5. \A i \in 1 .. Len(run) :
          h[i] \in Seq(T) /\ Range(h[i - 1]) \cap Range(wanted) \subseteq Range(h[i])
    BY <2>2, <2>4, EditsKeep
  <2>6. h[0] = listed
    BY <2>4 DEF Staged
  <2> QED
    BY <1>1, <1>3, <2>3, <2>4, <2>5, <2>6 DEF Keeps
<1>4. run = <<Transports(wanted)>> \/ (run = TransportEdits(listed, wanted) /\ run # <<>>)
  <2>1. PICK edits, whole : edits = TransportEdits(listed, wanted)
                            /\ whole = <<Transports(wanted)>>
    OBVIOUS
  <2>2. run = IF edits # <<>> /\ BatchCost(edits) < BatchCost(whole) THEN edits ELSE whole
    BY <1>1, <2>1 DEF AdvertiseBatch
  <2>3. CASE edits # <<>> /\ BatchCost(edits) < BatchCost(whole)
    BY <2>1, <2>2, <2>3
  <2>4. CASE ~ (edits # <<>> /\ BatchCost(edits) < BatchCost(whole))
    BY <2>1, <2>2, <2>4
  <2> QED
    BY <2>3, <2>4
<1> QED
  BY <1>2, <1>3, <1>4

\* The latest entry of a kind.
LEMMA LatestLast ==
  ASSUME NEW s, IsSeq(s), NEW n \in Nat \ {0}, n = Len(s), NEW kind, s[n].kind = kind, NEW old
  PROVE  Latest(s, kind, old) = s[n].val
<1> DEFINE S == {i \in 1 .. Len(s) : s[i].kind = kind}
<1>1. S \subseteq Nat /\ n \in S /\ S # {} /\ \A y \in S : y <= n
  OBVIOUS
<1>2. Latest(s, kind, old) = IF S = {} THEN old ELSE s[Max(S)].val
  BY DEF Latest
<1> HIDE DEF S
<1>3. Max(S) = n
  BY <1>1, MaxIs
<1> QED
  BY <1>1, <1>2, <1>3

LEMMA LatestIn ==
  ASSUME NEW s, IsSeq(s), NEW kind, NEW V, NEW old \in V,
         \A i \in 1 .. Len(s) : s[i].kind = kind => s[i].val \in V
  PROVE  Latest(s, kind, old) \in V
<1> DEFINE S == {i \in 1 .. Len(s) : s[i].kind = kind}
<1>1. PICK n \in Nat : n = Len(s)
  BY SeqDomain
<1>2. S \subseteq 0 .. n /\ \A i \in S : s[i].val \in V
  BY <1>1
<1>3. Latest(s, kind, old) = IF S = {} THEN old ELSE s[Max(S)].val
  BY DEF Latest
<1> HIDE DEF S
<1>4. S # {} => Max(S) \in S
  BY <1>2, MaxOf
<1> QED
  BY <1>2, <1>3, <1>4

\* Two sequences that agree up to n.
LEMMA SamePrefix ==
  ASSUME NEW s, IsSeq(s), NEW t, IsSeq(t), NEW n \in Nat, n <= Len(s), n <= Len(t),
         \A i \in 1 .. n : s[i] = t[i]
  PROVE  /\ SubSeq(s, 1, n) = SubSeq(t, 1, n)
         /\ IsSeq(SubSeq(s, 1, n)) /\ Len(SubSeq(s, 1, n)) = n
         /\ \A i \in 1 .. n : SubSeq(s, 1, n)[i] = s[i]
         /\ n = Len(s) => SubSeq(s, 1, n) = s
<1>1. PICK X : X = {s[i] : i \in DOMAIN s} \cup {t[i] : i \in DOMAIN t}
  OBVIOUS
<1>2. s \in Seq(X) /\ t \in Seq(X)
  <2>1. /\ Len(s) \in Nat /\ DOMAIN s = 1 .. Len(s) /\ s = [i \in 1 .. Len(s) |-> s[i]]
        /\ Len(t) \in Nat /\ DOMAIN t = 1 .. Len(t) /\ t = [i \in 1 .. Len(t) |-> t[i]]
    BY DEF IsSeq
  <2>2. s \in [1 .. Len(s) -> X] /\ t \in [1 .. Len(t) -> X]
    BY <1>1, <2>1
  <2> QED
    BY <2>1, <2>2, SeqDef
<1>3. PICK u, v : u = SubSeq(s, 1, n) /\ v = SubSeq(t, 1, n)
  OBVIOUS
<1>4. /\ u \in Seq(X) /\ Len(u) = n /\ \A i \in 1 .. n : u[i] = s[i]
      /\ v \in Seq(X) /\ Len(v) = n /\ \A i \in 1 .. n : v[i] = t[i]
  BY <1>2, <1>3
<1>5. u = v
  BY <1>4, SeqEqual
<1>6. n = Len(s) => u = s
  BY <1>2, <1>4, SeqEqual
<1>7. IsSeq(u)
  BY <1>4, SeqIs
<1> QED
  BY <1>3, <1>4, <1>5, <1>6, <1>7

-----------------------------------------------------------------------------
(* What the core writes.                                                   *)

\* Listings on the path are listings this system writes.
Ledgered == \A i \in 1 .. Len(path) : path[i].kind = "listing" => path[i].val \in Listings

\* The core's own state.
CoreInv == GoodPath /\ Ledgered /\ StaysReachable

\* And so is the one that stands.
LEMMA ListingTyped ==
  ASSUME GoodPath, Ledgered
  PROVE  Listing \in Listings
<1>1. Listed \in Listings
  BY LedgerAssumption DEF Known
<1>2. IsSeq(path) /\ \A i \in 1 .. Len(path) : path[i].kind = "listing" => path[i].val \in Listings
  BY DEF GoodPath, Ledgered
<1>3. PICK p, V, old : p = path /\ V = Listings /\ old = Listed
  OBVIOUS
<1>4. Latest(p, "listing", old) \in V
  BY <1>1, <1>2, <1>3, LatestIn
<1> QED
  BY <1>3, <1>4 DEF Listing, ListingIn

LEMMA NamesAre ==
  ASSUME NEW l \in Seq(Transport)
  PROVE  l \notin {None, Other} /\ Names(l) = Range(l) \ Unknown
<1>1. l \notin {None, Other}
  BY LedgerAssumption
<1> QED
  BY <1>1 DEF Names

\* What is left of a listing that is wanted stays named.
LEMMA NamesKept ==
  ASSUME NEW a \in Seq(Transport), NEW b \in Seq(Transport), NEW W,
         Range(a) \cap W \subseteq Range(b)
  PROVE  Names(a) \cap W \subseteq Names(b)
BY NamesAre

\* The run Core::advertise writes, on top of listing `listed`.
SignedWell(new, listed, at) ==
  /\ Sound(new) /\ new # <<>>
  /\ \A i \in 1 .. Len(new) :
       /\ new[i].kind = "listing" /\ new[i].val \in Seq(Transport) /\ new[i].to = at
       /\ Names(IF i = 1 THEN listed ELSE new[i - 1].val) \cap Range(Wanted[at])
            \subseteq Names(new[i].val)

\* What sign_updates makes of the batch is such a run.
LEMMA SignedIs ==
  ASSUME GoodPath, Ledgered, Listing \notin {None, Other}, NEW at \in DOMAIN Wanted
  PROVE  SignedWell(Signed(AdvertiseBatch(Listing, Wanted[at]), at), Listing, at)
<1>1. PICK listed, w, T : listed = Listing /\ w = Wanted[at] /\ T = Transport
  OBVIOUS
<1>2. listed \in Seq(T) /\ w \in Seq(T)
  <2>1. listed \in Seq(T)
    BY <1>1, ListingTyped DEF Listings
  <2>2. Wanted \in Seq(Seq(T))
    BY <1>1, LedgerAssumption
  <2>3. at \in 1 .. Len(Wanted)
    BY <2>2
  <2>4. Wanted[at] \in Seq(T)
    BY <2>2, <2>3, EntryIn
  <2> QED
    BY <1>1, <2>1, <2>4
<1>3. PICK run : run = AdvertiseBatch(listed, w)
  OBVIOUS
<1>4. Keeps(T, listed, w, run)
  BY <1>2, <1>3, BatchKeeps
<1>5. PICK h : /\ h[0] = listed /\ Stages(listed, run) = [i \in 1 .. Len(run) |-> h[i]]
               /\ \A i \in 1 .. Len(run) :
                    h[i] \in Seq(T) /\ Range(h[i - 1]) \cap Range(w) \subseteq Range(h[i])
  BY <1>4 DEF Keeps
<1>6. PICK n \in Nat \ {0} : n = Len(run) /\ DOMAIN run = 1 .. n
  <2>1. IsSeq(run) /\ run # <<>>
    BY <1>4 DEF Keeps
  <2>2. Len(run) \in Nat /\ DOMAIN run = 1 .. Len(run)
    BY <2>1, SeqDomain
  <2>3. Len(run) # 0
    BY <2>1 DEF IsSeq
  <2> QED
    BY <2>2, <2>3
<1> DEFINE place(u) == IF "replace" \in DOMAIN u THEN <<u.replace>>
                       ELSE IF "drop" \in DOMAIN u THEN <<u.drop>> ELSE <<>>
           E(i) == [kind |-> "listing", key |-> Own.key, path |-> Own.path \o place(run[i]),
                    val |-> h[i], to |-> at]
<1>7. PICK new : new = Signed(run, at)
  OBVIOUS
<1>8. new = [i \in 1 .. n |-> E(i)]
  <2>1. PICK st : st = Stages(listed, run)
    OBVIOUS
  <2>2. \A i \in 1 .. n : st[i] = h[i]
    BY <1>5, <1>6, <2>1
  <2>3. new = [i \in 1 .. n |->
                 [kind |-> "listing", key |-> Own.key, path |-> Own.path \o place(run[i]),
                  val |-> st[i], to |-> at]]
    BY <1>1, <1>6, <1>7, <2>1 DEF Signed
  <2> HIDE DEF place
  <2> QED
    BY <2>2, <2>3
<1>9. \A u : IsSeq(Own.path \o place(u))
  <2> SUFFICES ASSUME NEW u PROVE IsSeq(Own.path \o place(u))
    OBVIOUS
  <2>1. IsSeq(place(u))
    <3>1. \A x : IsSeq(<<x>>)
      <4> SUFFICES ASSUME NEW x PROVE IsSeq(<<x>>)
        OBVIOUS
      <4>1. <<x>> \in Seq({x})
        OBVIOUS
      <4> QED
        BY <4>1, SeqIs
    <3> QED
      BY <3>1, EmptyIs
  <2>2. PICK a, b : a = Own.path /\ b = place(u)
    OBVIOUS
  <2>3. IsSeq(a) /\ IsSeq(b)
    BY <2>1, <2>2, LedgerAssumption
  <2>4. Joins(a \o b, a, b)
    BY <2>3, JoinIs
  <2> HIDE DEF place
  <2> QED
    BY <2>2, <2>4 DEF Joins
<1>10. \A i \in 1 .. n : E(i).kind = "listing" /\ E(i).val = h[i] /\ E(i).to = at
                         /\ IsSeq(E(i).path)
  <2> HIDE DEF place
  <2> QED
    BY <1>9
<1> HIDE DEF E
<1>11. \A i \in 1 .. n : new[i] = E(i)
  BY <1>8
<1>12. IsSeq(new) /\ Len(new) = n
  <2>1. new = [i \in 1 .. n |-> new[i]]
    BY <1>8
  <2> QED
    BY <2>1, FunctionIs
<1>13. Sound(new)
  BY <1>10, <1>11, <1>12 DEF Sound
<1>14. new # <<>>
  <2>1. Len(<<>>) = 0
    BY EmptyIn
  <2> QED
    BY ONLY <1>12, <2>1, n \in Nat \ {0}
<1>15. ASSUME NEW i \in 1 .. n
       PROVE  /\ new[i].kind = "listing" /\ new[i].val \in Seq(T) /\ new[i].to = at
              /\ Names(IF i = 1 THEN listed ELSE new[i - 1].val) \cap Range(w)
                   \subseteq Names(new[i].val)
  <2>1. new[i].kind = "listing" /\ new[i].val = h[i] /\ new[i].to = at /\ h[i] \in Seq(T)
    BY <1>5, <1>6, <1>10, <1>11
  <2>2. (IF i = 1 THEN listed ELSE new[i - 1].val) = h[i - 1] /\ h[i - 1] \in Seq(T)
    <3>1. CASE i = 1
      BY <1>2, <1>5, <3>1
    <3>2. CASE i # 1
      <4>1. i - 1 \in 1 .. n
        BY <3>2
      <4> QED
        BY <1>5, <1>6, <1>10, <1>11, <3>2, <4>1
    <3> QED
      BY <3>1, <3>2
  <2>3. PICK a, b : a = h[i - 1] /\ b = h[i]
    OBVIOUS
  <2>4. Range(a) \cap Range(w) \subseteq Range(b)
    BY <1>5, <1>6, <2>3
  <2>5. Names(a) \cap Range(w) \subseteq Names(b)
    BY <1>1, <2>1, <2>2, <2>3, <2>4, NamesKept
  <2> QED
    BY <2>1, <2>2, <2>3, <2>5
<1>16. SignedWell(new, listed, at)
  BY <1>1, <1>12, <1>13, <1>14, <1>15 DEF SignedWell
<1> QED
  BY <1>1, <1>3, <1>7, <1>16

\* The listing before an entry that is put on the path.
Before(keep, run, j) ==
  IF j = 1 THEN ListingIn(SubSeq(path, 1, keep)) ELSE run[j - 1].val

\* A run that may be put on the path: what others write, or what was signed.
Fit(keep, run) ==
  /\ Sound(run)
  /\ \A j \in 1 .. Len(run) :
       /\ run[j].kind = "listing" => run[j].val \in Listings
       /\ run[j].to # None =>
            /\ \A i \in 1 .. Len(run) : run[i].kind = "listing"
            /\ Names(Before(keep, run, j)) \cap Range(Wanted[run[j].to]) \subseteq Names(run[j].val)

\* A fitting run keeps the core's state good, and every listed transport wanted.
LEMMA CoreGrows ==
  ASSUME CoreInv, NEW keep \in 1 .. Len(path), NEW run, Fit(keep, run),
         path' = Grown(keep, run), made' = made + Len(run)
  PROVE  CoreInv'
<1>1. GoodPath /\ Sound(run)
  BY DEF CoreInv, Fit
<1>2. GoodPath'
  BY <1>1, GrownGood
<1>3. PICK new : new = Grown(keep, run)
  OBVIOUS
<1>4. /\ IsSeq(new) /\ Len(new) = keep + Len(run)
      /\ \A i \in 1 .. keep : new[i] = path[i]
      /\ \A i \in 1 .. Len(run) : new[keep + i] = Envelope(i, run[i])
  BY <1>1, <1>3, GrownIs DEF GoodPath, Sound
<1>5. PICK l, n \in Nat : l = Len(path) /\ n = Len(run)
  BY <1>1, SeqDomain DEF GoodPath, Sound
<1>6. PICK old : old = path /\ IsSeq(old)
  BY <1>1 DEF GoodPath
<1>7. \A i \in 1 .. n : /\ new[keep + i].kind = run[i].kind /\ new[keep + i].val = run[i].val
                        /\ new[keep + i].to = run[i].to
  <2> SUFFICES ASSUME NEW i \in 1 .. n
               PROVE  /\ new[keep + i].kind = run[i].kind /\ new[keep + i].val = run[i].val
                      /\ new[keep + i].to = run[i].to
    OBVIOUS
  <2>1. new[keep + i] = Envelope(i, run[i])
    BY <1>4, <1>5
  <2> QED
    BY <2>1 DEF Envelope
<1>8. \A i \in 1 .. keep + n : (i \in 1 .. keep /\ i \in 1 .. l) \/ \E j \in 1 .. n : i = keep + j
  <2> SUFFICES ASSUME NEW i \in 1 .. keep + n, ~ (i <= keep) PROVE \E j \in 1 .. n : i = keep + j
    BY <1>5
  <2>1. i - keep \in 1 .. n /\ i = keep + (i - keep)
    BY <1>5
  <2> QED
    BY <2>1
<1>9. path' = new /\ Len(new) = keep + n
  BY <1>3, <1>4, <1>5
<1>10. Ledgered'
  <2> SUFFICES ASSUME NEW i \in 1 .. keep + n, new[i].kind = "listing"
               PROVE  new[i].val \in Listings
    BY <1>9 DEF Ledgered
  <2>1. CASE i \in 1 .. keep /\ i \in 1 .. l
    BY <1>4, <1>5, <2>1 DEF CoreInv, Ledgered
  <2>2. CASE \E j \in 1 .. n : i = keep + j
    BY <1>5, <1>7, <2>2 DEF Fit
  <2> QED
    BY <1>8, <2>1, <2>2
<1>11. StaysReachable'
  <2> SUFFICES ASSUME NEW i \in 2 .. keep + n, new[i].to # None
               PROVE  Names(ListingIn(SubSeq(new, 1, i - 1))) \cap Range(Wanted[new[i].to])
                        \subseteq Names(new[i].val)
    BY <1>9 DEF StaysReachable
  <2>1. CASE i \in 1 .. keep /\ i \in 1 .. l
    <3>1. new[i] = old[i] /\ i \in 2 .. l
      BY <1>4, <1>6, <2>1
    <3>2. SubSeq(new, 1, i - 1) = SubSeq(old, 1, i - 1)
      <4>1. i - 1 \in Nat /\ i - 1 <= Len(new) /\ i - 1 <= Len(old)
            /\ \A k \in 1 .. i - 1 : new[k] = old[k]
        BY <1>4, <1>5, <1>6, <1>9, <2>1
      <4> QED
        BY <1>4, <1>6, <4>1, SamePrefix
    <3>3. Names(ListingIn(SubSeq(old, 1, i - 1))) \cap Range(Wanted[old[i].to])
            \subseteq Names(old[i].val)
      BY <1>5, <1>6, <3>1 DEF CoreInv, StaysReachable
    <3> QED
      BY <3>1, <3>2, <3>3
  <2>2. CASE \E j \in 1 .. n : i = keep + j
    <3>1. PICK j \in 1 .. n : i = keep + j
      BY <2>2
    <3>2. new[i].to = run[j].to /\ new[i].val = run[j].val /\ run[j].to # None
      BY <1>7, <3>1
    <3>3. /\ \A k \in 1 .. n : run[k].kind = "listing"
          /\ Names(Before(keep, run, j)) \cap Range(Wanted[run[j].to]) \subseteq Names(run[j].val)
      BY <1>5, <3>2 DEF Fit
    <3>4. ListingIn(SubSeq(new, 1, i - 1)) = Before(keep, run, j)
      <4>1. CASE j = 1
        <5>1. keep \in Nat /\ keep <= Len(new) /\ keep <= Len(old)
              /\ \A k \in 1 .. keep : new[k] = old[k]
          BY <1>4, <1>5, <1>6, <1>9
        <5>2. SubSeq(new, 1, keep) = SubSeq(old, 1, keep)
          BY <1>4, <1>6, <5>1, SamePrefix
        <5>3. i - 1 = keep
          BY <3>1, <4>1, <5>1
        <5> QED
          BY <1>6, <4>1, <5>2, <5>3 DEF Before
      <4>2. CASE j # 1
        <5>1. PICK m \in Nat \ {0} : m = i - 1 /\ m <= keep + n /\ m = keep + (j - 1)
                                     /\ j - 1 \in 1 .. n
          BY <1>5, <3>1, <4>2
        <5>2. PICK s : s = SubSeq(new, 1, m)
          OBVIOUS
        <5>3. IsSeq(s) /\ Len(s) = m /\ \A k \in 1 .. m : s[k] = new[k]
          BY <1>4, <1>9, <5>1, <5>2, SamePrefix
        <5>4. s[m] = new[keep + (j - 1)]
          <6>1. m \in 1 .. m
            BY <5>1
          <6>2. s[m] = new[m]
            BY <5>3, <6>1
          <6> QED
            BY <5>1, <6>2
        <5>5. s[m].kind = "listing" /\ s[m].val = run[j - 1].val
          BY <1>7, <3>3, <5>1, <5>4
        <5>6. ListingIn(s) = s[m].val
          <6>1. PICK kind, from : kind = "listing" /\ from = Listed
            OBVIOUS
          <6>2. m \in Nat \ {0} /\ IsSeq(s) /\ m = Len(s) /\ s[m].kind = kind
            BY <5>1, <5>3, <5>5, <6>1
          <6>3. Latest(s, kind, from) = s[m].val
            BY <6>2, LatestLast
          <6> QED
            BY <6>1, <6>3 DEF ListingIn
        <5> QED
          BY <4>2, <5>1, <5>2, <5>5, <5>6 DEF Before
      <4> QED
        BY <4>1, <4>2
    <3> QED
      BY <3>2, <3>3, <3>4
  <2> QED
    BY <1>8, <2>1, <2>2
<1> QED
  BY <1>2, <1>10, <1>11 DEF CoreInv

\* What others write fits.
LEMMA ForeignFits ==
  ASSUME NEW w \in Foreign, NEW keep
  PROVE  Fit(keep, <<w>>)
<1>1. PICK run : run = <<w>>
  OBVIOUS
<1>2. IsSeq(run) /\ Len(run) = 1 /\ run[1] = w
  <2>1. run \in Seq({w}) /\ Len(run) = 1 /\ run[1] = w
    BY <1>1
  <2> QED
    BY <2>1, SeqIs
<1>3. IsSeq(w.path) /\ w.to = None
  BY LedgerAssumption
<1>4. w.kind = "listing" => w.val \in Listings
  <2> SUFFICES ASSUME w.kind = "listing" PROVE w.val \in Listings
    OBVIOUS
  <2>1. w.val \in {x.val : x \in {v \in Foreign : v.kind = "listing"}}
    OBVIOUS
  <2>2. w.val \in Known
    BY <2>1 DEF Known
  <2> QED
    BY <2>2, LedgerAssumption
<1>5. \A j \in 1 .. 1 : run[j] = w
  BY <1>2
<1>6. Fit(keep, run)
  BY <1>2, <1>3, <1>4, <1>5 DEF Fit, Sound
<1> QED
  BY <1>1, <1>6

\* So does what the publisher has signed.
LEMMA SignedFits ==
  ASSUME CoreInv, Listing \notin {None, Other}, NEW at \in DOMAIN Wanted
  PROVE  Fit(Len(path), Signed(AdvertiseBatch(Listing, Wanted[at]), at))
<1>1. PICK new, listed : new = Signed(AdvertiseBatch(Listing, Wanted[at]), at)
                         /\ listed = Listing
  OBVIOUS
<1>2. SignedWell(new, listed, at)
  BY <1>1, SignedIs DEF CoreInv
<1>3. PICK n \in Nat : n = Len(new)
  BY <1>2, SeqDomain DEF SignedWell, Sound
<1>4. ListingIn(SubSeq(path, 1, Len(path))) = listed
  <2>1. PICK p, l : p = path /\ l = Len(p) /\ IsSeq(p) /\ l \in Nat
    BY SeqDomain DEF CoreInv, GoodPath
  <2>2. SubSeq(p, 1, l) = p
    BY <2>1, SamePrefix
  <2> QED
    BY <1>1, <2>1, <2>2 DEF Listing
<1>5. \A j \in 1 .. n : Before(Len(path), new, j) = IF j = 1 THEN listed ELSE new[j - 1].val
  BY <1>4 DEF Before
<1>6. \A j \in 1 .. n : new[j].val \in Listings
  BY <1>2, <1>3 DEF SignedWell, Listings
<1> QED
  BY <1>1, <1>2, <1>3, <1>5, <1>6 DEF Fit, SignedWell

-----------------------------------------------------------------------------
(* Registering, leaving and taking.                                        *)

\* With the path unchanged, nothing has left it.
LEMMA SameLeft ==
  ASSUME UNCHANGED <<path, made>>
  PROVE  Left' = Left /\ (CoreInv => CoreInv') /\ \A id : OnPath(id)' <=> OnPath(id)
<1>1. \A id : OnPath(id)' <=> OnPath(id)
  BY DEF OnPath
<1>2. Left' = Left
  BY <1>1 DEF Left
<1>3. CoreInv => CoreInv'
  BY DEF CoreInv, GoodPath, Ledgered, StaysReachable
<1> QED
  BY <1>1, <1>2, <1>3

\* A new subscriber is owed nothing; others keep what they had.
LEMMA SubscribeKeeps ==
  ASSUME Registry, NEW s, NEW f, Subscribe(s, f), UNCHANGED <<path, made>>
  PROVE  /\ Registry' /\ s \in DOMAIN subs' /\ DOMAIN subs \subseteq DOMAIN subs'
         /\ subs'[s].filter = f
         /\ \A x \in DOMAIN subs : x # s => subs'[x] = subs[x]
<1>1. Left' = Left
  BY SameLeft
<1>2. /\ subs' = [x \in DOMAIN subs \cup {s} |->
           IF x = s THEN [filter |-> f, pending |-> {}] ELSE subs[x]]
      /\ due' = [x \in DOMAIN subs \cup {s} |-> IF x = s THEN {} ELSE due[x]]
  BY DEF Subscribe, Registry
<1>3. DOMAIN subs' = DOMAIN subs \cup {s} /\ DOMAIN due' = DOMAIN subs \cup {s}
  BY <1>2
<1>4. PICK n : n = subs'[s] /\ n = [filter |-> f, pending |-> {}] /\ due'[s] = {}
  BY <1>2
<1>5. n.filter = f /\ n.pending = {}
  BY <1>4
<1>6. Kept(n, {}, Left)
  BY <1>4, <1>5 DEF Kept
<1>7. \A x \in DOMAIN subs : x # s => subs'[x] = subs[x] /\ due'[x] = due[x]
  BY <1>2
<1>8. ASSUME NEW x \in DOMAIN subs' PROVE Kept(subs'[x], due'[x], Left')
  <2>1. CASE x = s
    BY <1>1, <1>4, <1>6, <2>1
  <2>2. CASE x # s
    BY <1>1, <1>3, <1>7, <2>2 DEF Registry
  <2> QED
    BY <2>1, <2>2
<1>9. Registry'
  BY <1>3, <1>8 DEF Registry
<1> QED
  BY <1>3, <1>4, <1>5, <1>7, <1>9

LEMMA UnsubscribeKeeps ==
  ASSUME Registry, NEW s, Unsubscribe(s), UNCHANGED <<path, made>>
  PROVE  /\ Registry' /\ DOMAIN subs' = DOMAIN subs \ {s}
         /\ \A x \in DOMAIN subs : x # s => subs'[x] = subs[x]
<1>1. Left' = Left
  BY SameLeft
<1>2. /\ subs' = [x \in DOMAIN subs \ {s} |-> subs[x]]
      /\ due' = [x \in DOMAIN subs \ {s} |-> due[x]]
  BY DEF Unsubscribe, Registry
<1>3. DOMAIN subs' = DOMAIN subs \ {s} /\ DOMAIN due' = DOMAIN subs \ {s}
      /\ \A x \in DOMAIN subs : x # s => subs'[x] = subs[x] /\ due'[x] = due[x]
  BY <1>2
<1>4. Registry'
  BY <1>1, <1>3 DEF Registry
<1> QED
  BY <1>3, <1>4

LEMMA TakeKeeps ==
  ASSUME Registry, NEW s, Take(s)
  PROVE  /\ Registry' /\ DOMAIN subs' = DOMAIN subs /\ UNCHANGED <<path, made>>
         /\ subs'[s].filter = subs[s].filter /\ Awaiting(subs[s]) \subseteq Left
         /\ \A x \in DOMAIN subs : x # s => subs'[x] = subs[x]
<1>0. UNCHANGED <<path, made>> /\ s \in DOMAIN subs
  BY DEF Take
<1>1. Left' = Left
  BY <1>0, SameLeft
<1>2. PICK f, P : f = subs[s].filter /\ P = subs[s].pending
  OBVIOUS
<1>3. subs[s] = [filter |-> f, pending |-> P]
  BY <1>0, <1>2 DEF Registry, Kept
<1>4. DOMAIN subs' = DOMAIN subs /\ DOMAIN due' = DOMAIN subs
      /\ \A x \in DOMAIN subs : x # s => subs'[x] = subs[x] /\ due'[x] = due[x]
  BY DEF Take, Registry
<1>5. PICK n : n = subs'[s] /\ n = [filter |-> f, pending |-> {}] /\ due'[s] = {}
  BY <1>0, <1>3 DEF Take, Registry
<1>6. n.filter = f /\ n.pending = {}
  BY <1>5
<1>7. Kept(n, {}, Left)
  BY <1>5, <1>6 DEF Kept
<1>8. ASSUME NEW x \in DOMAIN subs' PROVE Kept(subs'[x], due'[x], Left')
  <2>1. CASE x = s
    BY <1>1, <1>5, <1>7, <2>1
  <2>2. CASE x # s
    BY <1>1, <1>4, <2>2 DEF Registry
  <2> QED
    BY <2>1, <2>2
<1>9. Registry'
  BY <1>4, <1>8 DEF Registry
<1>10. Awaiting(subs[s]) \subseteq Left
  <2>1. Kept(subs[s], due[s], Left)
    BY <1>0 DEF Registry
  <2>2. ASSUME NEW p \in P PROVE p.movement.orphaned \subseteq Left
    <3>1. PICK from, head, m : P = {[from |-> from, head |-> head, movement |-> m]}
                               /\ Exact(m, due[s], Left)
      BY <1>2, <2>1 DEF Kept
    <3>2. p = [from |-> from, head |-> head, movement |-> m]
      BY <3>1
    <3>3. p.movement = m
      BY <3>2
    <3> QED
      BY <3>1, <3>3 DEF Exact
  <2> QED
    BY <1>2, <2>2 DEF Awaiting
<1> QED
  BY <1>0, <1>2, <1>4, <1>5, <1>6, <1>9, <1>10

-----------------------------------------------------------------------------
(* Watches for an envelope to leave.                                       *)

\* The filter a watch for an orphan registers.
OrphanFilter(id) == {[on |-> "Orphaned", id |-> id]}

\* What client c was told has left the path, and what it waits for stands on the
\* path, was told, or is in its pending movement.
Hears(c) ==
  /\ told[c] \subseteq Left /\ ask[c] \in Requests \cup {[on |-> "none"]}
  /\ ask[c].on = "orphan" => ask[c].arg <= made
  /\ call[c] = "streaming" => c \in DOMAIN subs
  /\ call[c] = "streaming" /\ ask[c].on = "orphan" =>
       /\ subs[c].filter = OrphanFilter(ask[c].arg)
       /\ OnPath(ask[c].arg) \/ ask[c].arg \in told[c] \/ ask[c].arg \in Awaiting(subs[c])

Orphans ==
  /\ DOMAIN ask = Clients /\ DOMAIN told = Clients
  /\ \A c \in Clients : Hears(c)

\* Subscriber c is told what it waits for, and nothing it awaits is lost.
Follows(c) ==
  /\ subs'[c].filter = subs[c].filter
  /\ Awaiting(subs[c]) \subseteq Awaiting(subs'[c])
  /\ \A id : subs[c].filter = OrphanFilter(id) /\ OnPath(id) /\ ~OnPath(id)'
             => id \in Awaiting(subs'[c])

LEMMA OrphanAsked ==
  ASSUME NEW r \in Requests \cup {[on |-> "none"]}, r.on = "orphan"
  PROVE  r \in Requests /\ r.arg \in Nat
<1>1. r # [on |-> "none"]
  OBVIOUS
<1> QED
  BY <1>1, LedgerAssumption

LEMMA HearsStep ==
  ASSUME Orphans, UNCHANGED <<ask, told>>, Left \subseteq Left',
         made \in Nat, made' \in Nat, made <= made',
         \A c \in Clients : call'[c] = "streaming" =>
           /\ call[c] = "streaming"
           /\ c \in DOMAIN subs => c \in DOMAIN subs' /\ Follows(c)
  PROVE  Orphans'
<1> SUFFICES ASSUME NEW c \in Clients PROVE Hears(c)'
  BY DEF Orphans
<1>1. Hears(c)
  BY DEF Orphans
<1>2. told'[c] \subseteq Left' /\ ask'[c] \in Requests \cup {[on |-> "none"]}
  BY <1>1 DEF Hears
<1>3. ask'[c].on = "orphan" => ask'[c].arg <= made'
  <2> SUFFICES ASSUME ask[c].on = "orphan" PROVE ask[c].arg <= made'
    OBVIOUS
  <2>1. PICK a \in Nat : a = ask[c].arg
    BY <1>1, OrphanAsked DEF Hears
  <2>2. a <= made
    BY <1>1, <2>1 DEF Hears
  <2> QED
    BY <2>1, <2>2
<1>4. ASSUME call'[c] = "streaming" PROVE c \in DOMAIN subs' /\ Follows(c) /\ call[c] = "streaming"
  BY <1>1, <1>4 DEF Hears
<1>5. ASSUME call'[c] = "streaming", ask[c].on = "orphan"
      PROVE  /\ subs'[c].filter = OrphanFilter(ask[c].arg)
             /\ OnPath(ask[c].arg)' \/ ask[c].arg \in told[c]
                \/ ask[c].arg \in Awaiting(subs'[c])
  <2>1. Follows(c) /\ call[c] = "streaming"
    BY <1>4, <1>5
  <2>2. PICK a : a = ask[c].arg
    OBVIOUS
  <2>3. subs[c].filter = OrphanFilter(a) /\ (OnPath(a) \/ a \in told[c] \/ a \in Awaiting(subs[c]))
    BY <1>1, <1>5, <2>1, <2>2 DEF Hears
  <2>4. OnPath(a)' \/ a \in told[c] \/ a \in Awaiting(subs'[c])
    BY <2>1, <2>3 DEF Follows
  <2>5. OnPath(ask[c].arg)' \/ ask[c].arg \in told[c] \/ ask[c].arg \in Awaiting(subs'[c])
    <3>1. OnPath(a)' <=> OnPath(ask[c].arg)'
      BY <2>2 DEF OnPath
    <3> QED
      BY <2>2, <2>4, <3>1
  <2> QED
    BY <2>1, <2>2, <2>3, <2>5 DEF Follows
<1> QED
  BY <1>2, <1>3, <1>4, <1>5 DEF Hears

-----------------------------------------------------------------------------
(* The publisher's trips.                                                  *)

\* No publish is under way to the mainloop.
Idle(q) == \A i \in 1 .. Len(q) : q[i] # "publish"

\* The publisher's trip is known while a publish is under way.
Publishing ==
  /\ DOMAIN call = Callers /\ queue \in Seq(Callers) /\ asker \in Clients \cup {None}
  /\ DOMAIN pub = {"state", "timer", "in_flight", "again", "trip", "outcome"}
  /\ DOMAIN addr = {"at", "news"} /\ addr.at \in DOMAIN Wanted
  /\ pub.trip \in DOMAIN Wanted \/ (call["publish"] = "none" /\ Idle(queue))

\* Shapes of the constants and of the calls.
LEMMA WantedDomain ==
  Len(Wanted) \in Nat \ {0} /\ DOMAIN Wanted = 1 .. Len(Wanted)
<1>1. Wanted \in Seq(Seq(Transport)) /\ Wanted # <<>>
  BY LedgerAssumption
<1>2. PICK X : X = Seq(Transport)
  OBVIOUS
<1>3. Wanted \in Seq(X)
  BY <1>1, <1>2
<1> QED
  BY <1>1, <1>3

LEMMA CallersAre ==
  /\ "publish" \in Callers /\ "session" \in Callers /\ "operator" \in Callers
  /\ Clients \subseteq Callers /\ None \notin Callers
  /\ \A c \in Clients : c \notin {"publish", "session", "operator", "publisher"}
BY DaemonAssumption DEF Callers, Trips

LEMMA EndsIs ==
  ASSUME DOMAIN call = Callers, NEW x, NEW how
  PROVE  /\ DOMAIN Ends(x, how) = Callers
         /\ \A y \in Callers : Ends(x, how)[y] = IF y = x THEN how ELSE call[y]
BY DEF Ends

\* Taking a call off the queue.
LEMMA TurnIs ==
  ASSUME queue \in Seq(Callers), NEW x, Turn(x)
  PROVE  /\ queue' \in Seq(Callers) /\ x \in Callers
         /\ Idle(queue) => Idle(queue') /\ x # "publish"
<1>1. PICK X, q, t : X = Callers /\ q = queue /\ t = queue'
  OBVIOUS
<1>2. q \in Seq(X) /\ q # <<>> /\ q[1] = x /\ t = Tail(q)
  BY <1>1 DEF Turn
<1>3. PICK n \in Nat \ {0} : n = Len(q)
  BY <1>2
<1>4. t \in Seq(X) /\ Len(t) = n - 1 /\ \A i \in 1 .. n - 1 : t[i] = q[i + 1]
  BY <1>2, <1>3
<1>5. x \in X
  BY <1>2, <1>3, EntryIn
<1>6. ASSUME \A i \in 1 .. n : q[i] # "publish"
      PROVE  x # "publish" /\ \A i \in 1 .. n - 1 : t[i] # "publish"
  <2>1. 1 \in 1 .. n /\ \A i \in 1 .. n - 1 : i + 1 \in 1 .. n
    BY <1>3
  <2> QED
    BY <1>2, <1>4, <1>6, <2>1
<1> QED
  BY <1>1, <1>3, <1>4, <1>5, <1>6 DEF Idle

\* What most steps leave as it is.
LEMMA PublishingStep ==
  ASSUME Publishing, queue' \in Seq(Callers), Idle(queue) => Idle(queue'),
         DOMAIN call' = Callers, call["publish"] = "none" => call'["publish"] = "none",
         asker' \in Clients \cup {None}, addr' = addr,
         DOMAIN pub' = DOMAIN pub, pub'.trip = pub.trip
  PROVE  Publishing'
BY DEF Publishing

-----------------------------------------------------------------------------
(* One step.                                                               *)

\* The inductive invariant.
DaemonInv == CoreInv /\ Registry /\ Orphans /\ Publishing

\* Steps that leave the core alone keep its part.
LEMMA SameCore ==
  ASSUME CoreInv, Registry, UNCHANGED core
  PROVE  /\ CoreInv' /\ Registry' /\ Left' = Left /\ made \in Nat /\ made' = made
         /\ \A c \in DOMAIN subs : c \in DOMAIN subs' /\ Follows(c)
<1>1. UNCHANGED <<path, made, subs, due>>
  BY DEF core
<1>2. CoreInv' /\ Left' = Left /\ \A id : OnPath(id)' <=> OnPath(id)
  BY <1>1, SameLeft
<1>3. Registry'
  BY <1>1, <1>2 DEF Registry
<1>4. \A c \in DOMAIN subs : c \in DOMAIN subs' /\ Follows(c)
  BY <1>1, <1>2 DEF Follows
<1> QED
  BY <1>1, <1>2, <1>3, <1>4 DEF CoreInv, GoodPath

\* A step that leaves the core alone and starts no watch.
LEMMA QuietStep ==
  ASSUME DaemonInv, UNCHANGED core, UNCHANGED <<ask, told>>,
         \A c \in Clients : call'[c] = "streaming" => call[c] = "streaming", Publishing'
  PROVE  DaemonInv'
<1>1. /\ CoreInv' /\ Registry' /\ Left' = Left /\ made \in Nat /\ made' = made
      /\ \A c \in DOMAIN subs : c \in DOMAIN subs' /\ Follows(c)
  BY SameCore DEF DaemonInv
<1>2. made' \in Nat /\ made <= made' /\ Left \subseteq Left'
  BY <1>1
<1>3. Orphans'
  BY <1>1, <1>2, HearsStep DEF DaemonInv
<1> QED
  BY <1>1, <1>3 DEF DaemonInv

\* A step that puts a run on the path.
LEMMA ExtendStep ==
  ASSUME DaemonInv, NEW keep \in 1 .. Len(path), NEW run, Fit(keep, run), Extend(keep, run),
         UNCHANGED <<ask, told>>,
         \A c \in Clients : call'[c] = "streaming" => call[c] = "streaming", Publishing'
  PROVE  DaemonInv'
<1>1. made' = made + Len(run) /\ Insert(Grown(keep, run))
  BY DEF Extend, Grown
<1>2. GoodPath /\ Sound(run) /\ Registry /\ CoreInv
  BY DEF DaemonInv, CoreInv, Fit
<1>3. /\ GoodPath' /\ Registry' /\ Left \subseteq Left' /\ DOMAIN subs' = DOMAIN subs
      /\ \A s \in DOMAIN subs :
           /\ subs'[s].filter = subs[s].filter
           /\ Awaiting(subs[s]) \subseteq Awaiting(subs'[s])
           /\ \A id : /\ subs[s].filter = {[on |-> "Orphaned", id |-> id]}
                      /\ OnPath(id) /\ ~OnPath(id)'
                     => id \in Awaiting(subs'[s])
  BY <1>1, <1>2, InsertKeeps
<1>4. \A c \in DOMAIN subs : c \in DOMAIN subs' /\ Follows(c)
  BY <1>3 DEF Follows, OrphanFilter
<1>5. path' = Grown(keep, run)
  BY <1>1 DEF Insert
<1>6. CoreInv'
  BY <1>1, <1>2, <1>5, CoreGrows
<1>7. made \in Nat /\ made' \in Nat /\ made <= made'
  <2>1. Len(run) \in Nat /\ made \in Nat
    BY <1>2, SeqDomain DEF Sound, GoodPath
  <2> QED
    BY <1>1, <2>1
<1>8. Orphans'
  BY <1>3, <1>4, <1>7, HearsStep DEF DaemonInv
<1> QED
  BY <1>3, <1>6, <1>8 DEF DaemonInv

\* Calls that end, or start, without starting a watch.
LEMMA EndsQuiet ==
  ASSUME DOMAIN call = Callers, NEW x, NEW how, how # "streaming", call' = Ends(x, how)
  PROVE  /\ DOMAIN call' = Callers
         /\ \A c \in Clients : call'[c] = "streaming" => call[c] = "streaming"
         /\ x # "publish" => call'["publish"] = call["publish"]
BY EndsIs, CallersAre

LEMMA SendStep ==
  ASSUME DaemonInv, NEW x \in Callers, Send(x)
  PROVE  DaemonInv'
<1>1. DOMAIN call = Callers /\ queue \in Seq(Callers) /\ Publishing
  BY DEF DaemonInv, Publishing
<1>2. call' = Ends(x, "queued") /\ call[x] = "sending" /\ queue' = Append(queue, x)
  BY DEF Send
<1>3. DOMAIN call' = Callers /\ \A c \in Clients : call'[c] = "streaming" => call[c] = "streaming"
  BY <1>1, <1>2, EndsQuiet
<1>4. Publishing'
  <2>1. UNCHANGED <<asker, addr, pub>>
    BY DEF Send
  <2>2. queue' \in Seq(Callers)
    <3>1. PICK X, q : X = Callers /\ q = queue
      OBVIOUS
    <3>2. Append(q, x) \in Seq(X)
      BY <1>1, <3>1
    <3> QED
      BY <1>2, <3>1, <3>2
  <2>3. CASE pub.trip \in DOMAIN Wanted
    BY <1>1, <1>3, <2>1, <2>2, <2>3 DEF Publishing
  <2>4. CASE call["publish"] = "none" /\ Idle(queue)
    <3>1. x # "publish"
      BY <1>2, <2>4
    <3>2. call'["publish"] = "none"
      BY <1>1, <1>2, <2>4, <3>1, EndsIs, CallersAre
    <3>3. Idle(queue')
      <4>1. PICK X, q, t : X = Callers /\ q = queue /\ t = queue'
        OBVIOUS
      <4>2. q \in Seq(X) /\ t = Append(q, x)
        BY <1>1, <1>2, <4>1
      <4>3. PICK n \in Nat : n = Len(q)
        BY <4>2
      <4>4. Len(t) = n + 1 /\ t[n + 1] = x /\ \A i \in 1 .. n : t[i] = q[i]
        BY <4>2, <4>3
      <4>5. \A i \in 1 .. n + 1 : i = n + 1 \/ i \in 1 .. n
        OBVIOUS
      <4>6. \A i \in 1 .. n : q[i] # "publish"
        BY <2>4, <4>1, <4>3 DEF Idle
      <4>7. \A i \in 1 .. n + 1 : t[i] # "publish"
        BY <3>1, <4>4, <4>5, <4>6
      <4> QED
        BY <4>1, <4>4, <4>7 DEF Idle
    <3> QED
      BY <1>1, <1>3, <2>1, <2>2, <3>2, <3>3 DEF Publishing
  <2> QED
    BY <1>1, <2>3, <2>4 DEF Publishing
<1> QED
  BY <1>3, <1>4, QuietStep DEF Send, core, ends

\* A call ends or begins outside of the mainloop, and not a publish.
LEMMA CallStep ==
  ASSUME DaemonInv, NEW x, x # "publish", NEW how, how # "streaming", call' = Ends(x, how),
         asker' \in Clients \cup {None}, UNCHANGED <<queue, core, ask, told, addr, pub>>
  PROVE  DaemonInv'
<1>1. DOMAIN call = Callers /\ queue \in Seq(Callers) /\ Publishing
  BY DEF DaemonInv, Publishing
<1>2. /\ DOMAIN call' = Callers /\ call'["publish"] = call["publish"]
      /\ \A c \in Clients : call'[c] = "streaming" => call[c] = "streaming"
  BY <1>1, EndsQuiet
<1>3. Publishing'
  BY <1>1, <1>2, PublishingStep
<1> QED
  BY <1>2, <1>3, QuietStep DEF core

LEMMA SendFailsStep ==
  ASSUME DaemonInv, NEW x \in Callers, SendFails(x)
  PROVE  DaemonInv'
<1>1. DOMAIN call = Callers /\ queue \in Seq(Callers) /\ Publishing
  BY DEF DaemonInv, Publishing
<1>2. call' = Ends(x, "refused") /\ call[x] = "sending"
      /\ UNCHANGED <<asker, queue, core, ask, told, addr, pub>>
  BY DEF SendFails, loop, ends
<1>3. /\ DOMAIN call' = Callers
      /\ \A c \in Clients : call'[c] = "streaming" => call[c] = "streaming"
  BY <1>1, <1>2, EndsQuiet
<1>4. call["publish"] = "none" => call'["publish"] = "none"
  BY <1>1, <1>2, EndsIs, CallersAre
<1>5. Publishing'
  BY <1>1, <1>2, <1>3, <1>4, PublishingStep DEF Publishing
<1> QED
  BY <1>2, <1>3, <1>5, QuietStep

LEMMA ReportStep ==
  ASSUME DaemonInv, NEW a, Report(a)
  PROVE  DaemonInv'
<1>1. asker \in Clients \cup {None}
  BY DEF DaemonInv, Publishing
<1>2. asker # "publish"
  BY <1>1, CallersAre
<1>3. PICK x, how : /\ x = asker /\ call' = Ends(x, how)
                    /\ how = IF stage[asker] + 1 = Len(Asked) THEN "done" ELSE "sending"
  BY DEF Report
<1>4. how # "streaming"
  BY <1>3
<1>5. asker' \in Clients \cup {None} /\ UNCHANGED <<queue, core, ask, told, addr, pub>>
  BY DEF Report, core
<1> QED
  BY <1>2, <1>3, <1>4, <1>5, CallStep

LEMMA AskStep ==
  ASSUME DaemonInv, Ask
  PROVE  DaemonInv'
<1>1. call' = Ends("session", "sending") /\ UNCHANGED <<asker, queue, core, ask, told, addr, pub>>
  BY DEF Ask, loop, ends
<1>2. asker' \in Clients \cup {None}
  BY <1>1 DEF DaemonInv, Publishing
<1> QED
  BY <1>1, <1>2, CallStep

LEMMA OperatorStep ==
  ASSUME DaemonInv, NEW how \in {"sending", "done"}, Operator(how)
  PROVE  DaemonInv'
<1>1. call' = Ends("operator", how) /\ UNCHANGED <<asker, queue, core, ask, told, addr, pub>>
  BY DEF Operator, loop, ends
<1>2. asker' \in Clients \cup {None}
  BY <1>1 DEF DaemonInv, Publishing
<1> QED
  BY <1>1, <1>2, CallStep

\* The mainloop takes a message.
LEMMA TurnPublishing ==
  ASSUME Publishing, NEW x, Turn(x), DOMAIN call' = Callers,
         call["publish"] = "none" => call'["publish"] = "none",
         asker' \in Clients \cup {None}, UNCHANGED <<addr, pub>>
  PROVE  Publishing'
<1>1. queue \in Seq(Callers)
  BY DEF Publishing
<1>2. queue' \in Seq(Callers) /\ (Idle(queue) => Idle(queue'))
  BY <1>1, TurnIs
<1> QED
  BY <1>2, PublishingStep

LEMMA StatusStep ==
  ASSUME DaemonInv, NEW c \in Clients, Status(c)
  PROVE  DaemonInv'
<1>1. Turn(c) /\ asker' = c /\ UNCHANGED <<call, core, ask, told, addr, pub>>
  BY DEF Status, ends
<1>2. Publishing'
  BY <1>1, TurnPublishing DEF DaemonInv, Publishing
<1> QED
  BY <1>1, <1>2, QuietStep

LEMMA ShutdownStep ==
  ASSUME DaemonInv, Shutdown
  PROVE  DaemonInv'
<1>1. Turn("operator") /\ UNCHANGED <<asker, call, core, ask, told, addr, pub>>
  BY DEF Shutdown, ends
<1>2. Publishing'
  BY <1>1, TurnPublishing DEF DaemonInv, Publishing
<1> QED
  BY <1>1, <1>2, QuietStep

LEMMA AllDroppedStep ==
  ASSUME DaemonInv, AllDropped
  PROVE  DaemonInv'
<1>1. UNCHANGED <<asker, queue, call, core, ask, told, addr, pub>>
  BY DEF AllDropped, ends
<1>2. Publishing'
  BY <1>1 DEF DaemonInv, Publishing
<1> QED
  BY <1>1, <1>2, QuietStep

LEMMA GoneStep ==
  ASSUME DaemonInv, Gone
  PROVE  DaemonInv'
<1>1. UNCHANGED <<asker, core, ask, told, addr, pub>> /\ queue' = <<>>
  BY DEF Gone, ends
<1>2. call' = [x \in Callers |-> IF x \in Refused THEN "refused"
                                 ELSE IF x = "operator" THEN "done" ELSE call[x]]
  BY DEF Gone
<1>3. \A c \in Clients : call'[c] = "streaming" => call[c] = "streaming"
  BY <1>2, CallersAre
<1>4. queue' \in Seq(Callers) /\ Idle(queue')
  <2>1. Len(<<>>) = 0 /\ <<>> \in Seq(Callers)
    BY EmptyIn
  <2> QED
    BY <1>1, <2>1 DEF Idle
<1>5. call["publish"] = "none" => call'["publish"] = "none"
  BY <1>2, CallersAre DEF Refused
<1>6. DOMAIN call' = Callers
  BY <1>2
<1>7. Publishing'
  BY <1>1, <1>4, <1>5, <1>6, PublishingStep DEF DaemonInv, Publishing
<1> QED
  BY <1>1, <1>3, <1>7, QuietStep

LEMMA ResumeIs ==
  ASSUME Publishing, Resume
  PROVE  /\ DOMAIN call' = Callers /\ call'["publish"] = call["publish"]
         /\ \A c \in Clients : call'[c] = "streaming" => call[c] = "streaming"
<1>1. PICK how : /\ call' = Ends("session", how)
                 /\ how = IF call["session"] = "queued" THEN "none" ELSE "done"
  BY DEF Resume
<1>2. how # "streaming"
  BY <1>1
<1>3. DOMAIN call = Callers
  BY DEF Publishing
<1> QED
  BY <1>1, <1>2, <1>3, EndsQuiet

LEMMA ReadsStep ==
  ASSUME DaemonInv, Reads
  PROVE  DaemonInv'
<1>1. Turn("session") /\ Resume /\ UNCHANGED <<asker, core, ask, told, addr, pub>>
  BY DEF Reads, ends
<1>2. /\ DOMAIN call' = Callers /\ call'["publish"] = call["publish"]
      /\ \A c \in Clients : call'[c] = "streaming" => call[c] = "streaming"
  BY <1>1, ResumeIs DEF DaemonInv
<1>3. Publishing'
  BY <1>1, <1>2, TurnPublishing DEF DaemonInv, Publishing
<1> QED
  BY <1>1, <1>2, <1>3, QuietStep

LEMMA PullsStep ==
  ASSUME DaemonInv, NEW keep \in 1 .. Len(path), NEW w \in Writes, Pulls(keep, w)
  PROVE  DaemonInv'
<1>1. Turn("session") /\ Resume /\ UNCHANGED <<asker, ask, told, addr, pub>>
      /\ Extend(keep, <<w>>)
  BY DEF Pulls, ends
<1>2. /\ DOMAIN call' = Callers /\ call'["publish"] = call["publish"]
      /\ \A c \in Clients : call'[c] = "streaming" => call[c] = "streaming"
  BY <1>1, ResumeIs DEF DaemonInv
<1>3. Publishing'
  BY <1>1, <1>2, TurnPublishing DEF DaemonInv, Publishing
<1>4. w \in Foreign
  BY DEF Foreign
<1>5. PICK run : run = <<w>> /\ Fit(keep, run) /\ Extend(keep, run)
  BY <1>1, <1>4, ForeignFits
<1> QED
  BY <1>1, <1>2, <1>3, <1>5, ExtendStep

LEMMA WeakWriteStep ==
  ASSUME DaemonInv, NEW c \in Clients, WeakWrite(c)
  PROVE  DaemonInv'
<1>1. Turn(c) /\ call' = Ends(c, "done") /\ UNCHANGED <<asker, ask, told, addr, pub>>
      /\ Extend(Len(path), <<ask[c].arg>>) /\ ask[c].on = "write"
  BY DEF WeakWrite, ends
<1>2. DOMAIN call = Callers /\ Publishing
  BY DEF DaemonInv, Publishing
<1>3. /\ DOMAIN call' = Callers /\ call'["publish"] = call["publish"]
      /\ \A x \in Clients : call'[x] = "streaming" => call[x] = "streaming"
  BY <1>1, <1>2, EndsQuiet, CallersAre
<1>4. Publishing'
  BY <1>1, <1>2, <1>3, TurnPublishing DEF Publishing
<1>5. PICK w : w = ask[c].arg
  OBVIOUS
<1>6. w \in Foreign
  <2>1. ask[c] \in Requests \cup {[on |-> "none"]}
    BY DEF DaemonInv, Orphans, Hears
  <2>2. ask[c] \in Requests
    BY <1>1, <2>1
  <2>3. w \in {r.arg : r \in {q \in Requests : q.on = "write"}}
    BY <1>1, <1>5, <2>2
  <2> QED
    BY <2>3 DEF Foreign
<1>7. PICK keep : keep = Len(path) /\ keep \in 1 .. Len(path)
  <2>1. IsSeq(path) /\ path # <<>>
    BY DEF DaemonInv, CoreInv, GoodPath
  <2>2. Len(path) \in Nat /\ Len(path) # 0
    BY <2>1, SeqDomain DEF IsSeq
  <2> QED
    BY <2>2
<1>8. PICK run : run = <<w>> /\ Fit(keep, run) /\ Extend(keep, run)
  BY <1>1, <1>5, <1>6, <1>7, ForeignFits
<1> QED
  BY <1>1, <1>3, <1>4, <1>7, <1>8, ExtendStep

LEMMA PathNonempty ==
  ASSUME CoreInv
  PROVE  Len(path) \in 1 .. Len(path)
<1>1. IsSeq(path) /\ path # <<>>
  BY DEF CoreInv, GoodPath
<1>2. Len(path) \in Nat /\ Len(path) # 0
  BY <1>1, SeqDomain DEF IsSeq
<1> QED
  BY <1>2

LEMMA AdvertiseStep ==
  ASSUME DaemonInv, Advertise
  PROVE  DaemonInv'
<1>1. /\ Turn("publish") /\ call' = Ends("publish", "answered")
      /\ UNCHANGED <<asker, ask, told, addr>>
  BY DEF Advertise, ends
<1>2. DOMAIN call = Callers /\ queue \in Seq(Callers) /\ Publishing /\ CoreInv
  BY DEF DaemonInv, Publishing
<1>3. /\ DOMAIN call' = Callers
      /\ \A x \in Clients : call'[x] = "streaming" => call[x] = "streaming"
  BY <1>1, <1>2, EndsQuiet
<1>4. queue' \in Seq(Callers) /\ ~Idle(queue)
  BY <1>1, <1>2, TurnIs
<1>5. pub.trip \in DOMAIN Wanted
  BY <1>2, <1>4 DEF Publishing
<1>6. \E o : pub' = [pub EXCEPT !.outcome = o]
  BY DEF Advertise
<1>7. DOMAIN pub' = DOMAIN pub /\ pub'.trip = pub.trip
  BY <1>2, <1>6 DEF Publishing
<1>8. Publishing'
  BY <1>1, <1>2, <1>3, <1>4, <1>5, <1>7 DEF Publishing
<1>9. CASE UNCHANGED core
  BY <1>1, <1>3, <1>8, <1>9, QuietStep
<1>10. CASE /\ Advertised = "Written"
            /\ \E run \in {AdvertiseBatch(Listing, Wanted[pub.trip])} :
               \E new \in {Signed(run, pub.trip)} : Extend(Len(path), new)
  <2>1. Listing \notin {None, Other}
    BY <1>10 DEF Advertised
  <2>2. PICK at, keep : at = pub.trip /\ keep = Len(path)
    OBVIOUS
  <2>3. PICK new : new = Signed(AdvertiseBatch(Listing, Wanted[at]), at)
    OBVIOUS
  <2>4. Extend(keep, new)
    BY <1>10, <2>2, <2>3
  <2>5. Fit(keep, new)
    BY <1>2, <1>5, <2>1, <2>2, <2>3, SignedFits
  <2>6. keep \in 1 .. Len(path)
    BY <1>2, <2>2, PathNonempty
  <2> QED
    BY <1>1, <1>3, <1>8, <2>4, <2>5, <2>6, ExtendStep
<1> QED
  BY <1>9, <1>10 DEF Advertise

\* The steps of the publisher's own loop.
LEMMA AddrMovesStep ==
  ASSUME DaemonInv, AddrMoves
  PROVE  DaemonInv'
<1>1. UNCHANGED <<asker, queue, call, core, ask, told, pub>>
  BY DEF AddrMoves, loop, ends
<1>2. Publishing'
  <2>1. PICK a : a = addr.at /\ a \in DOMAIN Wanted /\ a < Len(Wanted)
    BY DEF DaemonInv, Publishing, AddrMoves
  <2>2. addr' = [at |-> a + 1, news |-> TRUE]
    BY <2>1 DEF AddrMoves
  <2>3. DOMAIN addr' = {"at", "news"} /\ addr'.at = a + 1
    BY <2>2
  <2>4. a + 1 \in DOMAIN Wanted
    BY <2>1, WantedDomain
  <2> QED
    BY <1>1, <2>3, <2>4 DEF DaemonInv, Publishing
<1> QED
  BY <1>1, <1>2, QuietStep

LEMMA AddrUpdatedStep ==
  ASSUME DaemonInv, AddrUpdated
  PROVE  DaemonInv'
<1>1. UNCHANGED <<asker, queue, call, core, ask, told>>
  BY DEF AddrUpdated, loop, ends
<1>2. Publishing
  BY DEF DaemonInv
<1>3. DOMAIN addr' = DOMAIN addr /\ addr'.at = addr.at
  BY <1>2 DEF AddrUpdated, Publishing
<1>4. DOMAIN pub' = DOMAIN pub /\ pub'.trip = pub.trip
  BY <1>2 DEF AddrUpdated, Publishing
<1>5. Publishing'
  BY <1>1, <1>2, <1>3, <1>4 DEF Publishing
<1> QED
  BY <1>1, <1>5, QuietStep

LEMMA TimerFiresStep ==
  ASSUME DaemonInv, TimerFires
  PROVE  DaemonInv'
<1>1. UNCHANGED <<asker, queue, core, ask, told, addr>>
  BY DEF TimerFires, loop, ends
<1>2. DOMAIN call = Callers /\ Publishing
  BY DEF DaemonInv, Publishing
<1>3. CASE pub' = [pub EXCEPT !.timer = FALSE, !.again = TRUE] /\ UNCHANGED call
  <2>1. DOMAIN pub' = DOMAIN pub /\ pub'.trip = pub.trip
    BY <1>2, <1>3 DEF Publishing
  <2>2. Publishing'
    BY <1>1, <1>2, <1>3, <2>1 DEF Publishing
  <2> QED
    BY <1>1, <1>3, <2>2, QuietStep
<1>4. CASE /\ pub' = [pub EXCEPT !.timer = FALSE, !.in_flight = TRUE,
                                 !.trip = addr.at, !.state = "Pending"]
           /\ call' = Ends("publish", "sending")
  <2>1. DOMAIN pub' = DOMAIN pub /\ pub'.trip = addr.at
    BY <1>2, <1>4 DEF Publishing
  <2>2. /\ DOMAIN call' = Callers
        /\ \A x \in Clients : call'[x] = "streaming" => call[x] = "streaming"
    BY <1>2, <1>4, EndsQuiet
  <2>3. Publishing'
    BY <1>1, <1>2, <2>1, <2>2 DEF Publishing
  <2> QED
    BY <1>1, <2>2, <2>3, QuietStep
<1> QED
  BY <1>3, <1>4 DEF TimerFires

LEMMA LandStep ==
  ASSUME DaemonInv, Land
  PROVE  DaemonInv'
<1>1. UNCHANGED <<asker, queue, core, ask, told, addr>> /\ call' = Ends("publish", "none")
  BY DEF Land, loop, ends
<1>2. DOMAIN call = Callers /\ Publishing
  BY DEF DaemonInv, Publishing
<1>3. DOMAIN pub' = DOMAIN pub /\ pub'.trip = pub.trip
  BY <1>2 DEF Land, Landed, Publishing
<1>4. /\ DOMAIN call' = Callers /\ call'["publish"] = "none"
      /\ \A x \in Clients : call'[x] = "streaming" => call[x] = "streaming"
  BY <1>1, <1>2, EndsQuiet, EndsIs, CallersAre
<1>5. Publishing'
  BY <1>1, <1>2, <1>3, <1>4 DEF Publishing
<1> QED
  BY <1>1, <1>4, <1>5, QuietStep

LEMMA AcceptStep ==
  ASSUME DaemonInv, NEW c \in Clients, NEW r \in Requests, Accept(c, r)
  PROVE  DaemonInv'
<1>1. UNCHANGED <<asker, queue, core, told, addr, pub>> /\ ask' = [ask EXCEPT ![c] = r]
      /\ (r.on = "orphan" => r.arg <= made) /\ call[c] = "new"
  BY DEF Accept, loop
<1>2. PICK how : /\ call' = Ends(c, how)
                 /\ how = IF call["operator"] = "done" /\ Held = {} THEN "refused" ELSE "sending"
  BY DEF Accept
<1>3. DOMAIN call = Callers /\ Publishing /\ how \in {"refused", "sending"}
  BY <1>2 DEF DaemonInv, Publishing
<1>4. /\ DOMAIN call' = Callers /\ call'["publish"] = call["publish"]
      /\ \A x \in Clients : call'[x] = "streaming" => call[x] = "streaming"
  BY <1>2, <1>3, EndsQuiet, CallersAre
<1>5. call'[c] # "streaming" /\ \A x \in Clients : x # c => call'[x] = call[x]
  BY <1>2, <1>3, EndsIs, CallersAre
<1>6. Publishing'
  BY <1>1, <1>3, <1>4, PublishingStep DEF Publishing
<1>7. CoreInv' /\ Registry' /\ Left' = Left /\ made' = made /\ UNCHANGED <<path, subs>>
  BY <1>1, SameCore DEF DaemonInv, core
<1>8. \A id : OnPath(id)' <=> OnPath(id)
  BY <1>7 DEF OnPath
<1>9. ASSUME NEW x \in Clients PROVE Hears(x)'
  <2>1. Hears(x) /\ DOMAIN ask = Clients
    BY DEF DaemonInv, Orphans
  <2>2. CASE x = c
    <3>1. ask'[x] = r /\ call'[x] # "streaming"
      BY <1>1, <1>5, <2>1, <2>2
    <3>2. told'[x] \subseteq Left' /\ ask'[x] \in Requests \cup {[on |-> "none"]}
      BY <1>1, <1>7, <2>1, <3>1 DEF Hears
    <3> QED
      BY <1>1, <1>7, <3>1, <3>2 DEF Hears
  <2>3. CASE x # c
    <3>1. ask'[x] = ask[x] /\ call'[x] = call[x] /\ told'[x] = told[x]
      BY <1>1, <1>5, <2>1, <2>3
    <3>2. OnPath(ask[x].arg)' <=> OnPath(ask[x].arg)
      BY <1>7, <3>1 DEF OnPath
    <3> QED
      BY <1>7, <2>1, <3>1, <3>2 DEF Hears
  <2> QED
    BY <2>2, <2>3
<1>10. Orphans'
  BY <1>1, <1>9 DEF DaemonInv, Orphans
<1> QED
  BY <1>6, <1>7, <1>10 DEF DaemonInv

\* A step of the registry that concerns others than c.
LEMMA OtherHears ==
  ASSUME DaemonInv, NEW x \in Clients, UNCHANGED <<path, made, ask>>, told'[x] = told[x],
         call'[x] = "streaming" => call[x] = "streaming",
         x \in DOMAIN subs => x \in DOMAIN subs' /\ subs'[x] = subs[x]
  PROVE  Hears(x)'
<1>1. Hears(x) /\ Left' = Left
  BY SameLeft DEF DaemonInv, Orphans
<1>2. OnPath(ask[x].arg)' <=> OnPath(ask[x].arg)
  BY DEF OnPath
<1> QED
  BY <1>1, <1>2 DEF Hears

LEMMA WatchStep ==
  ASSUME DaemonInv, NEW c \in Clients, Watch(c)
  PROVE  DaemonInv'
<1>1. Turn(c) /\ call' = Ends(c, "streaming") /\ Subscribe(c, ask[c].arg) /\ ask[c].on = "watch"
      /\ UNCHANGED <<asker, path, made, ask, told, addr, pub>>
  BY DEF Watch, ends
<1>2. DOMAIN call = Callers /\ Publishing /\ CoreInv /\ Registry
  BY DEF DaemonInv, Publishing
<1>3. /\ Registry' /\ c \in DOMAIN subs' /\ DOMAIN subs \subseteq DOMAIN subs'
      /\ \A x \in DOMAIN subs : x # c => subs'[x] = subs[x]
  BY <1>1, <1>2, SubscribeKeeps
<1>4. /\ DOMAIN call' = Callers /\ call'["publish"] = call["publish"]
      /\ \A x \in Clients : x # c => call'[x] = call[x]
  BY <1>1, <1>2, EndsIs, CallersAre
<1>5. Publishing'
  BY <1>1, <1>2, <1>4, TurnPublishing DEF Publishing
<1>6. CoreInv' /\ Left' = Left
  BY <1>1, <1>2, SameLeft
<1>7. ASSUME NEW x \in Clients PROVE Hears(x)'
  <2>1. CASE x = c
    <3>1. Hears(c)
      BY DEF DaemonInv, Orphans
    <3>2. ask'[c].on # "orphan" /\ c \in DOMAIN subs'
      BY <1>1, <1>3
    <3>3. told'[c] \subseteq Left' /\ ask'[c] \in Requests \cup {[on |-> "none"]}
      BY <1>1, <1>6, <3>1 DEF Hears
    <3> QED
      BY <2>1, <3>2, <3>3 DEF Hears
  <2>2. CASE x # c
    <3>1. /\ told'[x] = told[x] /\ (call'[x] = "streaming" => call[x] = "streaming")
          /\ x \in DOMAIN subs => x \in DOMAIN subs' /\ subs'[x] = subs[x]
      BY <1>1, <1>3, <1>4, <2>2
    <3> QED
      BY <1>1, <3>1, OtherHears
  <2> QED
    BY <2>1, <2>2
<1>8. Orphans'
  BY <1>1, <1>7 DEF DaemonInv, Orphans
<1> QED
  BY <1>3, <1>5, <1>6, <1>8 DEF DaemonInv

LEMMA WatchOrphanedStep ==
  ASSUME DaemonInv, NEW c \in Clients, WatchOrphaned(c)
  PROVE  DaemonInv'
<1>1. Turn(c) /\ ask[c].on = "orphan" /\ UNCHANGED <<asker, path, made, ask, addr, pub>>
  BY DEF WatchOrphaned
<1>2. DOMAIN call = Callers /\ Publishing /\ CoreInv /\ Registry /\ Hears(c) /\ Orphans
  BY DEF DaemonInv, Publishing, Orphans
<1>3. CoreInv' /\ Left' = Left
  BY <1>1, <1>2, SameLeft
<1>4. PICK a \in Nat : a = ask[c].arg /\ a <= made
  BY <1>1, <1>2, OrphanAsked DEF Hears
<1>5. OnPath(ask[c].arg)' <=> OnPath(a)
  BY <1>1, <1>4 DEF OnPath
<1>6. CASE OnPath(a)
  <2>1. call' = Ends(c, "streaming") /\ Subscribe(c, OrphanFilter(a)) /\ UNCHANGED told
    BY <1>4, <1>6 DEF WatchOrphaned, OrphanFilter
  <2>2. /\ Registry' /\ c \in DOMAIN subs' /\ DOMAIN subs \subseteq DOMAIN subs'
        /\ subs'[c].filter = OrphanFilter(a)
        /\ \A x \in DOMAIN subs : x # c => subs'[x] = subs[x]
    BY <1>1, <1>2, <2>1, SubscribeKeeps
  <2>3. /\ DOMAIN call' = Callers /\ call'["publish"] = call["publish"]
        /\ \A x \in Clients : x # c => call'[x] = call[x]
    BY <1>2, <2>1, EndsIs, CallersAre
  <2>4. Publishing'
    BY <1>1, <1>2, <2>3, TurnPublishing DEF Publishing
  <2>5. ASSUME NEW x \in Clients PROVE Hears(x)'
    <3>1. CASE x = c
      <4>1. told'[c] \subseteq Left' /\ ask'[c] \in Requests \cup {[on |-> "none"]}
        BY <1>1, <1>2, <1>3, <2>1 DEF Hears
      <4>2. ask'[c].arg <= made' /\ subs'[c].filter = OrphanFilter(ask'[c].arg)
        BY <1>1, <1>4, <2>2
      <4>3. OnPath(ask[c].arg)'
        BY <1>5, <1>6
      <4> QED
        BY <2>2, <3>1, <4>1, <4>2, <4>3 DEF Hears
    <3>2. CASE x # c
      <4>1. /\ told'[x] = told[x] /\ (call'[x] = "streaming" => call[x] = "streaming")
            /\ x \in DOMAIN subs => x \in DOMAIN subs' /\ subs'[x] = subs[x]
        BY <2>1, <2>2, <2>3, <3>2
      <4> QED
        BY <1>1, <4>1, OtherHears
    <3> QED
      BY <3>1, <3>2
  <2>6. Orphans'
    BY <1>1, <1>2, <2>1, <2>5 DEF Orphans
  <2> QED
    BY <1>3, <2>2, <2>4, <2>6 DEF DaemonInv
<1>7. CASE ~OnPath(a)
  <2>1. call' = Ends(c, "done") /\ told' = [told EXCEPT ![c] = {a}] /\ UNCHANGED <<subs, due>>
    BY <1>4, <1>7 DEF WatchOrphaned
  <2>2. Registry'
    BY <1>1, <1>2, <2>1, SameCore DEF core
  <2>3. /\ DOMAIN call' = Callers /\ call'["publish"] = call["publish"] /\ call'[c] = "done"
        /\ \A x \in Clients : x # c => call'[x] = call[x]
    BY <1>2, <2>1, EndsIs, CallersAre
  <2>4. Publishing'
    BY <1>1, <1>2, <2>3, TurnPublishing DEF Publishing
  <2>5. a \in Left /\ DOMAIN told = Clients
    BY <1>2, <1>4, <1>7 DEF Left, Orphans
  <2>6. ASSUME NEW x \in Clients PROVE Hears(x)'
    <3>1. CASE x = c
      <4>1. told'[c] \subseteq Left' /\ ask'[c] \in Requests \cup {[on |-> "none"]}
        BY <1>1, <1>2, <1>3, <2>1, <2>5 DEF Hears
      <4>2. ask'[c].arg <= made' /\ call'[c] # "streaming"
        BY <1>1, <1>4, <2>3
      <4> QED
        BY <3>1, <4>1, <4>2 DEF Hears
    <3>2. CASE x # c
      <4>1. /\ told'[x] = told[x] /\ (call'[x] = "streaming" => call[x] = "streaming")
            /\ x \in DOMAIN subs => x \in DOMAIN subs' /\ subs'[x] = subs[x]
        BY <2>1, <2>3, <2>5, <3>2
      <4> QED
        BY <1>1, <4>1, OtherHears
    <3> QED
      BY <3>1, <3>2
  <2>7. Orphans'
    BY <1>1, <1>2, <2>1, <2>6 DEF Orphans
  <2> QED
    BY <1>3, <2>2, <2>4, <2>7 DEF DaemonInv
<1> QED
  BY <1>6, <1>7

LEMMA StopStep ==
  ASSUME DaemonInv, NEW a, Stop(a)
  PROVE  DaemonInv'
<1>1. UNCHANGED <<asker, queue, path, made, ask, told, addr, pub>>
      /\ call' = (IF a = "ingress" THEN Ends("session", "done") ELSE call)
  BY DEF Stop, ends
<1>2. DOMAIN call = Callers /\ Publishing /\ CoreInv /\ Registry /\ Orphans
  BY DEF DaemonInv, Publishing
<1>3. /\ DOMAIN call' = Callers /\ call'["publish"] = call["publish"]
      /\ \A x \in Clients : call'[x] = call[x]
  <2>1. CASE a = "ingress"
    BY <1>1, <1>2, <2>1, EndsIs, CallersAre
  <2>2. CASE a # "ingress"
    BY <1>1, <1>2, <2>2
  <2> QED
    BY <2>1, <2>2
<1>4. Publishing'
  BY <1>1, <1>2, <1>3, PublishingStep DEF Publishing
<1>5. CoreInv'
  BY <1>1, <1>2, SameLeft
<1>6. /\ Registry'
      /\ \A x \in Clients : x \in DOMAIN subs => x \in DOMAIN subs' /\ subs'[x] = subs[x]
  <2>1. CASE a = "publisher"
    <3>1. Unsubscribe("publisher")
      BY <2>1 DEF Stop
    <3>2. /\ Registry' /\ DOMAIN subs' = DOMAIN subs \ {"publisher"}
          /\ \A x \in DOMAIN subs : x # "publisher" => subs'[x] = subs[x]
      BY <1>1, <1>2, <3>1, UnsubscribeKeeps
    <3> QED
      BY <3>2, CallersAre
  <2>2. CASE a # "publisher"
    <3>1. UNCHANGED <<subs, due>>
      BY <2>2 DEF Stop
    <3> QED
      BY <1>1, <1>2, <3>1, SameCore DEF core
  <2> QED
    BY <2>1, <2>2
<1>7. \A x \in Clients : Hears(x)'
  BY <1>1, <1>3, <1>6, OtherHears
<1>8. Orphans'
  BY <1>1, <1>2, <1>7 DEF Orphans
<1> QED
  BY <1>4, <1>5, <1>6, <1>8 DEF DaemonInv

LEMMA HangStep ==
  ASSUME DaemonInv, NEW c \in Clients, Hang(c)
  PROVE  DaemonInv'
<1>1. UNCHANGED <<asker, queue, path, made, ask, told, addr, pub>>
      /\ call' = Ends(c, "done") /\ Unsubscribe(c)
  BY DEF Hang, ends, loop
<1>2. DOMAIN call = Callers /\ Publishing /\ CoreInv /\ Registry /\ Orphans
  BY DEF DaemonInv, Publishing
<1>3. /\ DOMAIN call' = Callers /\ call'["publish"] = call["publish"] /\ call'[c] = "done"
      /\ \A x \in Clients : x # c => call'[x] = call[x]
  BY <1>1, <1>2, EndsIs, CallersAre
<1>4. Publishing'
  BY <1>1, <1>2, <1>3, PublishingStep DEF Publishing
<1>5. CoreInv' /\ Left' = Left
  BY <1>1, <1>2, SameLeft
<1>6. /\ Registry' /\ DOMAIN subs' = DOMAIN subs \ {c}
      /\ \A x \in DOMAIN subs : x # c => subs'[x] = subs[x]
  BY <1>1, <1>2, UnsubscribeKeeps
<1>7. ASSUME NEW x \in Clients PROVE Hears(x)'
  <2>1. CASE x = c
    <3>1. Hears(c) /\ call'[c] # "streaming"
      BY <1>2, <1>3 DEF Orphans
    <3> QED
      BY <1>1, <1>5, <2>1, <3>1 DEF Hears
  <2>2. CASE x # c
    <3>1. /\ told'[x] = told[x] /\ (call'[x] = "streaming" => call[x] = "streaming")
          /\ x \in DOMAIN subs => x \in DOMAIN subs' /\ subs'[x] = subs[x]
      BY <1>1, <1>3, <1>6, <2>2
    <3> QED
      BY <1>1, <3>1, OtherHears
  <2> QED
    BY <2>1, <2>2
<1>8. Orphans'
  BY <1>1, <1>2, <1>7 DEF Orphans
<1> QED
  BY <1>4, <1>5, <1>6, <1>8 DEF DaemonInv

LEMMA NotifyStep ==
  ASSUME DaemonInv, NEW c \in Clients, Notify(c)
  PROVE  DaemonInv'
<1>1. UNCHANGED <<asker, queue, call, ask, addr, pub>> /\ Take(c)
      /\ told' = [told EXCEPT ![c] = @ \cup Awaiting(subs[c])]
  BY DEF Notify, loop, Awaiting
<1>2. Publishing /\ CoreInv /\ Registry /\ Orphans
  BY DEF DaemonInv
<1>3. /\ Registry' /\ DOMAIN subs' = DOMAIN subs /\ UNCHANGED <<path, made>>
      /\ subs'[c].filter = subs[c].filter /\ Awaiting(subs[c]) \subseteq Left
      /\ \A x \in DOMAIN subs : x # c => subs'[x] = subs[x]
  BY <1>1, <1>2, TakeKeeps
<1>4. Publishing'
  BY <1>1, <1>2 DEF Publishing
<1>5. CoreInv' /\ Left' = Left
  BY <1>2, <1>3, SameLeft
<1>6. told'[c] = told[c] \cup Awaiting(subs[c]) /\ \A x \in Clients : x # c => told'[x] = told[x]
  BY <1>1, <1>2 DEF Orphans
<1>7. ASSUME NEW x \in Clients PROVE Hears(x)'
  <2>1. CASE x = c
    <3>1. Hears(c)
      BY <1>2 DEF Orphans
    <3>2. told'[c] \subseteq Left' /\ ask'[c] \in Requests \cup {[on |-> "none"]}
      BY <1>1, <1>3, <1>5, <1>6, <3>1 DEF Hears
    <3>3. ask'[c].on = "orphan" => ask'[c].arg <= made'
      BY <1>1, <1>3, <3>1 DEF Hears
    <3>4. call'[c] = "streaming" => c \in DOMAIN subs'
      BY <1>1, <1>3, <3>1 DEF Hears
    <3>5. ASSUME call'[c] = "streaming", ask'[c].on = "orphan"
          PROVE  /\ subs'[c].filter = OrphanFilter(ask'[c].arg)
                 /\ OnPath(ask[c].arg)' \/ ask'[c].arg \in told'[c]
      <4>1. OnPath(ask[c].arg)' <=> OnPath(ask[c].arg)
        BY <1>1, <1>3 DEF OnPath
      <4> QED
        BY <1>1, <1>3, <1>6, <3>1, <3>5, <4>1 DEF Hears
    <3> QED
      BY <2>1, <3>2, <3>3, <3>4, <3>5 DEF Hears
  <2>2. CASE x # c
    <3>1. /\ told'[x] = told[x] /\ (call'[x] = "streaming" => call[x] = "streaming")
          /\ x \in DOMAIN subs => x \in DOMAIN subs' /\ subs'[x] = subs[x]
      BY <1>1, <1>3, <1>6, <2>2
    <3> QED
      BY <1>1, <1>3, <3>1, OtherHears
  <2> QED
    BY <2>1, <2>2
<1>8. Orphans'
  BY <1>1, <1>2, <1>7 DEF Orphans
<1> QED
  BY <1>3, <1>4, <1>5, <1>8 DEF DaemonInv

LEMMA LedgerMovedStep ==
  ASSUME DaemonInv, LedgerMoved
  PROVE  DaemonInv'
<1>1. UNCHANGED <<asker, queue, call, ask, told, addr>> /\ Take("publisher")
      /\ pub' = [pub EXCEPT !.timer = TRUE]
  BY DEF LedgerMoved, loop, ends
<1>2. Publishing /\ CoreInv /\ Registry /\ Orphans
  BY DEF DaemonInv
<1>3. /\ Registry' /\ DOMAIN subs' = DOMAIN subs /\ UNCHANGED <<path, made>>
      /\ \A x \in DOMAIN subs : x # "publisher" => subs'[x] = subs[x]
  BY <1>1, <1>2, TakeKeeps
<1>4. DOMAIN pub' = DOMAIN pub /\ pub'.trip = pub.trip
  BY <1>1, <1>2 DEF Publishing
<1>5. Publishing'
  BY <1>1, <1>2, <1>4 DEF Publishing
<1>6. CoreInv'
  BY <1>2, <1>3, SameLeft
<1>7. ASSUME NEW x \in Clients PROVE Hears(x)'
  <2>1. /\ told'[x] = told[x] /\ (call'[x] = "streaming" => call[x] = "streaming")
        /\ x \in DOMAIN subs => x \in DOMAIN subs' /\ subs'[x] = subs[x]
    BY <1>1, <1>3, CallersAre
  <2> QED
    BY <1>1, <1>3, <2>1, OtherHears
<1>8. Orphans'
  BY <1>1, <1>2, <1>7 DEF Orphans
<1> QED
  BY <1>3, <1>5, <1>6, <1>8 DEF DaemonInv

-----------------------------------------------------------------------------
(* The invariant and what follows from it.                                 *)

\* It holds at the start.
LEMMA DaemonInit ==
  ASSUME Init
  PROVE  DaemonInv
<1>1. PICK e : e = [id |-> 1, kind |-> "init", key |-> Own.key, path |-> <<>>, val |-> None,
                    to |-> None]
  OBVIOUS
<1>2. path = <<e>> /\ made = 1 /\ e.id = 1 /\ e.kind = "init" /\ e.path = <<>> /\ e.to = None
  BY <1>1 DEF Init
<1>3. IsSeq(path) /\ Len(path) = 1 /\ path # <<>> /\ path[1] = e
  <2>1. path \in Seq({e}) /\ Len(path) = 1 /\ path[1] = e
    BY <1>2
  <2>2. Len(<<>>) = 0 /\ 0 # 1
    BY EmptyIn
  <2>3. path # <<>>
    BY ONLY <2>1, <2>2
  <2> QED
    BY <2>1, <2>3, SeqIs
<1>4. \A i \in 1 .. 1 : i = 1
  OBVIOUS
<1>5. GoodPath
  <2>1. IsSeq(e.path)
    BY <1>2, EmptyIs
  <2>2. \A i \in 1 .. Len(path) : path[i] = e
    BY <1>3, <1>4
  <2>3. \A i, j \in 1 .. Len(path) : ~ (i < j)
    BY <1>3
  <2>4. \A i \in 1 .. Len(path) : IsSeq(path[i].path) /\ path[i].id \in Nat /\ path[i].id <= made
    BY <1>2, <2>1, <2>2
  <2> QED
    BY <1>2, <1>3, <2>3, <2>4 DEF GoodPath
<1>6. Ledgered
  BY <1>2, <1>3, <1>4 DEF Ledgered
<1>7. StaysReachable
  BY <1>3 DEF StaysReachable
<1>8. Registry
  <2>1. /\ DOMAIN subs = {"publisher"} /\ DOMAIN due = {"publisher"} /\ due["publisher"] = {}
        /\ subs["publisher"] = [filter |-> Filter, pending |-> {}]
    BY DEF Init
  <2>2. PICK n : n = [filter |-> Filter, pending |-> {}]
    OBVIOUS
  <2>3. n.filter = Filter /\ n.pending = {}
    BY <2>2
  <2>4. Kept(n, {}, Left)
    BY <2>2, <2>3 DEF Kept
  <2> QED
    BY <2>1, <2>2, <2>4 DEF Registry
<1>9. Orphans
  <2>1. DOMAIN ask = Clients /\ DOMAIN told = Clients
    BY DEF Init
  <2>2. ASSUME NEW c \in Clients PROVE Hears(c)
    <3>1. ask[c] = [on |-> "none"] /\ told[c] = {} /\ call[c] = "new"
      BY CallersAre DEF Init
    <3>2. ask[c].on # "orphan"
      BY <3>1
    <3> QED
      BY <3>1, <3>2 DEF Hears
  <2> QED
    BY <2>1, <2>2 DEF Orphans
<1>10. Publishing
  <2>1. DOMAIN call = Callers /\ asker \in Clients \cup {None}
    BY DEF Init
  <2>2. call["publish"] = "none"
    <3>1. "publish" \in Callers /\ "publish" \notin Clients
      BY CallersAre
    <3> QED
      BY <3>1 DEF Init
  <2>3. queue \in Seq(Callers) /\ Idle(queue)
    <3>1. Len(<<>>) = 0 /\ <<>> \in Seq(Callers) /\ queue = <<>>
      BY EmptyIn DEF Init
    <3> QED
      BY <3>1 DEF Idle
  <2>4. DOMAIN pub = {"state", "timer", "in_flight", "again", "trip", "outcome"}
    BY DEF Init
  <2>5. DOMAIN addr = {"at", "news"} /\ addr.at = 1
    BY DEF Init
  <2>6. addr.at \in DOMAIN Wanted
    BY <2>5, WantedDomain
  <2> QED
    BY <2>1, <2>2, <2>3, <2>4, <2>5, <2>6 DEF Publishing
<1> QED
  BY <1>5, <1>6, <1>7, <1>8, <1>9, <1>10 DEF DaemonInv, CoreInv

\* Every step keeps it.
LEMMA DaemonNext ==
  ASSUME DaemonInv, [Next]_vars
  PROVE  DaemonInv'
<1>1. CASE UNCHANGED vars
  <2>1. UNCHANGED <<queue, asker, call, core, ask, told, addr, pub>>
    BY <1>1 DEF vars, loop, ends
  <2>2. Publishing'
    BY <2>1 DEF DaemonInv, Publishing
  <2> QED
    BY <2>1, <2>2, QuietStep
<1>2. ASSUME NEW x \in Callers, Send(x) \/ SendFails(x) PROVE DaemonInv'
  BY <1>2, SendStep, SendFailsStep
<1>3. ASSUME NEW a \in DOMAIN mail, Actor(a) PROVE DaemonInv'
  BY <1>3, ReportStep, StopStep DEF Actor
<1>4. ASSUME NEW c \in Clients, Notify(c) \/ StreamEnds(c) PROVE DaemonInv'
  BY <1>4, NotifyStep, HangStep DEF StreamEnds
<1>5. CASE Publisher
  BY <1>5, AddrUpdatedStep, LedgerMovedStep, TimerFiresStep, LandStep DEF Publisher
<1>6. CASE Mainloop
  <2>1. ASSUME NEW c \in Clients, Client(c) PROVE DaemonInv'
    BY <2>1, WeakWriteStep, WatchStep, WatchOrphanedStep, StatusStep DEF Client
  <2>2. ASSUME NEW keep \in 1 .. Len(path), NEW w \in Writes, Pulls(keep, w) PROVE DaemonInv'
    BY <2>2, PullsStep
  <2> QED
    BY <1>6, <2>1, <2>2, ShutdownStep, AllDroppedStep, GoneStep, ReadsStep, AdvertiseStep
       DEF Mainloop
<1>7. CASE Environment
  <2>1. ASSUME NEW c \in Clients, Hang(c) \/ \E r \in Requests : Accept(c, r) PROVE DaemonInv'
    BY <2>1, HangStep, AcceptStep
  <2>2. ASSUME NEW how \in {"sending", "done"}, Operator(how) PROVE DaemonInv'
    BY <2>2, OperatorStep
  <2> QED
    BY <1>7, <2>1, <2>2, AddrMovesStep, AskStep DEF Environment
<1> QED
  BY <1>1, <1>2, <1>3, <1>4, <1>5, <1>6, <1>7 DEF Next, System

LEMMA DaemonAlways == Spec => []DaemonInv
BY DaemonInit, DaemonNext, PTL DEF Spec

\* What a slow subscriber finds is what it missed (Subscriber::push,
\* Movement::merge, ChangeSet::touch): no movement it was to hear of is lost
\* in the merge, nothing is made up, and no recorded path covers another.
THEOREM FindsWhatItMissed == Spec => []PendingIsExact
<1>1. ASSUME Registry PROVE PendingIsExact
  <2> SUFFICES ASSUME NEW s \in DOMAIN subs
               PROVE  /\ subs[s].pending = {} <=> due[s] = {}
                      /\ \A p \in subs[s].pending :
                           LET m == p.movement
                           IN /\ \A w \in Writes : Touches(m.changes, w.key, w.path) <=>
                                   \E d \in due[s] : Touches(d.changes, w.key, w.path)
                              /\ m.orphaned = UNION {d.orphaned : d \in due[s]}
                              /\ \A key \in DOMAIN m.changes : \A a, b \in m.changes[key] :
                                   Covers(a, b) => a = b
    BY DEF PendingIsExact
  <2>1. Kept(subs[s], due[s], Left)
    BY <1>1 DEF Registry
  <2>2. CASE subs[s].pending = {} /\ due[s] = {}
    BY <2>2
  <2>3. CASE ~ (subs[s].pending = {} /\ due[s] = {})
    <3>1. PICK from, head, m :
            /\ subs[s].pending = {[from |-> from, head |-> head, movement |-> m]}
            /\ Exact(m, due[s], Left) /\ due[s] # {}
      BY <2>1, <2>3 DEF Kept
    <3>2. ASSUME NEW p \in subs[s].pending PROVE p.movement = m
      <4>1. p = [from |-> from, head |-> head, movement |-> m]
        BY <3>1
      <4> QED
        BY <4>1
    <3>3. /\ \A w \in Writes : Touches(m.changes, w.key, w.path) <=>
               \E d \in due[s] : Touches(d.changes, w.key, w.path)
          /\ m.orphaned = UNION {d.orphaned : d \in due[s]}
          /\ \A key \in DOMAIN m.changes : \A a, b \in m.changes[key] : Covers(a, b) => a = b
      BY <3>1 DEF Exact, IsMovement, Tidy
    <3>4. subs[s].pending # {}
      BY <3>1
    <3> QED
      BY <3>1, <3>2, <3>3, <3>4
  <2> QED
    BY <2>2, <2>3
<1>2. DaemonInv => PendingIsExact
  BY <1>1 DEF DaemonInv
<1> QED
  BY <1>2, DaemonAlways, PTL

\* Whoever watches for an envelope to leave the path hears of it, also when it
\* left just before (Core::watch_orphaned), and is told of nothing that stayed.
THEOREM OrphansAreTold == Spec => []OrphanTold
<1>1. ASSUME Orphans PROVE OrphanTold
  <2> SUFFICES ASSUME NEW c \in Clients, ask[c].on = "orphan"
               PROVE  /\ call[c] = "streaming" /\ ~OnPath(ask[c].arg) =>
                           \/ ask[c].arg \in told[c]
                           \/ \E p \in subs[c].pending : ask[c].arg \in p.movement.orphaned
                      /\ \A id \in told[c] : ~OnPath(id)
    BY DEF OrphanTold
  <2>1. Hears(c)
    BY <1>1 DEF Orphans
  <2>2. \A id \in told[c] : ~OnPath(id)
    BY <2>1 DEF Hears, Left
  <2> QED
    BY <2>1, <2>2 DEF Hears, Awaiting
<1>2. DaemonInv => OrphanTold
  BY <1>1 DEF DaemonInv
<1> QED
  BY <1>2, DaemonAlways, PTL

\* Whatever branch or peer cuts a run of edits short (Core::transport_edits,
\* sign_updates), a transport the node can be reached at and was listed with
\* is still listed.
THEOREM EditsKeepReachable == Spec => []StaysReachable
<1>1. DaemonInv => StaysReachable
  BY DEF DaemonInv, CoreInv
<1> QED
  BY <1>1, DaemonAlways, PTL
=============================================================================

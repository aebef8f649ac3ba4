-------------------------- MODULE EnvelopesProofs --------------------------
(***************************************************************************)
(* The parent chain as an order.                                           *)
(***************************************************************************)
EXTENDS Envelopes, TLAPS

\* An ancestor is an envelope.
LEMMA AncType ==
  ASSUME NEW d \in Digest
  PROVE  Anc[d] \subseteq Digest
BY DEF Anc

\* Every envelope is on its own parent chain.
LEMMA AncSelf ==
  ASSUME NEW d \in Digest
  PROVE  d \in Anc[d]
BY DEF Anc

\* A set that holds d and is closed under parents holds all of Anc[d].
LEMMA AncLeast ==
  ASSUME NEW d \in Digest, NEW S \in SUBSET Digest,
         d \in S, \A x \in S \ {Genesis} : Prev[x] \in S
  PROVE  Anc[d] \subseteq S
BY DEF Anc

\* Parent chains are closed under parents.
LEMMA AncClosed ==
  ASSUME NEW d \in Digest, NEW a \in Anc[d], a # Genesis
  PROVE  Prev[a] \in Anc[d]
<1>1. a \in Digest
  BY AncType
<1>2. Prev[a] \in Digest
  BY <1>1, EnvelopeAssumption
<1>3. ASSUME NEW S \in SUBSET Digest,
             d \in S, \A x \in S \ {Genesis} : Prev[x] \in S
      PROVE  Prev[a] \in S
  BY <1>3, AncLeast
<1> QED
  BY <1>2, <1>3 DEF Anc

\* An ancestor's parent chain is part of the descendant's.
LEMMA AncTransitive ==
  ASSUME NEW d \in Digest, NEW a \in Anc[d]
  PROVE  Anc[a] \subseteq Anc[d]
<1>1. a \in Digest /\ Anc[d] \in SUBSET Digest
  BY AncType
<1>2. \A x \in Anc[d] \ {Genesis} : Prev[x] \in Anc[d]
  BY AncClosed
<1> QED
  BY <1>1, <1>2, AncLeast

\* A parent's chain is the child's without the child.
LEMMA AncStep ==
  ASSUME NEW d \in Digest, d # Genesis
  PROVE  Anc[d] = {d} \cup Anc[Prev[d]]
<1> DEFINE S == {d} \cup Anc[Prev[d]]
<1>1. Prev[d] \in Digest
  BY EnvelopeAssumption
<1>2. S \in SUBSET Digest /\ d \in S
  BY <1>1, AncType
<1>3. \A x \in S \ {Genesis} : Prev[x] \in S
  BY <1>1, AncSelf, AncClosed
<1>4. Anc[d] \subseteq S
  BY <1>2, <1>3, AncLeast
<1>5. Prev[d] \in Anc[d]
  BY AncSelf, AncClosed
<1> QED
  BY <1>4, <1>5, AncSelf, AncTransitive

\* Genesis has no other ancestor.
LEMMA AncGenesis == Anc[Genesis] = {Genesis}
<1>1. Genesis \in Digest
  BY DigestAssumption
<1>2. Anc[Genesis] \subseteq {Genesis}
  BY <1>1, AncLeast
<1> QED
  BY <1>1, <1>2, AncSelf

\* No envelope is its own proper ancestor.
LEMMA AncAcyclic ==
  ASSUME NEW d \in Digest, d # Genesis
  PROVE  d \notin Anc[Prev[d]]
<1> DEFINE Loop == {x \in Anc[d] : d \in Anc[x]}
<1> SUFFICES ASSUME d \in Anc[Prev[d]] PROVE FALSE
  OBVIOUS
<1>1. Loop \in SUBSET Digest /\ d \in Loop
  BY AncType, AncSelf
<1>2. PICK x \in Loop : x = Genesis \/ Prev[x] \notin Loop
  BY <1>1, AcyclicAssumption
<1>3. x \in Digest
  BY <1>1
<1>4. x # Genesis
  BY AncGenesis
<1>5. Prev[x] \in Anc[d]
  BY <1>4, AncClosed
<1>6. d \in Anc[Prev[x]]
  <2>1. CASE x = d
    BY <2>1
  <2>2. CASE x # d
    BY <2>2, <1>3, <1>4, AncStep
  <2> QED
    BY <2>1, <2>2
<1> QED
  BY <1>2, <1>4, <1>5, <1>6

\* Two envelopes that are each other's ancestor are the same.
LEMMA AncAntisymmetric ==
  ASSUME NEW d \in Digest, NEW a \in Anc[d], d \in Anc[a]
  PROVE  a = d
<1> SUFFICES ASSUME a # d PROVE FALSE
  OBVIOUS
<1>1. a \in Digest
  BY AncType
<1>2. d # Genesis
  BY AncGenesis
<1>3. Prev[d] \in Digest /\ a \in Anc[Prev[d]]
  BY <1>2, AncStep, EnvelopeAssumption
<1>4. d \in Anc[Prev[d]]
  BY <1>3, AncTransitive
<1> QED
  BY <1>2, <1>4, AncAcyclic

\* Two ancestors of one envelope are on one line.
LEMMA AncLinear ==
  ASSUME NEW d \in Digest, NEW a \in Anc[d], NEW b \in Anc[d]
  PROVE  a \in Anc[b] \/ b \in Anc[a]
<1> DEFINE S == {x \in Anc[d] : a \in Anc[x] \/ x \in Anc[a]}
<1>1. S \in SUBSET Digest /\ d \in S /\ a \in Digest
  BY AncType, AncSelf
<1>2. ASSUME NEW x \in S \ {Genesis} PROVE Prev[x] \in S
  <2>1. Prev[x] \in Anc[d] /\ x \in Digest
    BY AncClosed, <1>1
  <2>2. CASE x \in Anc[a]
    BY <2>1, <2>2, <1>1, AncClosed
  <2>3. CASE a \in Anc[x] /\ x \notin Anc[a]
    <3>1. a # x
      BY <2>3, <1>1, AncSelf
    <3> QED
      BY <3>1, <2>1, <2>3, AncStep
  <2> QED
    BY <2>1, <2>2, <2>3
<1> QED
  BY <1>1, <1>2, AncLeast

\* Every parent chain goes back to the Init envelope.
LEMMA AncFromGenesis ==
  ASSUME NEW d \in Digest
  PROVE  Genesis \in Anc[d]
<1>1. Anc[d] \in SUBSET Digest /\ Anc[d] # {}
  BY AncType, AncSelf
<1>2. PICK x \in Anc[d] : x = Genesis \/ Prev[x] \notin Anc[d]
  BY <1>1, AcyclicAssumption
<1> QED
  BY <1>2, AncClosed

\* The chain above an ancestor starts with a child of it.
LEMMA FirstAbove ==
  ASSUME NEW d \in Digest, NEW a \in Anc[d], a # d
  PROVE  \E x \in Above(a, d) : x # Genesis /\ Prev[x] = a
<1>1. a \in Digest
  BY AncType
<1>2. Above(a, d) \in SUBSET Digest
  BY AncType DEF Above
<1>3. d \in Above(a, d)
  BY <1>1, AncSelf, AncAntisymmetric DEF Above
<1>4. PICK x \in Above(a, d) : x = Genesis \/ Prev[x] \notin Above(a, d)
  BY <1>2, <1>3, AcyclicAssumption
<1>5. x \in Digest /\ x \in Anc[d] /\ x \notin Anc[a]
  BY <1>2 DEF Above
<1>6. x # Genesis
  BY <1>1, <1>5, AncFromGenesis
<1>7. Prev[x] \in Anc[d] /\ Prev[x] \in Digest
  BY <1>5, <1>6, AncClosed, EnvelopeAssumption
<1>8. Prev[x] \in Anc[a]
  BY <1>4, <1>6, <1>7 DEF Above
<1>9. a \in Anc[x] /\ a # x
  BY <1>1, <1>5, AncLinear, AncSelf
<1>10. a \in Anc[Prev[x]]
  BY <1>5, <1>6, <1>9, AncStep
<1>11. Prev[x] = a
  BY <1>1, <1>8, <1>10, AncAntisymmetric
<1> QED
  BY <1>6, <1>11

\* Two chains that part have two different children of one envelope on them.
LEMMA Parting ==
  ASSUME NEW a \in Digest, NEW b \in Digest, a \notin Anc[b], b \notin Anc[a]
  PROVE  \E x \in Anc[a] \ Anc[b], y \in Anc[b] \ Anc[a] :
           x # Genesis /\ y # Genesis /\ Prev[x] = Prev[y]
<1> DEFINE S == Anc[a] \ Anc[b]
<1>1. S \in SUBSET Digest /\ a \in S
  BY AncType, AncSelf
<1>2. PICK x \in S : x = Genesis \/ Prev[x] \notin S
  BY <1>1, AcyclicAssumption
<1>3. x \in Digest /\ x # Genesis
  BY <1>1, <1>2, AncFromGenesis
<1>4. Prev[x] \in Anc[a]
  BY <1>2, <1>3, AncClosed
<1>5. Prev[x] \in Anc[b] /\ Prev[x] # b
  BY <1>2, <1>3, <1>4
<1>6. PICK y \in Above(Prev[x], b) : y # Genesis /\ Prev[y] = Prev[x]
  BY <1>5, FirstAbove
<1>7. y \in Anc[b] /\ y \notin Anc[Prev[x]] /\ y \in Digest
  BY <1>6, AncType DEF Above
<1>8. y \notin Anc[a]
  <2> SUFFICES ASSUME y \in Anc[a] PROVE FALSE
    OBVIOUS
  <2>1. x \in Anc[y] \/ y \in Anc[x]
    BY <1>2, AncLinear
  <2>2. x \notin Anc[y]
    BY <1>2, <1>7, AncTransitive
  <2>3. y \in {x} \cup Anc[Prev[x]]
    BY <1>3, <2>1, <2>2, AncStep
  <2> QED
    BY <1>2, <1>7, <2>3
<1> QED
  BY <1>2, <1>3, <1>6, <1>7, <1>8
=============================================================================

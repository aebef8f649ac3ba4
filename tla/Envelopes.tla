----------------------------- MODULE Envelopes -----------------------------
(***************************************************************************)
(* The envelope tree and the fork rule.                                    *)
(*                                                                         *)
(* Envelopes are fixed data: a digest pins an envelope's parent, its       *)
(* verified weight and whether it applies to its parent's state, since all *)
(* three are functions of content the digest covers.                       *)
(*                                                                         *)
(* A definition marked "Slip" is a plausible mistake in the definition     *)
(* after it.  The specifications never use it; the mutation runs put it in *)
(* that definition's place, to show which property would notice.           *)
(***************************************************************************)
EXTENDS Naturals, FiniteSets

CONSTANTS
  Digest,   \* the envelopes that exist; digests are compared numerically
  Genesis,  \* the Init envelope, the only one without a prev digest
  Prev,     \* prev digest of every other envelope
  Weight,   \* signature weight of an envelope verified at its parent
  None      \* no digest

ASSUME DigestAssumption ==
  /\ Digest \subseteq Nat
  /\ Genesis \in Digest
  /\ None \notin Digest

ASSUME EnvelopeAssumption ==
  /\ Prev \in [Digest \ {Genesis} -> Digest]
  /\ Weight \in [Digest -> Nat]

\* A digest covers its parent's, so a parent chain never loops: every set of
\* envelopes has one whose parent is outside it.
ASSUME AcyclicAssumption ==
  \A S \in SUBSET Digest :
    S # {} => \E d \in S : d = Genesis \/ Prev[d] \notin S

-----------------------------------------------------------------------------

\* d and every envelope on its parent chain.
Anc == [d \in Digest |->
          {a \in Digest : \A S \in SUBSET Digest :
             (d \in S /\ \A x \in S \ {Genesis} : Prev[x] \in S) => a \in S}]

\* The envelopes after a on d's parent chain, d included.
Above(a, d) == Anc[d] \ Anc[a]

\* Storage::children: stored envelopes whose prev is p, p stored or not.
Children(L, p) == {d \in L \ {Genesis} : Prev[d] = p}

\* What Storage::parent hops from d visit: each hop needs the envelope it
\* leaves to be stored, so the last digest visited may be missing.
Hops(L, d) == {a \in Anc[d] : Above(a, d) \subseteq L}

\* The weight fork resolution reads off the stored status.
Rank(W, d) == IF d \in W THEN Weight[d] ELSE 0

\* The fork rule: higher weight, then higher digest.
Beats(W, a, b) ==
  Rank(W, a) > Rank(W, b) \/ (Rank(W, a) = Rank(W, b) /\ a > b)

\* Slip: the first child the index yields, whatever its rank.
AnyChild(L, W, p, w) == w \in Children(L, p)

\* Chain::step's choice among the children of p.
Winner(L, W, p, w) ==
  w \in Children(L, p) /\ \A v \in Children(L, p) \ {w} : Beats(W, w, v)

\* The path of winners the walk takes from r reaches d.
OnPath(L, W, r, d) ==
  /\ r \in Anc[d]
  /\ \A x \in Above(r, d) : Winner(L, W, Prev[x], x)

\* Where the walk from r ends.
IsTip(L, W, r, d) == OnPath(L, W, r, d) /\ Children(L, d) = {}
=============================================================================

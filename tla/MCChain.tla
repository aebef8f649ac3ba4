------------------------------ MODULE MCChain ------------------------------
(***************************************************************************)
(* Two small envelope trees for Chain.                                     *)
(***************************************************************************)
EXTENDS Chain, TLC

\* A trunk 1 <- 2 <- 3 <- 4; a heavier fork 5 <- 7 beside 3; 6 beside 2, equal
\* in weight and higher in digest; and 8 beside 3 and 5, heaviest of the
\* three, which does not apply.
MCDigest == 1 .. 8
MCPrev   == (2 :> 1) @@ (3 :> 2) @@ (4 :> 3) @@ (5 :> 2) @@ (6 :> 1) @@ (7 :> 5)
              @@ (8 :> 2)
MCWeight == [d \in MCDigest |-> CASE d = 5 -> 2 [] d = 8 -> 3 [] OTHER -> 1]

\* A smaller one with a reorganisation and two successive cuts.
TinyDigest == 1 .. 4
TinyPrev   == (2 :> 1) @@ (3 :> 1) @@ (4 :> 3)
TinyWeight == [d \in TinyDigest |-> IF d = 3 THEN 2 ELSE 1]
=============================================================================

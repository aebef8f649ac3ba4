------------------------------ MODULE MCSync -------------------------------
(***************************************************************************)
(* Small clusters for Sync.                                                *)
(***************************************************************************)
EXTENDS Sync, TLC

CONSTANTS na, nb, nc

Pair      == {na, nb}
PairLinks == {<<na, nb>>, <<nb, na>>}
Nothing   == [n \in Node |-> {}]

\* Three in a row: what na and nc wrote meets at nb, and nc's, which wins,
\* passes through it to na.  nc dials nb, na and nb dial each other.
Row      == {na, nb, nc}
RowLinks == {<<na, nb>>, <<nb, na>>, <<nb, nc>>}
RowDigest == 1 .. 3
RowPrev   == (2 :> 1) @@ (3 :> 1)
RowWeight == [d \in RowDigest |-> 1]
RowStart  == (na :> [log |-> {1, 2}, root |-> 1, head |-> 2])
               @@ (nb :> [log |-> {1}, root |-> 1, head |-> 1])
               @@ (nc :> [log |-> {1, 3}, root |-> 1, head |-> 3])

\* nb is ahead of na on 1 <- 2 <- 3 <- 4; na's 5 competes with 3 and wins.
\* Each may compact up to what it has on top of 1: nb at 4 and na at 5 share
\* nothing any more.  A node that keeps 3 as the loser beside a cut at 2 has
\* lost its version, and a threshold over 3 keeps what arrives on top of it
\* from standing.
CutDigest == 1 .. 5
CutPrev   == (2 :> 1) @@ (3 :> 2) @@ (4 :> 3) @@ (5 :> 2)
CutWeight == [d \in CutDigest |-> 1]
CutStart  == (na :> [log |-> {1, 2}, root |-> 1, head |-> 2])
               @@ (nb :> [log |-> {1, 2, 3}, root |-> 1, head |-> 3])
CutOwn    == (na :> {5}) @@ (nb :> {4})
CutCuts   == (na :> {2, 5}) @@ (nb :> {2, 3, 4})
=============================================================================

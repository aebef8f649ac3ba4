------------------------------ MODULE MCPeers ------------------------------
(***************************************************************************)
(* A node and one peer, whose machine moves, is replaced, delisted, listed. *)
(***************************************************************************)
EXTENDS Peers, TLC

CONSTANTS me, p, e0, e1, e2

Two      == {me, p}
Machines == {e0, e1, e2}
MyHome   == [id |-> e0, via |-> 1]
With(a)  == (me :> MyHome) @@ (p :> a)

At1   == With([id |-> e1, via |-> 1])
At2   == With([id |-> e1, via |-> 2])
Other == With([id |-> e2, via |-> 1])
Alone == With(None)

Homes == (e0 :> 1) @@ (e1 :> 2) @@ (e2 :> 1)

Moves == {At1, At2, Other, Alone}
OnOff == {At2, Alone}
=============================================================================

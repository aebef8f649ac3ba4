----------------------------- MODULE MCControl -----------------------------
(***************************************************************************)
(* Two connections on a chain of one envelope.                             *)
(***************************************************************************)
EXTENDS Control, TLC

CONSTANTS c1, c2

MCIntMin == -4

K == {<<Key("k")>>}

MCGenesis ==
  [digest |-> 1, prev |-> 0, key |-> "m", width |-> 0,
   state |-> ("m" :> Map("k" :> Integer(1))) @@ ("a" :> Array(<<>>))]

\* One program follows the chain while the other reads, writes or prunes ...
Following ==
  ({WatchNamespace("m")} \X {Read("m", {}), WeakSet("m", K, Wide)})
    \cup {<<WatchHead, Read("m", {})>>, <<Orphaned(2), WeakDelete("a", {})>>}
    \cup {<<ChainWalk({2}, {2}), WeakSet("m", K, Wide)>>, <<ChainWalk({2}, {}), Compact>>}

\* ... and every other request beside one more.
Others ==
  {<<GetStatus, GetVersion>>, <<CreateInvite(1, 1), Unknown>>,
   <<Digests(<<2, 1>>), WeakPush("m", {}, Integer(1))>>,
   <<GetChainRange, Query("m", {}, "Keys")>>,
   <<ListNamespaces, WeakSet("m", {}, Array(<<Wide, Wide>>))>>,
   <<WeakIncrement("m", K, Increment(1, {}, {})),
     WeakDeleteMatching("m", {}, {[path |-> <<>>, value |-> Integer(1)]})>>}

MCScripts == {(c1 :> s[1]) @@ (c2 :> s[2]) : s \in Following \cup Others}

MCForeign ==
  {[back |-> 0, msg |-> SetNamespaceKey("m", <<Key("k")>>, Integer(2))],
   [back |-> 1, msg |-> SetNamespace("b", Integer(0))]}
=============================================================================

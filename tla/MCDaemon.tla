------------------------------ MODULE MCDaemon -----------------------------
(***************************************************************************)
(* A daemon with a few clients.                                            *)
(***************************************************************************)
EXTENDS Daemon, TLC

Nodes == "cluster-nodes"
Keys  == "trusted-keys"

MCOwn == [key |-> Nodes, path |-> <<"own", "iroh", "addrs">>]

\* "x" is of old, "z" of a kind only a newer build writes.
MCListed == <<"x", "z", "a">>
MCWanted == <<<<"a">>, <<"a", "b">>>>

Entry(kind, key, path_, val) ==
  [kind |-> kind, key |-> key, path |-> path_, val |-> val, to |-> None]

Delisted == Entry("listing", Nodes, <<"own">>, None)
Moved    == Entry("listing", Nodes, <<"own">>, Other)
Revoked  == Entry("keys", Keys, <<>>, FALSE)
Peer     == Entry("other", Nodes, <<"peer", "iroh">>, None)

Written == {Delisted, Revoked, Moved}

Watched == {[on |-> "Path", key |-> Nodes, path |-> <<"own">>],
            [on |-> "Namespace", key |-> Keys]}

Calls ==
  {[on |-> "watch", arg |-> {[on |-> "Namespace", key |-> Nodes]}],
   [on |-> "orphan", arg |-> 2], [on |-> "status"], [on |-> "write", arg |-> Peer]}
=============================================================================

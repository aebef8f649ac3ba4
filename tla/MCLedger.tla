------------------------------ MODULE MCLedger ------------------------------
(***************************************************************************)
(* A catalogue of envelopes that reaches every message, every judgement    *)
(* and every kind of row the store writes.                                 *)
(***************************************************************************)
EXTENDS Ledger

PublicKey(id) == [id |-> id, weight |-> 2]
By1  == [k \in {"k1"} |-> TRUE]
Both == [k \in {"k1", "k2"} |-> TRUE]
Env(m, sigs) == [msg |-> m, sigs |-> sigs]

a == Key("a")
b == Key("b")
list == Key("list")
x == Text("x")
y == Text("y")

One(k, v) == Map([key \in {k} |-> v])

Endpoint(id, type, addr) ==
  Map([f \in {"iroh"} |->
    Map([g \in {"endpoint_id", "addrs"} |->
      IF g = "endpoint_id" THEN Text(id)
      ELSE Array(<<Map([h \in {"type", "addr"} |->
                          IF h = "type" THEN Text(type) ELSE Text(addr)])>>)])])

Start ==
  [k \in {TrustedKeys, MinEnvelopeWeight, ClusterNodes, "n"} |->
     CASE k = TrustedKeys -> Map([id \in {"k1", "k2"} |-> KeyOf(PublicKey(id))])
       [] k = MinEnvelopeWeight -> Integer(1)
       [] k = ClusterNodes -> Map(<<>>)
       [] OTHER -> Map([f \in {"a", "list"} |->
                          IF f = "a" THEN One("b", Integer(1)) ELSE Array(<<x, y>>)])]

MCCatalogue ==
  [ genesis  |-> Env(Init_(Start), By1),
    whole    |-> Env(SetNamespace("n", One("list", Array(<<y>>))), By1),
    nested   |-> Env(SetNamespaceKey("n", <<a, b>>, Integer(2)), By1),
    clear    |-> Env(SetNamespaceKey("n", <<list, Index(0)>>, Nothing), By1),
    swap     |-> Env(SetNamespaceKey("n", <<list, Index(1)>>, One("b", x)), By1),
    orphan   |-> Env(SetNamespaceKey("n", <<Key("zz"), b>>, x), By1),
    fresh    |-> Env(SetNamespaceKey("n", <<Key("c")>>, Map(<<>>)), By1),
    append   |-> Env(AmendNamespaceKey("n", <<list>>, AppendEntry(x)), By1),
    create   |-> Env(AmendNamespaceKey("n", <<a, Key("l")>>, AppendEntry(x)), By1),
    past     |-> Env(AmendNamespaceKey("n", <<list, Index(5)>>, AppendEntry(x)), By1),
    add      |-> Env(AmendNamespaceKey("n", <<a, b>>,
                       IncrementDecrement(Increment(3, {}, {}))), By1),
    clamp    |-> Env(AmendNamespaceKey("n", <<a, b>>,
                       IncrementDecrement(Increment(4, {0}, {2}))), By1),
    drop     |-> Env(AmendNamespaceKey("n", <<list>>,
                       DeleteMatching({[path |-> <<>>, value |-> x]})), By1),
    dropmap  |-> Env(AmendNamespaceKey("n", <<>>,
                       DeleteMatching({[path |-> <<b>>, value |-> Integer(2)]})), By1),
    delete   |-> Env(DeleteNamespace("n"), By1),
    raise    |-> Env(AmendNamespaceKey(MinEnvelopeWeight, <<>>,
                       IncrementDecrement(Increment(2, {}, {}))), By1),
    negative |-> Env(AmendNamespaceKey(MinEnvelopeWeight, <<>>,
                       IncrementDecrement(Increment(-2, {}, {}))), By1),
    revoke   |-> Env(SetNamespaceKey(TrustedKeys, <<Key("k2")>>, Nothing), By1),
    misfile  |-> Env(SetNamespaceKey(TrustedKeys, <<Key("k2")>>, KeyOf(PublicKey("k1"))), By1),
    floor    |-> Env(SetNamespace(MinKeepMinutes, Integer(0)), By1),
    node     |-> Env(SetNamespaceKey(ClusterNodes, <<Key("k1")>>,
                       Endpoint("e1", "ip", "here")), By1),
    newer    |-> Env(SetNamespaceKey(ClusterNodes, <<Key("k1")>>,
                       Endpoint("e1", "tor", "there")), By1),
    garbled  |-> Env(SetNamespaceKey(ClusterNodes, <<Key("k1")>>,
                       Endpoint("e1", "ip", "??")), By1),
    both     |-> Env(SetNamespaceKey("n", <<a, b>>, x), Both),
    forged   |-> Env(DeleteNamespace("n"), [k \in {"k1", "k2"} |-> k = "k1"]),
    stranger |-> Env(DeleteNamespace("n"), [k \in {"k1", "k3"} |-> TRUE]),
    unsigned |-> Env(DeleteNamespace("n"), <<>>) ]

MCAdoptable == {<<"genesis", "nested">>, <<"genesis", "clear", "append">>}

MCLoggable == {<<"genesis", "nested">>, <<"genesis", "forged">>}

MCProbes == {<<>>, <<a, b>>, <<list>>, <<list, Index(1)>>, <<list, b>>, <<Key("zz"), b>>}

MCIntMin == -4

MCAddrs == {<<"ip", "here">>}
=============================================================================

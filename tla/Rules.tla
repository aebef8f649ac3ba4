-------------------------------- MODULE Rules --------------------------------
(***************************************************************************)
(* What the ledger lets an envelope do: signature verification, the        *)
(* thresholds and value rules of the reserved namespaces, and the checks   *)
(* each message passes before it reaches the store.                        *)
(*                                                                         *)
(* A state maps the namespaces it holds to their values.  An envelope is a *)
(* payload and, for each key that signed it, whether the signature is over *)
(* this envelope.  A judgement is "ok" or the name of the ApplyError.      *)
(***************************************************************************)
EXTENDS Values

CONSTANTS
  KeyIds,     \* the canonical spellings of key ids
  Endpoints,  \* the texts that are endpoint ids
  Addrs       \* <<type, text>>: the transport addresses this build can read

\* The reserved namespaces.
MinKeepMinutes        == "_lotus_min_keep_minutes"
MinEnvelopeWeight     == "_lotus_min_envelope_weight"
MinEnvelopeSignatures == "_lotus_min_envelope_signatures"
TrustedKeys           == "_lotus_trusted_keys"
ClusterNodes          == "_lotus_nodes"

-----------------------------------------------------------------------------
(* Reading the reserved namespaces.                                        *)

\* parse_min_keep, parse_threshold.
IsMinKeep(v)   == IsInt(v) /\ v.int \in 1 .. MaxU32
IsThreshold(v) == IsInt(v) /\ v.int \in 0 .. MaxU32

\* parse_trusted_keys: every entry a key, filed under its own id.
IsTrustedKeys(v) ==
  IsMap(v) /\ \A id \in DOMAIN v.map : IsKey(v.map[id]) /\ v.map[id].key.id = id

TextAt(v, field) == field \in DOMAIN v.map /\ IsText(v.map[field])

\* TransportAddr::try_from: readable, or of a type this build does not know.
KnownTypes == {"relay", "ip", "custom"}
IsTransport(v) ==
  /\ IsMap(v) /\ TextAt(v, "type") /\ TextAt(v, "addr")
  /\ v.map["type"].string \in KnownTypes
       => <<v.map["type"].string, v.map["addr"].string>> \in Addrs

\* EndpointAddr::try_from.
IsEndpoint(v) ==
  /\ IsMap(v) /\ TextAt(v, "endpoint_id")
  /\ v.map["endpoint_id"].string \in Endpoints
  /\ "addrs" \in DOMAIN v.map /\ IsArray(v.map["addrs"])
  /\ \A i \in DOMAIN v.map["addrs"].array : IsTransport(v.map["addrs"].array[i])

\* parse_cluster_nodes.
IsClusterNodes(v) ==
  /\ IsMap(v) /\ DOMAIN v.map \subseteq KeyIds
  /\ \A id \in DOMAIN v.map :
       LET node == v.map[id]
       IN IsMap(node) /\ "iroh" \in DOMAIN node.map /\ IsEndpoint(node.map["iroh"])

Ruled == {MinKeepMinutes, MinEnvelopeWeight, MinEnvelopeSignatures, TrustedKeys,
          ClusterNodes}

\* Ledger::rule and validate_value: may key hold v?
Allowed(key, v) ==
  CASE key = MinKeepMinutes -> IsMinKeep(v)
    [] key \in {MinEnvelopeWeight, MinEnvelopeSignatures} -> IsThreshold(v)
    [] key = TrustedKeys -> IsTrustedKeys(v)
    [] key = ClusterNodes -> IsClusterNodes(v)
    [] OTHER -> TRUE

\* Ledger::threshold, for a state whose ruled namespaces are readable.
Threshold(state, key) == IF key \in DOMAIN state THEN state[key].int ELSE 0

\* Ledger::trusted_keys.
Trusted(state) ==
  IF TrustedKeys \in DOMAIN state THEN state[TrustedKeys].map ELSE <<>>

-----------------------------------------------------------------------------
(* Signatures.                                                             *)

Failed(ids)   == [failed |-> ids]
AllMatched(w) == [weight |-> w]

\* Slip: keys outside the trusted set are passed over.
VerifyKnown(state, sigs) ==
  LET keys == Trusted(state)
      bad  == {id \in DOMAIN sigs \cap DOMAIN keys : ~sigs[id]}
  IN IF bad # {} THEN Failed(bad)
     ELSE AllMatched(FoldSet(LAMBDA id, sum : Capped(sum + keys[id].key.weight, {MaxU32}),
                             0, DOMAIN sigs \cap DOMAIN keys))

\* Ledger::verify_envelope against the parent's state.  The total saturates.
Verify(state, sigs) ==
  LET keys == Trusted(state)
      bad  == {id \in DOMAIN sigs : id \notin DOMAIN keys \/ ~sigs[id]}
  IN IF bad # {} THEN Failed(bad)
     ELSE AllMatched(FoldSet(LAMBDA id, sum : Capped(sum + keys[id].key.weight, {MaxU32}),
                             0, DOMAIN sigs))

\* Ledger::check_sig_thresholds.
SignedEnough(state, sigs) ==
  LET status == Verify(state, sigs)
  IN IF "failed" \in DOMAIN status THEN "InvalidSignatures"
     ELSE IF status.weight < Threshold(state, MinEnvelopeWeight) THEN "InsufficientWeight"
     ELSE IF Cardinality(DOMAIN sigs) < Threshold(state, MinEnvelopeSignatures)
          THEN "InsufficientSignatures"
     ELSE "ok"

-----------------------------------------------------------------------------
(* The messages, and the checks of Ledger::apply.                          *)

Init_(state)              == [type |-> "Init", state |-> state]
SetNamespace(key, v)      == [type |-> "SetNamespace", key |-> key, value |-> v]
SetNamespaceKey(key, p, v) ==
  [type |-> "SetNamespaceKey", key |-> key, path |-> p, value |-> v]
AmendNamespaceKey(key, p, op) ==
  [type |-> "AmendNamespaceKey", key |-> key, path |-> p, op |-> op]
DeleteNamespace(key)      == [type |-> "DeleteNamespace", key |-> key]

\* A walk that stopped short, as Miss::into_error names it.
Stopped(walk) == IF "missing" \in DOMAIN walk THEN "UnknownPath" ELSE "PathTypeMismatch"

\* The one absence a write may fill: a fresh key under an existing map.
FreshLeaf(walk, path) == "missing" \in DOMAIN walk /\ walk = Missing(Len(path) - 1, "Map")

\* Ledger::validate_set_key.
CheckSetKey(v, m) ==
  LET walk == Resolve(v, m.path)
  IN IF "node" \in DOMAIN walk \/ (FreshLeaf(walk, m.path) /\ m.value # Nothing)
     THEN "ok" ELSE Stopped(walk)

\* The increment's part of validate_amend_key.
CheckIncrement(v, m) ==
  LET inc == m.op.increment
      old == Walk(v, m.path)
  IN IF \E lo \in inc.min, hi \in inc.max : lo > hi THEN "InvalidBounds"
     ELSE IF ~IsInt(old) THEN "AmendTypeMismatch"
     ELSE IF Summed(inc, old.int) = {} THEN "Overflow"
     ELSE "ok"

\* Slip: an append may create its array anywhere.
CheckAmendAnywhere(v, m) ==
  LET walk == Resolve(v, m.path)
      kind == IF "append" \in DOMAIN m.op THEN {"Array"} ELSE {"Map", "Array"}
  IN IF "append" \in DOMAIN m.op /\ "missing" \in DOMAIN walk THEN "ok"
     ELSE IF "node" \notin DOMAIN walk THEN Stopped(walk)
     ELSE IF "increment" \in DOMAIN m.op
          THEN IF walk = Node("Leaf") THEN CheckIncrement(v, m) ELSE "AmendTypeMismatch"
     ELSE IF walk.node \in kind THEN "ok" ELSE "AmendTypeMismatch"

\* Ledger::validate_amend_key.
CheckAmendKey(v, m) ==
  LET walk == Resolve(v, m.path)
      kind == IF "append" \in DOMAIN m.op THEN {"Array"} ELSE {"Map", "Array"}
  IN IF "append" \in DOMAIN m.op /\ m.path # <<>> /\ FreshLeaf(walk, m.path) THEN "ok"
     ELSE IF "node" \notin DOMAIN walk THEN Stopped(walk)
     ELSE IF "increment" \in DOMAIN m.op
          THEN IF walk = Node("Leaf") THEN CheckIncrement(v, m) ELSE "AmendTypeMismatch"
     ELSE IF walk.node \in kind THEN "ok" ELSE "AmendTypeMismatch"

\* The namespace's value once m is written, as the trees in memory have it.
Written(state, m) ==
  CASE m.type = "SetNamespace" -> m.value
    [] m.type = "SetNamespaceKey" -> SetAt(state[m.key], m.path, m.value)
    [] OTHER -> AmendAt(state[m.key], m.path, m.op)

\* Slip: only whole-value writes are judged by the namespace's rule.
CheckMsgShallow(state, m) ==
  IF m.type = "Init" THEN "UnexpectedInit"
  ELSE IF m.type # "SetNamespace" /\ m.key \notin DOMAIN state THEN "UnknownNamespace"
  ELSE IF m.type = "DeleteNamespace" THEN "ok"
  ELSE IF m.type = "SetNamespace"
       THEN IF Allowed(m.key, m.value) THEN "ok" ELSE "InvalidValue"
  ELSE IF m.type = "SetNamespaceKey" THEN CheckSetKey(state[m.key], m)
  ELSE CheckAmendKey(state[m.key], m)

\* Ledger::apply's match with validate_nested after it: whole values and
\* nested writes are judged alike by the rule of the namespace they leave.
CheckMsg(state, m) ==
  IF m.type = "Init" THEN "UnexpectedInit"
  ELSE IF m.type # "SetNamespace" /\ m.key \notin DOMAIN state THEN "UnknownNamespace"
  ELSE IF m.type = "DeleteNamespace" THEN "ok"
  ELSE LET shape == CASE m.type = "SetNamespaceKey" -> CheckSetKey(state[m.key], m)
                      [] m.type = "AmendNamespaceKey" -> CheckAmendKey(state[m.key], m)
                      [] OTHER -> "ok"
       IN IF shape # "ok" THEN shape
          ELSE IF m.key \in Ruled /\ ~Allowed(m.key, Written(state, m)) THEN "InvalidValue"
          ELSE "ok"

\* Ledger::apply at the parent's state.
Judge(state, e) ==
  IF e.msg.type = "Init" THEN "UnexpectedInit"
  ELSE IF SignedEnough(state, e.sigs) # "ok" THEN SignedEnough(state, e.sigs)
  ELSE CheckMsg(state, e.msg)
=============================================================================

------------------------------ MODULE Requests ------------------------------
(***************************************************************************)
(* The control protocol's requests and answers, and what the core makes of *)
(* each request at the chain it stands on.                                 *)
(*                                                                         *)
(* The chain is the run of envelopes held, oldest first, each with the     *)
(* namespaces standing after it.  Digests number the envelopes in the      *)
(* order they reached the log, so a digest is also its stored_at.  An      *)
(* Option is a set of at most one element.                                 *)
(***************************************************************************)
EXTENDS Rules

CONSTANTS
  Keep,      \* how many of the newest envelopes compaction keeps
  Endpoint   \* whether the node serves peers

\* keep_envelopes is a NonZeroU32.
ASSUME KeepAssumption == Keep \in Nat \ {0}

-----------------------------------------------------------------------------
(* Requests.                                                               *)

GetVersion                == [type |-> "GetVersion"]
GetChainRange             == [type |-> "GetChainRange"]
GetStatus                 == [type |-> "GetStatus"]
ChainWalk(limit, since)   == [type |-> "GetEnvelopes", limit |-> limit, since |-> since]
Digests(ds)               == [type |-> "GetEnvelopes", digests |-> ds]
WatchHead                 == [type |-> "Watch", select |-> "Head"]
WatchNamespace(key)       == [type |-> "Watch", select |-> "Namespace", key |-> key]
Orphaned(d)               == [type |-> "Watch", select |-> "Orphaned", digest |-> d]
Read(key, path)           == [type |-> "Read", key |-> key, path |-> path]
ListNamespaces            == [type |-> "ListNamespaces"]
Query(key, path, kind)    == [type |-> "Query", key |-> key, path |-> path, kind |-> kind]
WeakSet(key, path, v)     == [type |-> "WeakSet", key |-> key, path |-> path, value |-> v]
WeakPush(key, path, v)    == [type |-> "WeakPush", key |-> key, path |-> path, value |-> v]
WeakDelete(key, path)     == [type |-> "WeakDelete", key |-> key, path |-> path]
WeakIncrement(key, path, inc) ==
  [type |-> "WeakIncrement", key |-> key, path |-> path, inc |-> inc]
WeakDeleteMatching(key, path, conds) ==
  [type |-> "WeakDeleteMatching", key |-> key, path |-> path, conds |-> conds]
CreateInvite(weight, ttl) == [type |-> "CreateInvite", weight |-> weight, ttl |-> ttl]
Compact                   == [type |-> "Compact"]

\* A method of a newer build: this one cannot decode it.
Unknown == [type |-> "Unknown"]

Writes  == {"WeakSet", "WeakPush", "WeakDelete", "WeakIncrement", "WeakDeleteMatching"}

\* The methods! table: answered many times; the others are AnsweredOnce.
Many == {"GetEnvelopes", "Watch"}

Methods ==
  Writes \cup Many
    \cup {"GetVersion", "GetChainRange", "GetStatus", "Read", "ListNamespaces", "Query",
          "CreateInvite", "Compact"}

\* The response variant that answers each method.
Variant(q) ==
  CASE q.type = "GetVersion"     -> "Version"
    [] q.type = "GetChainRange"  -> "ChainRange"
    [] q.type = "GetStatus"      -> "Status"
    [] q.type = "GetEnvelopes"   -> "Envelope"
    [] q.type = "Watch"          -> "Watch"
    [] q.type = "Read"           -> "Value"
    [] q.type = "ListNamespaces" -> "Namespaces"
    [] q.type = "Query"          -> "Queried"
    [] q.type \in Writes         -> "Written"
    [] q.type = "CreateInvite"   -> "Invite"
    [] q.type = "Compact"        -> "Compacted"
    [] OTHER                     -> "Unknown"

-----------------------------------------------------------------------------
(* Answers.                                                                *)

Version                   == [is |-> "Version"]
ChainRange(root, head)    == [is |-> "ChainRange", root |-> root, head |-> head]
NodeStatus(parts)         == [is |-> "Status", parts |-> parts]
EnvelopeFrame(e)          == [is |-> "Envelope", digest |-> e.digest, width |-> e.width]
Changed(from, head)       == [is |-> "Watch", from |-> from, head |-> head]
AlreadyOrphaned(d)        == [is |-> "Watch", orphaned |-> d]
ValueAt(head, v)          == [is |-> "Value", head |-> head, value |-> v]
NamespaceList(head, ns)   == [is |-> "Namespaces", head |-> head, namespaces |-> ns]
Queried(head, meta)       == [is |-> "Queried", head |-> head, meta |-> meta]
WrittenAs(digest, head, outcome) ==
  [is |-> "Written", digest |-> digest, head |-> head, outcome |-> outcome]
InviteCode(ttl)           == [is |-> "Invite", ttl |-> ttl]
Compacted(from, to, n)    == [is |-> "Compacted", from |-> from, to |-> to, pruned |-> n]
Failure(kind)             == [is |-> "Failed", kind |-> kind]

-----------------------------------------------------------------------------
(* What the core answers.  `core` is [chain, orphans, minted].             *)

\* A text near the frame limit, and how many of them a value holds.
Wide == Text("wide")
Width(v) ==
  IF v = Wide THEN 1
  ELSE IF IsMap(v) THEN Cardinality({k \in DOMAIN v.map : v.map[k] = Wide})
  ELSE IF IsArray(v) THEN Cardinality({i \in DOMAIN v.array : v.array[i] = Wide})
  ELSE 0

OldestOf(core) == Head(core.chain)
NewestOf(core) == Last(core.chain)
DigestsOf(entries) == {e.digest : e \in ToSet(entries)}

PathOf(q) == IF q.path = {} THEN <<>> ELSE CHOOSE p \in q.path : TRUE

\* Core::read: the value and the head it stands at, from one borrow.
ReadValue(core, q) ==
  LET state == NewestOf(core).state
  IN IF q.key \in DOMAIN state THEN Walk(state[q.key], PathOf(q)) ELSE Nothing

\* Core::meta and value_meta: the keys only when they were asked for.
Meta(v, kind) ==
  CASE v = Nothing -> {}
    [] IsArray(v)  -> {[shape |-> "Array", len |-> Len(v.array)]}
    [] IsMap(v)    -> {[shape |-> "Map", len |-> Cardinality(DOMAIN v.map),
                        keys  |-> IF kind = "Keys" THEN {DOMAIN v.map} ELSE {}]}
    [] OTHER       -> {[shape |-> "Leaf"]}

\* Core::namespaces: every key with the kind of its root.
Namespaces(core) ==
  LET state == NewestOf(core).state IN [k \in DOMAIN state |-> Kind(state[k])]

\* Core::canonical_chain: back from the head to the limit, to the first
\* envelope stored before the window, or to where the log stops.
CanonicalChain(core, limit, since) ==
  LET n    == Len(core.chain)
      old  == {i \in 1 .. n : \E s \in since : core.chain[i].digest <= core.minted - s}
      stop == old \cup {n - l : l \in {l \in limit : l < n}} \cup {0}
  IN SubSeq(core.chain, 1 + CHOOSE i \in stop : \A j \in stop : i >= j, n)

\* Core::envelopes: in the order asked for, what the log holds of them.
Logged(core, digests) ==
  LET Of(d) == {e \in ToSet(core.chain \o core.orphans) : e.digest = d}
      found[i \in 0 .. Len(digests)] ==
        IF i = 0 THEN <<>>
        ELSE IF Of(digests[i]) = {} THEN found[i - 1]
        ELSE Append(found[i - 1], CHOOSE e \in Of(digests[i]) : TRUE)
  IN found[Len(digests)]

\* Server::read_envelopes.
ReadEnvelopes(core, q) ==
  IF "digests" \in DOMAIN q THEN Logged(core, q.digests)
  ELSE CanonicalChain(core, q.limit, q.since)

\* WeakWrite::message: a path picks the nested form.
Message(q) ==
  CASE q.type = "WeakSet" ->
         IF q.path = {} THEN SetNamespace(q.key, q.value)
         ELSE SetNamespaceKey(q.key, PathOf(q), q.value)
    [] q.type = "WeakDelete" ->
         IF q.path = {} THEN DeleteNamespace(q.key)
         ELSE SetNamespaceKey(q.key, PathOf(q), Nothing)
    [] q.type = "WeakPush" ->
         AmendNamespaceKey(q.key, PathOf(q), AppendEntry(q.value))
    [] q.type = "WeakIncrement" ->
         AmendNamespaceKey(q.key, PathOf(q), IncrementDecrement(q.inc))
    [] OTHER ->
         AmendNamespaceKey(q.key, PathOf(q), DeleteMatching(q.conds))

\* The namespaces once m has been applied.
After(state, m) ==
  IF m.type = "DeleteNamespace" THEN [k \in DOMAIN state \ {m.key} |-> state[k]]
  ELSE [k \in DOMAIN state \cup {m.key} |->
          IF k = m.key THEN Written(state, m) ELSE state[k]]

\* What an envelope's frame takes of the limit beyond its fixed part.
Carried(m) ==
  CASE m.type \in {"SetNamespace", "SetNamespaceKey"} -> Width(m.value)
    [] m.type = "AmendNamespaceKey" /\ "append" \in DOMAIN m.op -> Width(m.op.append)
    [] OTHER -> 0

\* An envelope with message m on top of entry `prev`, next into the log.
Minted(core, prev, m) ==
  [digest |-> core.minted + 1, prev |-> prev.digest, key |-> m.key,
   state |-> After(prev.state, m), width |-> Carried(m)]

\* The core with m's envelope on the chain, the newest `back` undone by it.
Moved(core, back, m) ==
  LET n == Len(core.chain) - back
  IN [chain   |-> Append(SubSeq(core.chain, 1, n), Minted(core, core.chain[n], m)),
      orphans |-> core.orphans \o SubSeq(core.chain, n + 1, Len(core.chain)),
      minted  |-> core.minted + 1]

\* The dead branches that still hang off `kept`, each after what it is on.
Hanging(kept, orphans) ==
  LET on[i \in 0 .. Len(orphans)] ==
        IF i = 0 THEN <<>>
        ELSE IF orphans[i].prev \in DigestsOf(kept) \cup DigestsOf(on[i - 1])
        THEN Append(on[i - 1], orphans[i]) ELSE on[i - 1]
  IN on[Len(orphans)]

\* Core::compact: the chain from the cut on, and what hangs off it.
Pruned(core) ==
  LET n    == Len(core.chain)
      kept == SubSeq(core.chain, IF n > Keep THEN n - Keep + 1 ELSE 1, n)
  IN [core EXCEPT !.chain = kept, !.orphans = Hanging(kept, core.orphans)]

\* The namespaces a movement touched, on either side of where the heads meet.
Touched(old, new) ==
  {e.key : e \in (ToSet(old.chain) \ ToSet(new.chain))
                   \cup {e \in ToSet(new.chain) : e.digest \notin DigestsOf(old.chain)}}

\* The envelopes it took off the chain.
Undone(old, new) == DigestsOf(new.orphans) \ DigestsOf(old.orphans)

\* ChangeFilter::matches.
Selects(q, old, new) ==
  CASE q.select = "Head"      -> TRUE
    [] q.select = "Namespace" -> q.key \in Touched(old, new)
    [] OTHER                  -> q.digest \in Undone(old, new)

\* The mainloop's trips each method makes, in order.
Trips(q) ==
  CASE q.type = "GetVersion" -> <<>>
    [] q.type = "GetStatus"  ->
         <<"Identity", "ChainRange", "Peers", "PeerConnections", "Published">>
    [] q.type = "GetChainRange" -> <<"ChainRange">>
    [] OTHER -> <<q.type>>
=============================================================================

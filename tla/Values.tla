------------------------------- MODULE Values -------------------------------
(***************************************************************************)
(* The values namespaces hold and what the messages of the ledger do to    *)
(* them: paths, nested writes, amendments and predicates.                  *)
(*                                                                         *)
(* A value is a record with one field that tells its variant.  A map is a  *)
(* function from strings, an array a sequence; everything else is a leaf.  *)
(***************************************************************************)
EXTENDS Integers, Sequences, FiniteSets, SequencesExt

CONSTANTS
  IntMin, IntMax,  \* i64
  MaxU32           \* u32::MAX

ASSUME WidthAssumption ==
  IntMin \in Int /\ IntMax \in Nat /\ IntMin < 0 /\ MaxU32 \in Nat \ {0}

Integer(n) == [int |-> n]
Text(s)    == [string |-> s]
KeyOf(k)   == [key |-> k]
Array(s)   == [array |-> s]
Map(f)     == [map |-> f]
Nothing    == [nothing |-> TRUE]

IsInt(v)   == "int" \in DOMAIN v
IsText(v)  == "string" \in DOMAIN v
IsKey(v)   == "key" \in DOMAIN v
IsArray(v) == "array" \in DOMAIN v
IsMap(v)   == "map" \in DOMAIN v

\* value::kind: what a path can reach into.
Kind(v) == CASE IsMap(v) -> "Map" [] IsArray(v) -> "Array" [] OTHER -> "Leaf"

\* Subkey: one step of a path.
Key(k)   == [key |-> k]
Index(i) == [index |-> i]

\* The segment's shape is the container's.
Fits(v, seg) ==
  \/ IsMap(v) /\ "key" \in DOMAIN seg
  \/ IsArray(v) /\ "index" \in DOMAIN seg

\* A segment that fits addresses an entry.
Has(v, seg) ==
  IF IsMap(v) THEN seg.key \in DOMAIN v.map ELSE seg.index < Len(v.array)

Entry(v, seg) == IF IsMap(v) THEN v.map[seg.key] ELSE v.array[seg.index + 1]

-----------------------------------------------------------------------------
(* Walks.                                                                  *)

\* One step of a walk, from a value or from where it stopped short.
Down(v, seg) == IF Fits(v, seg) /\ Has(v, seg) THEN Entry(v, seg) ELSE Nothing

\* The fold along a path: what is reached after each number of segments.
Trail(v, path) ==
  LET at[i \in 0 .. Len(path)] == IF i = 0 THEN v ELSE Down(at[i - 1], path[i])
  IN at

\* value::walk: the value a path addresses, or Nothing.
Walk(v, path) == Trail(v, path)[Len(path)]

\* What a walk reports: the node it ended at, or the depth it stopped at.
Node(kind)           == [node |-> kind]
Missing(depth, kind) == [missing |-> depth, at |-> kind]
Mismatch(depth)      == [mismatch |-> depth]

\* value::resolve.
Resolve(v, path) ==
  LET at   == Trail(v, path)
      stop == CHOOSE d \in DOMAIN at :
                at[d] # Nothing /\ (d < Len(path) => at[d + 1] = Nothing)
  IN IF stop = Len(path) THEN Node(Kind(at[stop]))
     ELSE IF Fits(at[stop], path[stop + 1]) THEN Missing(stop, Kind(at[stop]))
     ELSE Mismatch(stop)

-----------------------------------------------------------------------------
(* Writes.                                                                 *)

\* One entry of a container replaced, or removed when it becomes Nothing;
\* later array indices shift down.
Replace(v, seg, new) ==
  CASE IsMap(v) /\ new = Nothing ->
         Map([k \in DOMAIN v.map \ {seg.key} |-> v.map[k]])
    [] IsMap(v) /\ new # Nothing ->
         Map([k \in DOMAIN v.map \cup {seg.key} |->
                IF k = seg.key THEN new ELSE v.map[k]])
    [] IsArray(v) /\ new = Nothing -> Array(RemoveAt(v.array, seg.index + 1))
    [] OTHER -> Array([v.array EXCEPT ![seg.index + 1] = new])

\* value::set_at: the containers along the path, rebuilt from the last up.
SetAt(v, path, new) ==
  LET built[i \in 0 .. Len(path)] ==
        IF i = Len(path) THEN new
        ELSE Replace(Trail(v, path)[i], path[i + 1], built[i + 1])
  IN built[0]

\* IncrementDecrement: bounds are sets of at most one integer.
Increment(delta, min, max) == [delta |-> delta, min |-> min, max |-> max]

Floored(n, min) == IF \E m \in min : n < m THEN CHOOSE m \in min : TRUE ELSE n
Capped(n, max)  == IF \E m \in max : n > m THEN CHOOSE m \in max : TRUE ELSE n

\* IncrementDecrement::apply: the new integer, if there is one.
Summed(inc, n) ==
  LET sum == n + inc.delta
  IN IF sum \in IntMin .. IntMax THEN {Capped(Floored(sum, inc.min), inc.max)}
     ELSE IF inc.delta > 0 THEN inc.max ELSE inc.min

\* Predicate::matches: every condition, each at its path inside the entry.
Matches(conds, entry) == \A c \in conds : Walk(entry, c.path) = c.value

\* The variants of AmendOp.
AppendEntry(v)        == [append |-> v]
IncrementDecrement(i) == [increment |-> i]
DeleteMatching(conds) == [delete |-> conds]

\* One amendment of the value it lands on.
Amend(v, op) ==
  CASE "append" \in DOMAIN op -> Array(Append(v.array, op.append))
    [] "increment" \in DOMAIN op ->
         Integer(CHOOSE n \in Summed(op.increment, v.int) : TRUE)
    [] IsMap(v) ->
         Map([k \in {k \in DOMAIN v.map : ~Matches(op.delete, v.map[k])} |-> v.map[k]])
    [] OTHER -> Array(SelectSeq(v.array, LAMBDA e : ~Matches(op.delete, e)))

\* value::amend_at: an append may create its array as a fresh map key.
AmendAt(v, path, op) ==
  LET old == Walk(v, path)
      new == IF old = Nothing THEN Array(<<op.append>>) ELSE Amend(old, op)
  IN IF path = <<>> THEN new ELSE SetAt(v, path, new)

-----------------------------------------------------------------------------
(* The preconditions the walks above are `expect`ed to meet.               *)

SetAtFits(v, path, new) ==
  LET parent == Walk(v, Front(path))
  IN /\ parent # Nothing /\ Fits(parent, Last(path))
     /\ Has(parent, Last(path)) \/ (IsMap(parent) /\ new # Nothing)

AmendAtFits(v, path, op) ==
  LET old == Walk(v, path)
  IN CASE "append" \in DOMAIN op ->
            IF old = Nothing THEN SetAtFits(v, path, Array(<<>>)) ELSE IsArray(old)
       [] "increment" \in DOMAIN op ->
            old # Nothing /\ IsInt(old) /\ Summed(op.increment, old.int) # {}
       [] OTHER -> old # Nothing /\ Kind(old) # "Leaf"
=============================================================================

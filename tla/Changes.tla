------------------------------ MODULE Changes -------------------------------
(***************************************************************************)
(* What a movement of the head touched, and who is told of it: ChangeSet,  *)
(* Movement, ChangeDiffer and the filters subscriptions select with.       *)
(*                                                                         *)
(* A change set maps a namespace to the paths touched in it.  The empty    *)
(* path, which no SubkeyPath is, stands for the namespace as a whole.      *)
(***************************************************************************)
EXTENDS Naturals, Sequences, FiniteSets, FiniteSetsExt

Shorter(a, b) == IF Len(a) < Len(b) THEN Len(a) ELSE Len(b)

\* overlaps: one is a prefix of the other.
Overlaps(a, b) == \A i \in 1 .. Shorter(a, b) : a[i] = b[i]

\* covers: all b addresses lies under a.
Covers(a, b) == Len(a) <= Len(b) /\ Overlaps(a, b)

NoChanges == <<>>

ChangeOf(cs, key) == IF key \in DOMAIN cs THEN cs[key] ELSE {}

\* ChangeSet::touches.
Touches(cs, key, path) == \E touched \in ChangeOf(cs, key) : Overlaps(touched, path)

\* ChangeSet::touch: the shallowest description is kept.
Touch(cs, key, path) ==
  IF \E touched \in ChangeOf(cs, key) : Covers(touched, path) THEN cs
  ELSE [k \in DOMAIN cs \cup {key} |->
          IF k = key
          THEN {t \in ChangeOf(cs, key) : ~Covers(path, t)} \cup {path} ELSE cs[k]]

\* One place after another.
TouchAll(cs, places) ==
  LET after[s \in SUBSET places] ==
        IF s = {} THEN cs
        ELSE LET kp == CHOOSE x \in s : TRUE
             IN Touch(after[s \ {kp}], kp[1], kp[2])
  IN after[places]

PlacesOf(cs) == UNION {{<<key, path>> : path \in cs[key]} : key \in DOMAIN cs}

\* ChangeSet::merge.
MergeChanges(cs, other) == TouchAll(cs, PlacesOf(other))

\* Slip: what is pending keeps the orphans it has.
MergeMovementLosing(m, next) ==
  [changes |-> MergeChanges(m.changes, next.changes), orphaned |-> m.orphaned]

\* Movement::merge.
MergeMovement(m, next) ==
  [changes |-> MergeChanges(m.changes, next.changes),
   orphaned |-> m.orphaned \cup next.orphaned]

\* ChangeSet::record over the envelopes of a branch, each touching one place.
Record(envelopes) == TouchAll(NoChanges, {<<e.key, e.path>> : e \in envelopes})

\* Branch::meet: how far two paths from the root agree.
Meet(old, new) ==
  Max({0} \cup {i \in 1 .. Shorter(old, new) : \A j \in 1 .. i : old[j] = new[j]})

\* Branch::above: what a branch holds past the meeting point.
AboveMeet(branch, meet) == {branch[i] : i \in meet + 1 .. Len(branch)}

\* ChangeDiffer::diff: the branch left behind counts as much as the one taken.
Diff(old, new) ==
  LET undone == AboveMeet(old, Meet(old, new))
      made   == AboveMeet(new, Meet(old, new))
  IN [changes |-> Record(undone \cup made), orphaned |-> {e.id : e \in undone}]

\* ChangeSelector::selects, any of a ChangeFilter's.
Selects(selector, m) ==
  CASE selector.on = "Head"      -> TRUE
    [] selector.on = "Namespace" -> Touches(m.changes, selector.key, <<>>)
    [] selector.on = "Path"      -> Touches(m.changes, selector.key, selector.path)
    [] selector.on = "Orphaned"  -> selector.id \in m.orphaned

Matches(filter, m) == \E selector \in filter : Selects(selector, m)
=============================================================================

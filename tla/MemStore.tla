------------------------------ MODULE MemStore ------------------------------
(***************************************************************************)
(* What a store promises, as the backend in memory keeps it: every version *)
(* a tree of its own under the head that produced it, and beside the       *)
(* versions the envelope log with its index by parent.                     *)
(*                                                                         *)
(* A head is the sequence of envelopes it was reached by, the Init first:  *)
(* digests chain, so two different chains never share one.                 *)
(***************************************************************************)
EXTENDS Rules

CONSTANTS
  Catalogue,  \* the envelopes there are: name -> [msg, sigs]
  MaxClock    \* bound: the readings of the node's clock told apart

VARIABLES
  versions,   \* head -> the namespaces standing there
  envelopes,  \* head -> its entry in the log
  children,   \* head -> the logged envelopes whose prev it is
  clock       \* the node's clock

memVars == <<versions, envelopes, children, clock>>

Parent(h) == Front(h)
Payload(h) == Catalogue[Last(h)].msg

Unchecked == [unchecked |-> TRUE]
LogEntry(status, at) == [status |-> status, stored_at |-> at]

Without(f, x) == [y \in DOMAIN f \ {x} |-> f[y]]
With(f, x, v) == [y \in DOMAIN f \cup {x} |-> IF y = x THEN v ELSE f[y]]

MemInit ==
  /\ versions = <<>> /\ envelopes = <<>> /\ children = <<>>
  /\ clock = 0

\* The version a commit derives from its parent's.
Committed(state, m) ==
  IF m.type = "DeleteNamespace" THEN Without(state, m.key)
  ELSE With(state, m.key, Written(state, m))

\* NamespaceOp's contract: what the caller has validated.
Prevalidated(state, m) ==
  CASE m.type = "SetNamespace" -> TRUE
    [] m.type = "SetNamespaceKey" ->
         m.key \in DOMAIN state /\ SetAtFits(state[m.key], m.path, m.value)
    [] m.type = "AmendNamespaceKey" ->
         m.key \in DOMAIN state /\ AmendAtFits(state[m.key], m.path, m.op)
    [] m.type = "DeleteNamespace" -> m.key \in DOMAIN state
    [] OTHER -> FALSE

MemCommit(parent, name) ==
  /\ parent \in DOMAIN versions
  /\ Prevalidated(versions[parent], Catalogue[name].msg)
  /\ versions' = With(versions, Append(parent, name),
                      Committed(versions[parent], Catalogue[name].msg))
  /\ UNCHANGED <<envelopes, children, clock>>

MemInstall(head, state) ==
  /\ versions' = With(versions, head, state)
  /\ UNCHANGED <<envelopes, children, clock>>

MemRetain(keep) ==
  /\ versions' = [h \in DOMAIN versions \cap keep |-> versions[h]]
  /\ UNCHANGED <<envelopes, children, clock>>

\* The stamp is kept from the record being replaced.
MemPut(h, status) ==
  /\ children' =
       IF Len(h) = 1 THEN children
       ELSE With(children, Parent(h),
                 {h} \cup IF Parent(h) \in DOMAIN children THEN children[Parent(h)] ELSE {})
  /\ envelopes' =
       With(envelopes, h,
            LogEntry(status,
                     IF h \in DOMAIN envelopes THEN envelopes[h].stored_at ELSE clock))
  /\ UNCHANGED <<versions, clock>>

MemRemove(h) ==
  /\ envelopes' = Without(envelopes, h)
  /\ children' =
       IF h \notin DOMAIN envelopes \/ Len(h) = 1 THEN children
       ELSE LET siblings == children[Parent(h)] \ {h}
            IN IF siblings = {} THEN Without(children, Parent(h))
               ELSE With(children, Parent(h), siblings)
  /\ UNCHANGED <<versions, clock>>

MemTick == clock < MaxClock /\ clock' = clock + 1 /\ UNCHANGED <<versions, envelopes, children>>

\* Every version is re-derivable: what the chain of a head folds down to.
RECURSIVE Replay(_)
Replay(h) ==
  IF Len(h) = 1 THEN Payload(h).state ELSE Committed(Replay(Parent(h)), Payload(h))

MemNext ==
  \/ \E h \in DOMAIN versions, name \in DOMAIN Catalogue : MemCommit(h, name)
  \/ \E h \in DOMAIN versions' \ DOMAIN versions : MemInstall(h, Replay(h))
  \/ \E keep \in SUBSET DOMAIN versions : MemRetain(keep)
  \/ \E h \in DOMAIN envelopes' : MemPut(h, envelopes'[h].status)
  \/ \E h \in DOMAIN envelopes : MemRemove(h)
  \/ MemTick

MemSpec == MemInit /\ [][MemNext]_memVars
=============================================================================

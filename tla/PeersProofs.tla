---------------------------- MODULE PeersProofs -----------------------------
(***************************************************************************)
(* Theorems about Peers, for every cluster, sequence of node lists, bound  *)
(* on tasks and connections, and number of faults.                         *)
(***************************************************************************)
EXTENDS Peers, FiniteSetTheorems, FunctionTheorems, TLAPS

-----------------------------------------------------------------------------
(* The inductive invariant, by the part of the state it is about.          *)

Refresh == [in_flight : BOOLEAN, again : BOOLEAN, read : {"asked", "ok", "failed"},
            list : Lists \cup {None}]

LedgerOK ==
  /\ listing \in Lists /\ head \in Nat /\ woken \subseteq {"nodes", "heads"}
  /\ watched \in Nat /\ watched <= head
  /\ knows \subseteq Endpoint /\ at \in [Endpoint -> Nat] /\ faults \in Nat

\* A read that was overtaken by the list is followed by another: it is owed
\* by the wake, or by the request that came while it was in flight.
RefreshOK ==
  /\ refresh \in Refresh
  /\ refresh.read = "ok" =>
       /\ refresh.list \in Lists
       /\ \/ refresh.list = listing
          \/ "nodes" \in woken
          \/ refresh.in_flight /\ refresh.again

\* The table and the tasks: an entry names a task of its node, a task not
\* told to stop has its entry, and only one that was told to stop ends.
TableOK ==
  /\ table \in [Node -> Task \cup {None}]
  /\ \A n \in Node : table[n] # None =>
       task[table[n]] # None /\ task[table[n]].node = n
  /\ \A t \in Task : task[t] # None /\ ~task[t].cancel =>
       /\ table[task[t].node] = t
       /\ task[t].phase # "done"
       /\ ~refresh.in_flight /\ refresh.read = "ok" =>
            task[t].addr = refresh.list[task[t].node]

\* A task that dials knows where, one that holds has a connection of its own
\* and announced no head there that is not below its own.
TaskOK ==
  /\ task \in [Task -> TaskRecord \cup {None}]
  /\ \A t \in Task : task[t] # None =>
       /\ task[t].phase = "dialing" => task[t].target # None
       /\ task[t].phase = "held" =>
            /\ task[t].conn # None /\ conn[task[t].conn] # None
            /\ conn[task[t].conn].task = t
            /\ task[t].told # None /\ task[t].told <= head

ConnOK ==
  /\ conn \in [Conn -> ConnRecord \cup {None}]
  /\ \A c \in Conn : conn[c] # None =>
       /\ conn[c].session # "none" => conn[c].pull # "Idle"
       /\ conn[c].session = "served" => conn[c].served # None

\* The head last told is the last one in the mail, or it was read: then the
\* machine stands at it, or a pull that will see it is running or owed.
Delivered(r, told, stands) ==
  IF r.mail # <<>> THEN r.mail[Len(r.mail)] = told
  ELSE \/ stands >= told
       \/ /\ r.pull # "Idle"
          /\ r.pull = "RunningAgain" \/ r.session # "served" \/ r.served >= told

TellsOK ==
  \A t \in Task : task[t] # None /\ task[t].phase = "held" =>
    LET r == conn[task[t].conn]
    IN r.up /\ ~r.deaf => Delivered(r, task[t].told, at[r.peer])

PeersInv == LedgerOK /\ RefreshOK /\ TableOK /\ TaskOK /\ ConnOK /\ TellsOK

-----------------------------------------------------------------------------
(* Init, and the steps that move neither tasks nor connections.            *)

LEMMA InvInit == Init => PeersInv
<1> SUFFICES ASSUME Init PROVE PeersInv
  OBVIOUS
<1>1. LedgerOK
  BY PeersAssumption DEF Init, LedgerOK
<1>2. RefreshOK
  BY DEF Init, RefreshOK, Refresh, Asked
<1>3. TableOK /\ TaskOK /\ ConnOK /\ TellsOK
  BY DEF Init, TableOK, TaskOK, ConnOK, TellsOK
<1> QED
  BY <1>1, <1>2, <1>3 DEF PeersInv

\* What holds of the table, the tasks and the connections goes on holding
\* while they and the read stand still and the head grows.
LEMMA StandStill ==
  ASSUME PeersInv, LedgerOK', UNCHANGED <<refresh, table, task, conn, at>>, head <= head'
  PROVE  TableOK' /\ TaskOK' /\ ConnOK' /\ TellsOK'
<1>1. TableOK' /\ ConnOK' /\ TellsOK'
  BY DEF PeersInv, TableOK, ConnOK, TellsOK, Delivered
<1>2. ASSUME NEW t \in Task, task[t] # None, task[t].phase = "held", task[t].told <= head
      PROVE  task[t].told <= head'
  <2>1. task[t] \in TaskRecord
    BY <1>2 DEF PeersInv, TaskOK
  <2>2. task[t].told \in Nat
    BY <1>2, <2>1 DEF PeersInv, TaskOK, TaskRecord
  <2> QED
    BY <1>2, <2>2 DEF PeersInv, LedgerOK
<1>3. TaskOK'
  BY <1>2 DEF PeersInv, TaskOK
<1> QED
  BY <1>1, <1>3

LEMMA ListChangesInv ==
  ASSUME PeersInv, NEW l \in Lists, ListChanges(l)
  PROVE  PeersInv'
<1>1. LedgerOK'
  BY DEF PeersInv, LedgerOK, ListChanges, egress
<1>2. RefreshOK'
  BY DEF PeersInv, RefreshOK, ListChanges, egress
<1>3. UNCHANGED <<refresh, table, task, conn, at>> /\ head <= head'
  BY DEF PeersInv, LedgerOK, ListChanges, egress
<1> QED
  BY <1>1, <1>2, <1>3, StandStill DEF PeersInv

LEMMA HeadMovesInv ==
  ASSUME PeersInv, HeadMoves
  PROVE  PeersInv'
<1>1. LedgerOK'
  BY DEF PeersInv, LedgerOK, HeadMoves, egress
<1>2. RefreshOK'
  BY DEF PeersInv, RefreshOK, HeadMoves, egress
<1>3. UNCHANGED <<refresh, table, task, conn, at>> /\ head <= head'
  BY DEF PeersInv, LedgerOK, HeadMoves, egress
<1> QED
  BY <1>1, <1>2, <1>3, StandStill DEF PeersInv

LEMMA LearnInv ==
  ASSUME PeersInv, Learn
  PROVE  PeersInv'
<1>1. LedgerOK'
  BY DEF PeersInv, LedgerOK, Learn, ledger, egress
<1>2. RefreshOK'
  BY DEF PeersInv, RefreshOK, Learn, ledger, egress
<1>3. UNCHANGED <<refresh, table, task, conn, at>> /\ head <= head'
  BY DEF PeersInv, LedgerOK, Learn, ledger, egress
<1> QED
  BY <1>1, <1>2, <1>3, StandStill DEF PeersInv

LEMMA HeadsWakeInv ==
  ASSUME PeersInv, HeadsWake
  PROVE  PeersInv'
<1>1. LedgerOK'
  BY DEF PeersInv, LedgerOK, HeadsWake, ledger
<1>2. RefreshOK'
  BY DEF PeersInv, RefreshOK, HeadsWake, ledger
<1>3. UNCHANGED <<refresh, table, task, conn, at>> /\ head <= head'
  BY DEF PeersInv, LedgerOK, HeadsWake, ledger
<1> QED
  BY <1>1, <1>2, <1>3, StandStill DEF PeersInv

\* A step of the read alone, on its way or asked for.
LEMMA ReadMoves ==
  ASSUME PeersInv, LedgerOK', refresh'.in_flight,
         UNCHANGED <<head, table, task, conn, at>>
  PROVE  TableOK' /\ TaskOK' /\ ConnOK' /\ TellsOK'
BY DEF PeersInv, TableOK, TaskOK, ConnOK, TellsOK, Delivered

LEMMA NodesWakeInv ==
  ASSUME PeersInv, NodesWake
  PROVE  PeersInv'
<1>1. LedgerOK'
  BY DEF PeersInv, LedgerOK, NodesWake, ledger
<1>2. RefreshOK' /\ refresh'.in_flight
  <2>1. CASE refresh.in_flight
    BY <2>1 DEF PeersInv, RefreshOK, Refresh, NodesWake, ledger, Request
  <2>2. CASE ~refresh.in_flight
    BY <2>2 DEF PeersInv, RefreshOK, Refresh, NodesWake, ledger, Request, Asked
  <2> QED
    BY <2>1, <2>2
<1>3. UNCHANGED <<head, table, task, conn, at>>
  BY DEF NodesWake, ledger
<1> QED
  BY <1>1, <1>2, <1>3, ReadMoves DEF PeersInv

LEMMA ReadInv ==
  ASSUME PeersInv, Read
  PROVE  PeersInv'
<1>1. LedgerOK'
  BY DEF PeersInv, LedgerOK, Read, ledger, Fault
<1>2. RefreshOK' /\ refresh'.in_flight
  BY <1>1 DEF PeersInv, RefreshOK, Refresh, Read, ledger, LedgerOK
<1>3. UNCHANGED <<head, table, task, conn, at>>
  BY DEF Read, ledger
<1> QED
  BY <1>1, <1>2, <1>3, ReadMoves DEF PeersInv

-----------------------------------------------------------------------------
(* The table is reconciled and tasks are reaped.                           *)

\* Where there are as many free places as newcomers, each gets one of its own.
LEMMA SlotExists ==
  ASSUME NEW S, NEW T, IsFiniteSet(S), IsFiniteSet(T), Cardinality(S) <= Cardinality(T)
  PROVE  \E f \in [S -> T] : \A m, n \in S : f[m] = f[n] => m = n
<1>1. Cardinality(S) \in Nat /\ Cardinality(T) \in Nat
  BY FS_CardinalityType
<1>2. ExistsBijection(1 .. Cardinality(S), S) /\ ExistsBijection(1 .. Cardinality(T), T)
  BY FS_CardinalityType
<1>3. PICK g : g \in Bijection(1 .. Cardinality(S), S)
  BY <1>2 DEF ExistsBijection
<1>4. PICK h : h \in Bijection(1 .. Cardinality(T), T)
  BY <1>2 DEF ExistsBijection
<1>5. /\ \A i \in 1 .. Cardinality(S) : g[i] \in S
      /\ \A n \in S : \E i \in 1 .. Cardinality(S) : g[i] = n
  <2>1. /\ g \in [1 .. Cardinality(S) -> S]
        /\ \A n \in S : \E i \in 1 .. Cardinality(S) : g[i] = n
    BY <1>3 DEF Bijection, Injection, Surjection
  <2> QED
    BY <2>1
<1>6. /\ \A i \in 1 .. Cardinality(T) : h[i] \in T
      /\ \A i, j \in 1 .. Cardinality(T) : h[i] = h[j] => i = j
  <2>1. /\ h \in [1 .. Cardinality(T) -> T]
        /\ \A i, j \in 1 .. Cardinality(T) : h[i] = h[j] => i = j
    BY <1>4, Fun_BijectionProperties
  <2> QED
    BY <2>1
<1> DEFINE index(n) == CHOOSE i \in 1 .. Cardinality(S) : g[i] = n
           f == [n \in S |-> h[index(n)]]
<1>7. ASSUME NEW n \in S
      PROVE  index(n) \in 1 .. Cardinality(S) /\ g[index(n)] = n
  BY <1>5
<1>8. ASSUME NEW n \in S
      PROVE  index(n) \in 1 .. Cardinality(T)
  <2> HIDE DEF index
  <2> QED
    BY <1>7, <1>1
<1>9. f \in [S -> T]
  BY <1>6, <1>8
<1>10. ASSUME NEW m \in S, NEW n \in S, f[m] = f[n]
       PROVE  m = n
  <2>1. h[index(m)] = h[index(n)]
    BY <1>10
  <2>2. index(m) = index(n)
    BY <1>6, <1>8, <2>1
  <2> QED
    BY <1>7, <2>2
<1> QED
  BY <1>9, <1>10

LEMMA TaskFinite ==
  \A T \in SUBSET Task : IsFiniteSet(T)
<1>1. IsFiniteSet(Task)
  BY FS_Interval, PeersAssumption DEF Task
<1> QED
  BY <1>1, FS_Subset

\* Who is spawned, told to stop, and given an address: places for newcomers
\* are apart, and free; a task the table names is told to stop or kept.
LEMMA Reconciled ==
  ASSUME PeersInv, NEW l \in Lists, Reconcile(l)
  PROVE  \E fresh \in SUBSET Wanted(l) : \E slot \in [fresh -> {t \in Task : task[t] = None}] :
           /\ \A m, n \in fresh : slot[m] = slot[n] => m = n
           /\ \A n \in Wanted(l) : table[n] = None => n \in fresh
           /\ table' = [n \in Node |-> IF n \in fresh THEN slot[n] ELSE table[n]]
           /\ task' = [t \in Task |-> task'[t]]
           /\ \A n \in fresh : task'[slot[n]] = NewTask(n, l[n])
           /\ \A t \in Task : task[t] = None =>
                task'[t] = None \/ \E n \in fresh : slot[n] = t
           /\ \A t \in Task : task[t] # None =>
                \/ task'[t] = [task[t] EXCEPT !.cancel = TRUE]
                \/ /\ task'[t] = Kept(t, l[task[t].node])
                   /\ \E n \in Wanted(l) \ fresh : table[n] = t
                \/ /\ task'[t] = task[t]
                   /\ \A n \in Node : table[n] # t
<1> DEFINE entry(n) == task[table[n]]
           fresh == {n \in Wanted(l) : table[n] = None \/ entry(n).addr.id # l[n].id}
           gone  == {n \in Node : table[n] # None /\ (n \notin Wanted(l) \/ n \in fresh)}
           free  == {t \in Task : task[t] = None}
           slot  == CHOOSE f \in [fresh -> free] :
                      \A m, n \in fresh : f[m] = f[n] => m = n
           who(t) == CHOOSE m \in fresh : slot[m] = t
<1>1. /\ Cardinality(fresh) <= Cardinality(free)
      /\ table' = [n \in Node |-> IF n \in fresh THEN slot[n] ELSE table[n]]
      /\ task' = [t \in Task |->
            CASE \E n \in fresh : slot[n] = t ->
                   NewTask(who(t), l[who(t)])
              [] \E n \in gone : table[n] = t -> [task[t] EXCEPT !.cancel = TRUE]
              [] \E n \in Wanted(l) \ fresh : table[n] = t -> Kept(t, l[task[t].node])
              [] OTHER -> task[t]]
  BY DEF Reconcile
<1>2. IsFiniteSet(fresh)
  <2>1. fresh \in SUBSET Node
    BY DEF Wanted
  <2> HIDE DEF fresh
  <2> QED
    BY <2>1, FS_Subset, PeersAssumption
<1>3. IsFiniteSet(free)
  BY TaskFinite
<1>4. \E f \in [fresh -> free] : \A m, n \in fresh : f[m] = f[n] => m = n
  <2> HIDE DEF fresh, free
  <2> QED
    BY <1>1, <1>2, <1>3, SlotExists
<1>5. slot \in [fresh -> free] /\ \A m, n \in fresh : slot[m] = slot[n] => m = n
  BY <1>4
<1>6. /\ fresh \in SUBSET Wanted(l)
      /\ \A n \in Wanted(l) : table[n] = None => n \in fresh
  OBVIOUS
<1>7. \A n \in Node : table[n] # None => n \in gone \/ n \in Wanted(l) \ fresh
  <2> HIDE DEF fresh
  <2> QED
    OBVIOUS
<1>8. \A n \in gone : n \in Node /\ table[n] # None
  <2> HIDE DEF fresh
  <2> QED
    OBVIOUS
<1>9. \A t \in free : t \in Task /\ task[t] = None
  OBVIOUS
<1>10. \A n \in Node : table[n] # None => table[n] \in Task /\ task[table[n]] # None
  BY DEF PeersInv, TableOK
<1>11. \A n \in Wanted(l) : n \in Node
  BY DEF Wanted
<1>12. None \notin Task
  BY NoneAssumption, PeersAssumption DEF Task
<1> HIDE DEF fresh, slot, gone, free
<1>13. task' = [t \in Task |-> task'[t]]
  BY <1>1
<1>14. ASSUME NEW n \in fresh
       PROVE  task'[slot[n]] = NewTask(n, l[n])
  <2>1. slot[n] \in Task
    BY <1>5, <1>9
  <2>2. who(slot[n]) = n
    BY <1>5
  <2> HIDE DEF who
  <2>3. \E m \in fresh : slot[m] = slot[n]
    OBVIOUS
  <2>4. \A m \in Node : table[m] # slot[n]
    BY <1>5, <1>9, <1>10, <1>12, <2>1
  <2>5. /\ ~\E m \in gone : table[m] = slot[n]
        /\ ~\E m \in Wanted(l) \ fresh : table[m] = slot[n]
    BY <1>8, <1>11, <2>4
  <2>6. task'[slot[n]] = NewTask(who(slot[n]), l[who(slot[n])])
    BY <1>1, <2>1, <2>3, <2>5
  <2> QED
    BY <2>2, <2>6
<1>15. ASSUME NEW t \in Task, task[t] = None, ~\E n \in fresh : slot[n] = t
       PROVE  task'[t] = None
  <2>1. \A n \in Node : table[n] # t
    BY <1>10, <1>12, <1>15
  <2> QED
    BY <1>1, <1>8, <1>11, <1>15, <2>1
<1>16. ASSUME NEW t \in Task, task[t] # None
       PROVE  \/ task'[t] = [task[t] EXCEPT !.cancel = TRUE]
              \/ /\ task'[t] = Kept(t, l[task[t].node])
                 /\ \E n \in Wanted(l) \ fresh : table[n] = t
              \/ /\ task'[t] = task[t]
                 /\ \A n \in Node : table[n] # t
  <2>1. ~\E n \in fresh : slot[n] = t
    BY <1>5, <1>9, <1>16
  <2>2. CASE \E n \in gone : table[n] = t
    BY <1>1, <2>1, <2>2
  <2>3. CASE /\ ~\E n \in gone : table[n] = t
             /\ \E n \in Wanted(l) \ fresh : table[n] = t
    BY <1>1, <2>1, <2>3
  <2>4. CASE /\ ~\E n \in gone : table[n] = t
             /\ ~\E n \in Wanted(l) \ fresh : table[n] = t
    <3>1. task'[t] = task[t]
      BY <1>1, <2>1, <2>4
    <3>2. \A n \in Node : table[n] # t
      BY <1>7, <1>12, <2>4
    <3> QED
      BY <3>1, <3>2
  <2> QED
    BY <2>2, <2>3, <2>4
<1> HIDE <1>1
<1>17. table' = [n \in Node |-> IF n \in fresh THEN slot[n] ELSE table[n]]
  BY <1>1
<1> fresh \in SUBSET Wanted(l) /\ slot \in [fresh -> {t \in Task : task[t] = None}]
  BY <1>5, <1>6 DEF free
<1> WITNESS fresh \in SUBSET Wanted(l)
<1> WITNESS slot \in [fresh -> {t \in Task : task[t] = None}]
<1> QED
  BY <1>5, <1>6, <1>13, <1>14, <1>15, <1>16, <1>17

LEMMA NewTaskType ==
  ASSUME NEW n \in Node, NEW a \in Address
  PROVE  NewTask(n, a) \in TaskRecord /\ NewTask(n, a) # None
<1>1. NewTask(n, a) \in TaskRecord
  BY DEF NewTask, TaskRecord
<1> QED
  BY <1>1, NoneAssumption

\* A list names every peer wanted by an address.
LEMMA WantedType ==
  ASSUME NEW l \in Lists, NEW n \in Wanted(l)
  PROVE  n \in Node /\ l[n] \in Address
BY PeersAssumption DEF Wanted, Address

\* The three things that become of a task in the table, by their fields.
LEMMA ReconciledTask ==
  ASSUME PeersInv, NEW l \in Lists, NEW t \in Task, task[t] # None, NEW r,
         \/ r = [task[t] EXCEPT !.cancel = TRUE]
         \/ r = Kept(t, l[task[t].node]) /\ l[task[t].node] \in Address
         \/ r = task[t]
  PROVE  /\ r \in TaskRecord /\ r # None
         /\ r.node = task[t].node /\ r.phase = task[t].phase /\ r.target = task[t].target
         /\ r.conn = task[t].conn /\ r.told = task[t].told
         /\ task[t].cancel => r.cancel
<1>1. task[t] \in TaskRecord
  BY DEF PeersInv, TaskOK
<1>2. CASE r = [task[t] EXCEPT !.cancel = TRUE]
  BY <1>1, <1>2, NoneAssumption DEF TaskRecord
<1>3. CASE r = Kept(t, l[task[t].node]) /\ l[task[t].node] \in Address
  BY <1>1, <1>3, NoneAssumption DEF TaskRecord, Kept
<1>4. CASE r = task[t]
  BY <1>1, <1>4, NoneAssumption
<1> QED
  BY <1>2, <1>3, <1>4

\* Reconciling the list that was read.
LEMMA ReconcileInv ==
  ASSUME PeersInv, NEW l \in Lists, Reconcile(l),
         refresh' = Landed(refresh), refresh.list = l,
         UNCHANGED <<ledger, watched, conn, knows, at, faults>>
  PROVE  TableOK' /\ TaskOK' /\ TellsOK'
<1>1. PICK fresh \in SUBSET Wanted(l) :
        \E slot \in [fresh -> {t \in Task : task[t] = None}] :
           /\ \A m, n \in fresh : slot[m] = slot[n] => m = n
           /\ \A n \in Wanted(l) : table[n] = None => n \in fresh
           /\ table' = [n \in Node |-> IF n \in fresh THEN slot[n] ELSE table[n]]
           /\ task' = [t \in Task |-> task'[t]]
           /\ \A n \in fresh : task'[slot[n]] = NewTask(n, l[n])
           /\ \A t \in Task : task[t] = None =>
                task'[t] = None \/ \E n \in fresh : slot[n] = t
           /\ \A t \in Task : task[t] # None =>
                \/ task'[t] = [task[t] EXCEPT !.cancel = TRUE]
                \/ /\ task'[t] = Kept(t, l[task[t].node])
                   /\ \E n \in Wanted(l) \ fresh : table[n] = t
                \/ /\ task'[t] = task[t]
                   /\ \A n \in Node : table[n] # t
  BY Reconciled
<1>2. PICK slot \in [fresh -> {t \in Task : task[t] = None}] :
           /\ \A m, n \in fresh : slot[m] = slot[n] => m = n
           /\ \A n \in Wanted(l) : table[n] = None => n \in fresh
           /\ table' = [n \in Node |-> IF n \in fresh THEN slot[n] ELSE table[n]]
           /\ task' = [t \in Task |-> task'[t]]
           /\ \A n \in fresh : task'[slot[n]] = NewTask(n, l[n])
           /\ \A t \in Task : task[t] = None =>
                task'[t] = None \/ \E n \in fresh : slot[n] = t
           /\ \A t \in Task : task[t] # None =>
                \/ task'[t] = [task[t] EXCEPT !.cancel = TRUE]
                \/ /\ task'[t] = Kept(t, l[task[t].node])
                   /\ \E n \in Wanted(l) \ fresh : table[n] = t
                \/ /\ task'[t] = task[t]
                   /\ \A n \in Node : table[n] # t
  BY <1>1
<1>3. \A n \in fresh : slot[n] \in Task /\ task[slot[n]] = None
  OBVIOUS
<1>4. None \notin Task
  BY NoneAssumption, PeersAssumption DEF Task
<1>5. \A n \in Node : table[n] # None =>
        table[n] \in Task /\ task[table[n]] # None /\ task[table[n]].node = n
  BY DEF PeersInv, TableOK
<1>6. \A n \in Wanted(l) : n \in Node /\ l[n] \in Address
  BY WantedType
\* A newcomer.
<1>7. ASSUME NEW n \in fresh
      PROVE  /\ task'[slot[n]] = NewTask(n, l[n])
             /\ task'[slot[n]] \in TaskRecord /\ task'[slot[n]] # None
             /\ task'[slot[n]].phase = "dialing" /\ task'[slot[n]].target = l[n]
  <2>1. n \in Node /\ l[n] \in Address
    BY <1>6
  <2>2. NewTask(n, l[n]).phase = "dialing" /\ NewTask(n, l[n]).target = l[n]
    BY DEF NewTask
  <2> QED
    BY <1>2, <2>1, <2>2, NewTaskType
\* A task that was there.
<1>8. ASSUME NEW t \in Task, task[t] # None
      PROVE  /\ task'[t] \in TaskRecord /\ task'[t] # None
             /\ task'[t].node = task[t].node /\ task'[t].phase = task[t].phase
             /\ task'[t].target = task[t].target
             /\ task'[t].conn = task[t].conn /\ task'[t].told = task[t].told
             /\ task[t].cancel => task'[t].cancel
  <2>1. CASE task'[t] = [task[t] EXCEPT !.cancel = TRUE] \/ task'[t] = task[t]
    BY <1>8, <2>1, ReconciledTask
  <2>2. CASE /\ task'[t] = Kept(t, l[task[t].node])
             /\ \E n \in Wanted(l) \ fresh : table[n] = t
    <3>1. l[task[t].node] \in Address
      BY <1>4, <1>5, <1>6, <2>2
    <3> QED
      BY <1>8, <2>2, <3>1, ReconciledTask
  <2> QED
    BY <1>2, <1>8, <2>1, <2>2
<1>9. \A t \in Task : task'[t] # None => task[t] # None \/ \E n \in fresh : slot[n] = t
  BY <1>2
<1>10. TaskOK'
  <2>1. task' \in [Task -> TaskRecord \cup {None}]
    <3>1. \A t \in Task : task'[t] \in TaskRecord \cup {None}
      BY <1>7, <1>8, <1>9
    <3> QED
      BY <1>2, <3>1
  <2>2. ASSUME NEW n \in fresh
        PROVE  /\ task'[slot[n]].phase = "dialing" => task'[slot[n]].target # None
               /\ task'[slot[n]].phase # "held"
    <3>1. l[n] # None
      BY <1>6, NoneAssumption
    <3> QED
      BY <1>7, <3>1
  <2>3. UNCHANGED <<head, conn>>
    BY DEF ledger
  <2> QED
    BY <1>8, <1>9, <2>1, <2>2, <2>3 DEF PeersInv, TaskOK
<1>11. TellsOK'
  <2>1. \A n \in fresh : task'[slot[n]].phase # "held"
    BY <1>7
  <2> QED
    BY <1>8, <1>9, <2>1 DEF PeersInv, TellsOK, Delivered
<1>12. TableOK'
  <2>1. table' \in [Node -> Task \cup {None}]
    BY <1>2, <1>3 DEF PeersInv, TableOK
  <2>2. ASSUME NEW n \in Node, table'[n] # None
        PROVE  task'[table'[n]] # None /\ task'[table'[n]].node = n
    <3>1. CASE n \in fresh
      <4>1. table'[n] = slot[n]
        BY <1>2, <3>1
      <4>2. NewTask(n, l[n]).node = n
        BY DEF NewTask
      <4> QED
        BY <1>7, <3>1, <4>1, <4>2
    <3>2. CASE n \notin fresh
      <4>1. table'[n] = table[n]
        BY <1>2, <3>2
      <4> QED
        BY <1>5, <1>8, <2>2, <4>1
    <3> QED
      BY <3>1, <3>2
  <2>3. ASSUME NEW t \in Task, task'[t] # None, ~task'[t].cancel
        PROVE  /\ table'[task'[t].node] = t
               /\ task'[t].phase # "done"
               /\ task'[t].addr = l[task'[t].node]
    <3>1. CASE \E n \in fresh : slot[n] = t
      <4>1. PICK n \in fresh : slot[n] = t
        BY <3>1
      <4>2. task'[t] = NewTask(n, l[n])
        BY <1>7, <4>1
      <4>3. task'[t].node = n /\ task'[t].phase = "dialing" /\ task'[t].addr = l[n]
        BY <4>2 DEF NewTask
      <4>4. table'[n] = t
        BY <1>2, <1>6, <4>1
      <4> QED
        BY <4>3, <4>4
    <3>2. CASE task[t] # None
      <4>1. ~task[t].cancel
        BY <1>8, <2>3, <3>2
      <4>2. task[t].node \in Node /\ table[task[t].node] = t /\ task[t].phase # "done"
        BY <3>2, <4>1 DEF PeersInv, TableOK, TaskOK, TaskRecord
      <4>3. task'[t] # [task[t] EXCEPT !.cancel = TRUE]
        <5>1. task[t] \in TaskRecord
          BY <3>2 DEF PeersInv, TaskOK
        <5>2. [task[t] EXCEPT !.cancel = TRUE].cancel = TRUE
          BY <5>1 DEF TaskRecord
        <5> QED
          BY <2>3, <5>2
      <4>4. /\ task'[t] = Kept(t, l[task[t].node])
            /\ \E n \in Wanted(l) \ fresh : table[n] = t
        BY <1>2, <3>2, <4>2, <4>3
      <4>5. task[t].node \notin fresh
        BY <1>4, <1>5, <1>6, <4>4
      <4>6. table'[task[t].node] = t
        BY <1>2, <4>2, <4>5
      <4>7. task'[t].addr = l[task[t].node]
        <5>1. task[t] \in TaskRecord
          BY <3>2 DEF PeersInv, TaskOK
        <5> QED
          BY <4>4, <5>1 DEF Kept, TaskRecord
      <4> QED
        BY <1>8, <3>2, <4>2, <4>6, <4>7
    <3> QED
      BY <1>9, <2>3, <3>1, <3>2
  <2>4. ~refresh'.in_flight /\ refresh'.read = "ok" => refresh'.list = l
    BY DEF Landed, Asked, PeersInv, RefreshOK, Refresh
  <2> QED
    BY <2>1, <2>2, <2>3, <2>4 DEF TableOK
<1> QED
  BY <1>10, <1>11, <1>12

LEMMA DesiredInv ==
  ASSUME PeersInv, Desired
  PROVE  PeersInv'
<1>1. LedgerOK'
  BY DEF PeersInv, LedgerOK, Desired, ledger
<1>2. refresh \in Refresh
  BY DEF PeersInv, RefreshOK
<1>3. RefreshOK'
  <2>1. CASE refresh.again
    BY <1>2, <2>1 DEF Desired, Landed, Asked, RefreshOK, Refresh
  <2>2. CASE ~refresh.again
    <3>1. refresh' = [refresh EXCEPT !.in_flight = FALSE]
      BY <2>2 DEF Desired, Landed
    <3>2. /\ refresh' \in Refresh
          /\ refresh'.read = refresh.read /\ refresh'.list = refresh.list
      BY <1>2, <3>1 DEF Refresh
    <3> QED
      BY <2>2, <3>2 DEF PeersInv, RefreshOK, Desired, ledger
  <2> QED
    BY <2>1, <2>2
<1>4. ConnOK'
  BY DEF PeersInv, ConnOK, Desired
<1>5. CASE refresh.read = "ok" /\ Reconcile(refresh.list)
  <2>1. refresh.list \in Lists
    BY <1>5 DEF PeersInv, RefreshOK
  <2>2. TableOK' /\ TaskOK' /\ TellsOK'
    BY <1>5, <2>1, ReconcileInv DEF Desired
  <2> QED
    BY <1>1, <1>3, <1>4, <2>2 DEF PeersInv
<1>6. CASE refresh.read = "failed" /\ UNCHANGED <<table, task>>
  <2>1. refresh'.read # "ok"
    BY <1>2, <1>6 DEF Desired, Landed, Asked, Refresh
  <2>2. TableOK' /\ TaskOK' /\ TellsOK'
    BY <1>6, <2>1 DEF PeersInv, TableOK, TaskOK, TellsOK, Delivered, Desired, ledger
  <2> QED
    BY <1>1, <1>3, <1>4, <2>2 DEF PeersInv
<1> QED
  BY <1>5, <1>6 DEF Desired

LEMMA ReapInv ==
  ASSUME PeersInv, NEW t \in Task, Reap(t)
  PROVE  PeersInv'
<1>1. LedgerOK' /\ RefreshOK' /\ ConnOK'
  BY DEF PeersInv, LedgerOK, RefreshOK, ConnOK, Reap, ledger
<1>2. task[t] \in TaskRecord /\ task[t].node \in Node /\ task[t].phase = "done"
  BY DEF Reap, PeersInv, TaskOK, TaskRecord
<1>3. /\ task' \in [Task -> TaskRecord \cup {None}] /\ task'[t] = None
      /\ \A u \in Task : u # t => task'[u] = task[u]
  BY DEF Reap, PeersInv, TaskOK
<1>4. TaskOK' /\ TellsOK'
  BY <1>3 DEF Reap, PeersInv, TaskOK, TellsOK, Delivered, ledger
<1>5. /\ table' \in [Node -> Task \cup {None}]
      /\ \A n \in Node : table'[n] = IF table[n] = t /\ n = task[t].node THEN None ELSE table[n]
  BY <1>2 DEF Reap, Reaped, PeersInv, TableOK
<1>6. \A n \in Node : table'[n] # None => table'[n] = table[n] /\ table[n] # t
  <2>1. None \notin Task
    BY NoneAssumption, PeersAssumption DEF Task
  <2> QED
    BY <1>5, <2>1 DEF PeersInv, TableOK
<1>7. \A n \in Node : table'[n] # None =>
        task'[table'[n]] # None /\ task'[table'[n]].node = n
  BY <1>3, <1>5, <1>6 DEF PeersInv, TableOK
<1>8. ASSUME NEW u \in Task, task'[u] # None, ~task'[u].cancel
      PROVE  /\ table'[task'[u].node] = u /\ task'[u].phase # "done"
             /\ ~refresh'.in_flight /\ refresh'.read = "ok" =>
                  task'[u].addr = refresh'.list[task'[u].node]
  <2>1. u # t /\ task'[u] = task[u]
    BY <1>3, <1>8
  <2>2. task[u].node \in Node
    BY <1>8, <2>1 DEF PeersInv, TaskOK, TaskRecord
  <2>3. /\ table[task[u].node] = u /\ task[u].phase # "done"
        /\ ~refresh.in_flight /\ refresh.read = "ok" =>
             task[u].addr = refresh.list[task[u].node]
    BY <1>8, <2>1 DEF PeersInv, TableOK
  <2>4. table'[task[u].node] = u
    BY <1>5, <2>1, <2>2, <2>3
  <2> QED
    BY <2>1, <2>3, <2>4 DEF Reap
<1>9. TableOK'
  BY <1>5, <1>7, <1>8 DEF TableOK
<1> QED
  BY <1>1, <1>4, <1>9 DEF PeersInv

-----------------------------------------------------------------------------
(* A peer task's steps.                                                    *)

\* What TableOK asks of a task that keeps its node, address and token.
LEMMA TableKept ==
  ASSUME PeersInv, NEW t \in Task, task[t] # None, NEW r \in TaskRecord,
         task' = [task EXCEPT ![t] = r], UNCHANGED <<refresh, table>>,
         r.node = task[t].node, r.addr = task[t].addr, r.cancel = task[t].cancel,
         r.phase = "done" => r.cancel
  PROVE  TableOK'
<1>1. /\ task'[t] = r /\ r # None
      /\ \A u \in Task : u # t => task'[u] = task[u]
  BY NoneAssumption DEF PeersInv, TaskOK
<1>2. table' \in [Node -> Task \cup {None}]
  BY DEF PeersInv, TableOK
<1>3. \A n \in Node : table'[n] # None => task'[table'[n]] # None /\ task'[table'[n]].node = n
  BY <1>1 DEF PeersInv, TableOK
<1>4. ASSUME NEW u \in Task, task'[u] # None, ~task'[u].cancel
      PROVE  /\ table'[task'[u].node] = u
             /\ task'[u].phase # "done"
             /\ ~refresh'.in_flight /\ refresh'.read = "ok" =>
                  task'[u].addr = refresh'.list[task'[u].node]
  <2>1. CASE u = t
    BY <1>1, <1>4, <2>1 DEF PeersInv, TableOK
  <2>2. CASE u # t
    BY <1>1, <1>4, <2>2 DEF PeersInv, TableOK
  <2> QED
    BY <2>1, <2>2
<1> QED
  BY <1>2, <1>3, <1>4 DEF TableOK

\* A task with its connection, or a place for one: another task's is another.
LEMMA TaskConnStep ==
  ASSUME PeersInv, NEW t \in Task, task[t] # None,
         NEW c \in Conn, conn[c] = None \/ conn[c].task = t,
         NEW r \in TaskRecord, NEW x \in ConnRecord \cup {None},
         task' = [task EXCEPT ![t] = r], conn' = [conn EXCEPT ![c] = x],
         UNCHANGED <<refresh, table, head, at>>,
         r.node = task[t].node, r.addr = task[t].addr, r.cancel = task[t].cancel,
         r.phase = "done" => r.cancel,
         r.phase = "dialing" => r.target # None,
         x # None => /\ x.session # "none" => x.pull # "Idle"
                     /\ x.session = "served" => x.served # None,
         r.phase = "held" => /\ r.conn = c /\ x # None /\ x.task = t
                             /\ r.told # None /\ r.told <= head
                             /\ x.up /\ ~x.deaf => Delivered(x, r.told, at[x.peer])
  PROVE  TableOK' /\ TaskOK' /\ ConnOK' /\ TellsOK'
<1>1. TableOK'
  BY TableKept
<1>2. /\ task' \in [Task -> TaskRecord \cup {None}] /\ task'[t] = r /\ r # None
      /\ \A u \in Task : u # t => task'[u] = task[u]
  BY NoneAssumption DEF PeersInv, TaskOK
<1>3. /\ conn' \in [Conn -> ConnRecord \cup {None}] /\ conn'[c] = x
      /\ \A d \in Conn : d # c => conn'[d] = conn[d]
  BY DEF PeersInv, ConnOK
<1>4. ASSUME NEW u \in Task, u # t, task[u] # None, task[u].phase = "held"
      PROVE  task[u].conn \in Conn /\ task[u].conn # c
  BY <1>4 DEF PeersInv, TaskOK, TaskRecord
<1>5. TaskOK'
  <2>1. ASSUME NEW u \in Task, task'[u] # None
        PROVE  /\ task'[u].phase = "dialing" => task'[u].target # None
               /\ task'[u].phase = "held" =>
                    /\ task'[u].conn # None /\ conn'[task'[u].conn] # None
                    /\ conn'[task'[u].conn].task = u
                    /\ task'[u].told # None /\ task'[u].told <= head'
    <3>1. CASE u = t
      <4>1. c # None
        BY NoneAssumption, PeersAssumption DEF Conn
      <4> QED
        BY <1>2, <1>3, <3>1, <4>1
    <3>2. CASE u # t
      BY <1>2, <1>3, <1>4, <2>1, <3>2 DEF PeersInv, TaskOK
    <3> QED
      BY <3>1, <3>2
  <2> QED
    BY <1>2, <2>1 DEF TaskOK
<1>6. ConnOK'
  <2>1. ASSUME NEW d \in Conn, conn'[d] # None
        PROVE  /\ conn'[d].session # "none" => conn'[d].pull # "Idle"
               /\ conn'[d].session = "served" => conn'[d].served # None
    BY <1>3, <2>1 DEF PeersInv, ConnOK
  <2> QED
    BY <1>3, <2>1 DEF ConnOK
<1>7. TellsOK'
  <2>1. ASSUME NEW u \in Task, task'[u] # None, task'[u].phase = "held",
               conn'[task'[u].conn].up, ~conn'[task'[u].conn].deaf
        PROVE  Delivered(conn'[task'[u].conn], task'[u].told, at'[conn'[task'[u].conn].peer])
    <3>1. CASE u = t
      BY <1>2, <1>3, <2>1, <3>1
    <3>2. CASE u # t
      BY <1>2, <1>3, <1>4, <2>1, <3>2 DEF PeersInv, TellsOK
    <3> QED
      BY <3>1, <3>2
  <2> QED
    BY <2>1 DEF TellsOK
<1> QED
  BY <1>1, <1>5, <1>6, <1>7

\* A task alone, when it holds nothing after the step.
LEMMA TaskStepAlone ==
  ASSUME PeersInv, NEW t \in Task, task[t] # None, NEW r \in TaskRecord,
         task' = [task EXCEPT ![t] = r],
         UNCHANGED <<refresh, table, conn, head, at>>,
         r.node = task[t].node, r.addr = task[t].addr, r.cancel = task[t].cancel,
         r.phase = "done" => r.cancel,
         r.phase = "dialing" => r.target # None, r.phase # "held"
  PROVE  TableOK' /\ TaskOK' /\ ConnOK' /\ TellsOK'
<1>1. TableOK'
  BY TableKept
<1>2. /\ task' \in [Task -> TaskRecord \cup {None}] /\ task'[t] = r
      /\ \A u \in Task : u # t => task'[u] = task[u]
  BY DEF PeersInv, TaskOK
<1>3. TaskOK'
  BY <1>2 DEF PeersInv, TaskOK
<1>4. ConnOK' /\ TellsOK'
  BY <1>2 DEF PeersInv, ConnOK, TellsOK
<1> QED
  BY <1>1, <1>3, <1>4

\* What no step of a task or of a far side touches.
LEMMA LedgerKept ==
  ASSUME PeersInv, UNCHANGED <<ledger, woken, egress, knows, at>>, faults' \in Nat
  PROVE  LedgerOK' /\ RefreshOK'
BY DEF PeersInv, LedgerOK, RefreshOK, ledger, egress

LEMMA DialledInv ==
  ASSUME PeersInv, NEW t \in Task, t \in Running, Dialled(t)
  PROVE  PeersInv'
<1>1. PICK c \in Conn :
        /\ task[t].phase = "dialing" /\ conn[c] = None
        /\ \/ conn' = [conn EXCEPT ![c] = NewConn(t)] /\ UNCHANGED faults
           \/ /\ Fault("announce")
              /\ conn' = [conn EXCEPT ![c] = [NewConn(t) EXCEPT !.mail = <<>>, !.deaf = TRUE]]
        /\ task' = [task EXCEPT ![t].phase = "held", ![t].target = None,
                                ![t].conn = c, ![t].told = watched]
        /\ UNCHANGED <<ledger, woken, egress, knows, at>>
  BY DEF Dialled
<1>2. task[t] # None /\ task[t] \in TaskRecord /\ task[t].target \in Address
  BY <1>1 DEF Running, PeersInv, TaskOK, TaskRecord
<1>3. watched \in Nat /\ watched # None /\ watched <= head
  BY NoneAssumption DEF PeersInv, LedgerOK
<1> DEFINE r == [task[t] EXCEPT !.phase = "held", !.target = None, !.conn = c, !.told = watched]
<1>4. /\ r \in TaskRecord /\ r.phase = "held" /\ r.conn = c /\ r.told = watched
      /\ r.node = task[t].node /\ r.addr = task[t].addr /\ r.cancel = task[t].cancel
  BY <1>2, <1>3 DEF TaskRecord
<1>5. task' = [task EXCEPT ![t] = r]
  BY <1>1, <1>2 DEF PeersInv, TaskOK
<1>6. /\ NewConn(t) \in ConnRecord
      /\ [NewConn(t) EXCEPT !.mail = <<>>, !.deaf = TRUE] \in ConnRecord
  <2>1. task[t].target.id \in Endpoint /\ <<watched>> \in Seq(Nat) /\ <<>> \in Seq(Nat)
    BY <1>2, <1>3 DEF Address
  <2> QED
    BY <2>1 DEF NewConn, ConnRecord
<1>7. PICK x \in ConnRecord :
        /\ conn' = [conn EXCEPT ![c] = x] /\ faults' \in Nat
        /\ x.task = t /\ x.session = "none"
        /\ x.up /\ ~x.deaf => x.mail = <<watched>>
  <2>1. CASE conn' = [conn EXCEPT ![c] = NewConn(t)] /\ UNCHANGED faults
    <3>1. NewConn(t).task = t /\ NewConn(t).session = "none" /\ NewConn(t).mail = <<watched>>
      BY DEF NewConn
    <3> QED
      BY <1>6, <2>1, <3>1 DEF PeersInv, LedgerOK
  <2>2. CASE /\ Fault("announce")
             /\ conn' = [conn EXCEPT ![c] = [NewConn(t) EXCEPT !.mail = <<>>, !.deaf = TRUE]]
    <3> DEFINE y == [NewConn(t) EXCEPT !.mail = <<>>, !.deaf = TRUE]
    <3>1. y.task = t /\ y.session = "none" /\ y.deaf
      BY DEF NewConn
    <3>2. faults' \in Nat
      BY <2>2 DEF Fault, PeersInv, LedgerOK
    <3> QED
      BY <1>6, <2>2, <3>1, <3>2
  <2> QED
    BY <1>1, <2>1, <2>2
<1>8. x.up /\ ~x.deaf => Delivered(x, watched, at[x.peer])
  <2>1. <<watched>> # <<>> /\ Len(<<watched>>) = 1 /\ <<watched>>[1] = watched
    OBVIOUS
  <2>2. x.up /\ ~x.deaf => x.mail # <<>> /\ x.mail[Len(x.mail)] = watched
    BY <1>7, <2>1
  <2> QED
    BY <2>2 DEF Delivered
<1>9. LedgerOK' /\ RefreshOK'
  BY <1>1, <1>7, LedgerKept
<1> HIDE DEF r
<1>10. TableOK' /\ TaskOK' /\ ConnOK' /\ TellsOK'
  <2>1. x # None
    BY NoneAssumption
  <2>2. UNCHANGED <<refresh, table, head, at>>
    BY <1>1 DEF ledger, egress
  <2> QED
    BY <1>1, <1>2, <1>3, <1>4, <1>5, <1>7, <1>8, <2>1, <2>2, TaskConnStep
<1> QED
  BY <1>9, <1>10 DEF PeersInv

\* What Apart changes of a task.
LEMMA ApartType ==
  ASSUME PeersInv, NEW t \in Task, task[t] # None, NEW phase \in {"backoff", "done"}
  PROVE  /\ Apart(t, phase) \in TaskRecord /\ Apart(t, phase).phase = phase
         /\ Apart(t, phase).node = task[t].node /\ Apart(t, phase).addr = task[t].addr
         /\ Apart(t, phase).cancel = task[t].cancel
<1>1. task[t] \in TaskRecord
  BY DEF PeersInv, TaskOK
<1> QED
  BY <1>1 DEF Apart, TaskRecord

\* What this end lets go of.
LEMMA ReleaseType ==
  ASSUME PeersInv, NEW c \in Conn, conn[c] # None, Release(c)
  PROVE  \E x \in ConnRecord \cup {None} :
           /\ conn' = [conn EXCEPT ![c] = x]
           /\ x # None => x.session = "none"
<1>1. conn[c] \in ConnRecord /\ conn \in [Conn -> ConnRecord \cup {None}]
  BY DEF PeersInv, ConnOK
<1> DEFINE x == IF conn[c].ingress = "ended" THEN None
                ELSE [Down(conn[c]) EXCEPT !.task = None]
<1>2. conn' = [conn EXCEPT ![c] = x]
  BY DEF Release
<1>3. /\ [Down(conn[c]) EXCEPT !.task = None] \in ConnRecord
      /\ [Down(conn[c]) EXCEPT !.task = None].session = "none"
  <2>1. <<>> \in Seq(Nat)
    OBVIOUS
  <2> QED
    BY <1>1, <2>1 DEF Down, ConnRecord
<1>4. x \in ConnRecord \cup {None} /\ (x # None => x.session = "none")
  BY <1>3
<1> HIDE DEF x
<1> QED
  BY <1>2, <1>4

LEMMA NotDialledInv ==
  ASSUME PeersInv, NEW t \in Task, t \in Running, NotDialled(t)
  PROVE  PeersInv'
<1>1. task[t] # None /\ task' = [task EXCEPT ![t] = Apart(t, "backoff")]
  BY DEF Running, NotDialled
<1>2. LedgerOK' /\ RefreshOK'
  BY LedgerKept DEF NotDialled, PeersInv, LedgerOK
<1>3. UNCHANGED <<refresh, table, conn, head, at>>
  BY DEF NotDialled, ledger, egress
<1>4. TableOK' /\ TaskOK' /\ ConnOK' /\ TellsOK'
  BY <1>1, <1>3, ApartType, TaskStepAlone
<1> QED
  BY <1>2, <1>4 DEF PeersInv

LEMMA RedialInv ==
  ASSUME PeersInv, NEW t \in Task, t \in Running, Redial(t)
  PROVE  PeersInv'
<1>1. task[t] # None /\ task[t] \in TaskRecord
  BY DEF Running, PeersInv, TaskOK
<1> DEFINE r == [task[t] EXCEPT !.phase = "dialing", !.target = task[t].addr]
<1>2. /\ r \in TaskRecord /\ r.phase = "dialing" /\ r.target \in Address
      /\ r.node = task[t].node /\ r.addr = task[t].addr /\ r.cancel = task[t].cancel
  BY <1>1 DEF TaskRecord
<1>3. task' = [task EXCEPT ![t] = r]
  BY <1>1 DEF Redial, PeersInv, TaskOK
<1>4. LedgerOK' /\ RefreshOK'
  BY LedgerKept DEF Redial, PeersInv, LedgerOK
<1>5. UNCHANGED <<refresh, table, conn, head, at>>
  BY DEF Redial, ledger, egress
<1> HIDE DEF r
<1>6. TableOK' /\ TaskOK' /\ ConnOK' /\ TellsOK'
  BY <1>1, <1>2, <1>3, <1>5, NoneAssumption, TaskStepAlone
<1> QED
  BY <1>4, <1>6 DEF PeersInv

\* A held connection is the task's own.
LEMMA HeldConn ==
  ASSUME PeersInv, NEW t \in Task, task[t] # None, task[t].phase = "held"
  PROVE  /\ task[t] \in TaskRecord /\ task[t].conn \in Conn
         /\ conn[task[t].conn] # None /\ conn[task[t].conn] \in ConnRecord
         /\ conn[task[t].conn].task = t
         /\ task[t].told \in Nat /\ task[t].told <= head
BY DEF PeersInv, TaskOK, ConnOK, TaskRecord

LEMMA AnnounceInv ==
  ASSUME PeersInv, NEW t \in Task, t \in Running, Announce(t)
  PROVE  PeersInv'
<1> DEFINE c == task[t].conn
           r == [task[t] EXCEPT !.told = watched]
<1>1. task[t] # None /\ task[t].phase = "held"
  BY DEF Running, Announce
<1>2. /\ task[t] \in TaskRecord /\ c \in Conn /\ conn[c] # None /\ conn[c] \in ConnRecord
      /\ conn[c].task = t
  BY <1>1, HeldConn
<1>3. watched \in Nat /\ watched # None /\ watched <= head
  BY NoneAssumption DEF PeersInv, LedgerOK
<1>4. /\ r \in TaskRecord /\ r.phase = "held" /\ r.conn = c /\ r.told = watched
      /\ r.node = task[t].node /\ r.addr = task[t].addr /\ r.cancel = task[t].cancel
  BY <1>1, <1>2, <1>3 DEF TaskRecord
<1>5. task' = [task EXCEPT ![t] = r]
  BY <1>2 DEF Announce, PeersInv, TaskOK
<1>6. PICK x \in ConnRecord :
        /\ conn' = [conn EXCEPT ![c] = x] /\ faults' \in Nat
        /\ x.task = t /\ x.session = conn[c].session /\ x.pull = conn[c].pull
        /\ x.served = conn[c].served
        /\ ~x.deaf => x.mail = Append(conn[c].mail, watched)
  <2>1. conn \in [Conn -> ConnRecord \cup {None}] /\ faults \in Nat
    BY DEF PeersInv, ConnOK, LedgerOK
  <2>2. CASE /\ conn' = [conn EXCEPT ![c].mail = Append(@, watched), ![c].deaf = FALSE]
             /\ UNCHANGED faults
    <3> DEFINE y == [conn[c] EXCEPT !.mail = Append(conn[c].mail, watched), !.deaf = FALSE]
    <3>1. conn' = [conn EXCEPT ![c] = y]
      BY <1>2, <2>1, <2>2
    <3>2. conn[c].mail \in Seq(Nat)
      BY <1>2 DEF ConnRecord
    <3>3. Append(conn[c].mail, watched) \in Seq(Nat)
      BY <1>3, <3>2
    <3>4. /\ y \in ConnRecord /\ y.task = conn[c].task /\ y.session = conn[c].session
          /\ y.pull = conn[c].pull /\ y.served = conn[c].served
          /\ y.mail = Append(conn[c].mail, watched)
      BY <1>2, <3>3 DEF ConnRecord
    <3> HIDE DEF y
    <3> QED
      BY <1>2, <2>1, <2>2, <3>1, <3>4
  <2>3. CASE Fault("announce") /\ conn' = [conn EXCEPT ![c].deaf = TRUE]
    <3> DEFINE y == [conn[c] EXCEPT !.deaf = TRUE]
    <3>1. conn' = [conn EXCEPT ![c] = y]
      BY <1>2, <2>1, <2>3
    <3>2. /\ y \in ConnRecord /\ y.task = conn[c].task /\ y.session = conn[c].session
          /\ y.pull = conn[c].pull /\ y.served = conn[c].served /\ y.deaf
      BY <1>2 DEF ConnRecord
    <3>3. faults' \in Nat
      BY <2>1, <2>3 DEF Fault
    <3> HIDE DEF y
    <3> QED
      BY <1>2, <3>1, <3>2, <3>3
  <2> QED
    BY <2>2, <2>3 DEF Announce
<1>7. ~x.deaf => Delivered(x, watched, at[x.peer])
  <2>1. conn[c].mail \in Seq(Nat)
    BY <1>2 DEF ConnRecord
  <2> DEFINE m == Append(conn[c].mail, watched)
  <2>2. m # <<>> /\ m[Len(m)] = watched
    <3>1. Len(m) = Len(conn[c].mail) + 1 /\ Len(conn[c].mail) \in Nat
      BY <1>3, <2>1
    <3>2. m[Len(conn[c].mail) + 1] = watched
      BY <1>3, <2>1
    <3>3. Len(m) # 0
      BY <3>1
    <3> QED
      BY <3>1, <3>2, <3>3
  <2>3. ~x.deaf => x.mail = m
    BY <1>6
  <2> HIDE DEF m
  <2> QED
    BY <2>2, <2>3 DEF Delivered
<1>8. LedgerOK' /\ RefreshOK'
  BY <1>6, LedgerKept DEF Announce
<1>9. UNCHANGED <<refresh, table, head, at>>
  BY DEF Announce, ledger, egress
<1>10. /\ conn[c].session # "none" => conn[c].pull # "Idle"
       /\ conn[c].session = "served" => conn[c].served # None
  BY <1>2 DEF PeersInv, ConnOK
<1>11. x # None
  BY NoneAssumption
<1> HIDE DEF r, c
<1>12. TableOK' /\ TaskOK' /\ ConnOK' /\ TellsOK'
  BY <1>1, <1>2, <1>3, <1>4, <1>5, <1>6, <1>7, <1>9, <1>10, <1>11, TaskConnStep
<1> QED
  BY <1>8, <1>12 DEF PeersInv

\* A held connection is let go of.
LEMMA LetGo ==
  ASSUME PeersInv, NEW t \in Task, task[t] # None, task[t].phase = "held",
         NEW phase \in {"backoff", "done"}, phase = "done" => task[t].cancel,
         task' = [task EXCEPT ![t] = Apart(t, phase)], Release(task[t].conn),
         UNCHANGED <<refresh, table, head, at>>
  PROVE  TableOK' /\ TaskOK' /\ ConnOK' /\ TellsOK'
<1>1. /\ task[t].conn \in Conn /\ conn[task[t].conn] # None
      /\ conn[task[t].conn].task = t
  BY HeldConn
<1>2. PICK x \in ConnRecord \cup {None} :
        /\ conn' = [conn EXCEPT ![task[t].conn] = x]
        /\ x # None => x.session = "none"
  BY <1>1, ReleaseType
<1> QED
  BY <1>1, <1>2, ApartType, TaskConnStep

LEMMA LostInv ==
  ASSUME PeersInv, NEW t \in Task, t \in Running, Lost(t)
  PROVE  PeersInv'
<1>1. LedgerOK' /\ RefreshOK'
  BY LedgerKept DEF Lost, PeersInv, LedgerOK
<1>2. TableOK' /\ TaskOK' /\ ConnOK' /\ TellsOK'
  BY LetGo DEF Lost, Running, ledger, egress
<1> QED
  BY <1>1, <1>2 DEF PeersInv

LEMMA CancelledInv ==
  ASSUME PeersInv, NEW t \in Task, Cancelled(t)
  PROVE  PeersInv'
<1>1. LedgerOK' /\ RefreshOK'
  BY LedgerKept DEF Cancelled, PeersInv, LedgerOK
<1>2. UNCHANGED <<refresh, table, head, at>>
  BY DEF Cancelled, ledger, egress
<1>3. task[t] # None /\ task[t].cancel /\ task' = [task EXCEPT ![t] = Apart(t, "done")]
  BY DEF Cancelled, Running
<1>4. CASE task[t].phase = "held"
  <2>1. Release(task[t].conn)
    BY <1>4 DEF Cancelled
  <2>2. TableOK' /\ TaskOK' /\ ConnOK' /\ TellsOK'
    BY <1>2, <1>3, <1>4, <2>1, LetGo
  <2> QED
    BY <1>1, <2>2 DEF PeersInv
<1>5. CASE task[t].phase # "held"
  <2>1. UNCHANGED conn
    BY <1>5 DEF Cancelled
  <2>2. TableOK' /\ TaskOK' /\ ConnOK' /\ TellsOK'
    BY <1>2, <1>3, <2>1, ApartType, TaskStepAlone
  <2> QED
    BY <1>1, <2>2 DEF PeersInv
<1> QED
  BY <1>4, <1>5

-----------------------------------------------------------------------------
(* The far side's steps.                                                   *)

\* A machine never stands lower than it stood.
LEMMA DeliveredGrows ==
  ASSUME NEW r, NEW told \in Nat, NEW before \in Nat, NEW after \in Nat,
         before <= after, Delivered(r, told, before)
  PROVE  Delivered(r, told, after)
<1>1. before >= told => after >= told
  OBVIOUS
<1> QED
  BY <1>1 DEF Delivered

\* A step of one connection: a task holding it goes on being told.
LEMMA FarConnStep ==
  ASSUME PeersInv, NEW c \in Conn, conn[c] # None, NEW x \in ConnRecord \cup {None},
         conn' = [conn EXCEPT ![c] = x],
         UNCHANGED <<refresh, table, task, head>>,
         at' \in [Endpoint -> Nat], \A e \in Endpoint : at[e] <= at'[e],
         x = None => conn[c].task = None,
         x # None => /\ x.task = conn[c].task
                     /\ x.session # "none" => x.pull # "Idle"
                     /\ x.session = "served" => x.served # None,
         \A told \in Nat : x # None /\ x.up /\ ~x.deaf /\ told <= head =>
           /\ conn[c].up /\ ~conn[c].deaf
           /\ Delivered(conn[c], told, at[conn[c].peer]) => Delivered(x, told, at'[x.peer])
  PROVE  TableOK' /\ TaskOK' /\ ConnOK' /\ TellsOK'
<1>1. /\ conn' \in [Conn -> ConnRecord \cup {None}] /\ conn'[c] = x
      /\ \A d \in Conn : d # c => conn'[d] = conn[d]
  BY DEF PeersInv, ConnOK
<1>2. TableOK'
  BY DEF PeersInv, TableOK
<1>3. ConnOK'
  <2>1. ASSUME NEW d \in Conn, conn'[d] # None
        PROVE  /\ conn'[d].session # "none" => conn'[d].pull # "Idle"
               /\ conn'[d].session = "served" => conn'[d].served # None
    BY <1>1, <2>1 DEF PeersInv, ConnOK
  <2> QED
    BY <1>1, <2>1 DEF ConnOK
<1>4. None \notin Task
  BY NoneAssumption, PeersAssumption DEF Task
<1>5. ASSUME NEW t \in Task, task[t] # None, task[t].phase = "held"
      PROVE  /\ task[t].conn \in Conn /\ task[t].told \in Nat /\ task[t].told <= head
             /\ conn'[task[t].conn] # None /\ conn'[task[t].conn].task = t
             /\ task[t].conn = c => x # None
  BY <1>1, <1>4, <1>5, HeldConn
<1>6. TaskOK'
  BY <1>5 DEF PeersInv, TaskOK
<1>7. ASSUME NEW t \in Task, task[t] # None, task[t].phase = "held",
             conn'[task[t].conn].up, ~conn'[task[t].conn].deaf
      PROVE  Delivered(conn'[task[t].conn], task[t].told, at'[conn'[task[t].conn].peer])
  <2>1. /\ task[t].conn \in Conn /\ task[t].told \in Nat /\ task[t].told <= head
        /\ conn[task[t].conn] # None /\ conn[task[t].conn].peer \in Endpoint
    BY <1>7, HeldConn DEF ConnRecord
  <2>2. CASE task[t].conn = c
    <3>1. x # None /\ x.up /\ ~x.deaf
      BY <1>1, <1>5, <1>7, <2>2
    <3>2. conn[c].up /\ ~conn[c].deaf
      BY <2>1, <3>1
    <3>3. Delivered(conn[c], task[t].told, at[conn[c].peer])
      BY <1>7, <2>2, <3>2 DEF PeersInv, TellsOK
    <3> QED
      BY <1>1, <2>1, <2>2, <3>1, <3>3
  <2>3. CASE task[t].conn # c
    <3>1. conn'[task[t].conn] = conn[task[t].conn]
      BY <1>1, <2>1, <2>3
    <3>2. Delivered(conn[task[t].conn], task[t].told, at[conn[task[t].conn].peer])
      BY <1>7, <3>1 DEF PeersInv, TellsOK
    <3>3. /\ at[conn[task[t].conn].peer] \in Nat /\ at'[conn[task[t].conn].peer] \in Nat
          /\ at[conn[task[t].conn].peer] <= at'[conn[task[t].conn].peer]
      BY <2>1 DEF PeersInv, LedgerOK
    <3> QED
      BY <2>1, <3>1, <3>2, <3>3, DeliveredGrows
  <2> QED
    BY <2>2, <2>3
<1>8. TellsOK'
  BY <1>7 DEF TellsOK
<1> QED
  BY <1>2, <1>3, <1>6, <1>8

\* A connection that went down.
LEMMA DownType ==
  ASSUME NEW r \in ConnRecord
  PROVE  /\ Down(r) \in ConnRecord /\ Down(r).task = r.task
         /\ Down(r).session = "none" /\ ~Down(r).up
<1>1. <<>> \in Seq(Nat)
  OBVIOUS
<1> QED
  BY <1>1 DEF Down, ConnRecord

LEMMA ConnType ==
  ASSUME PeersInv, NEW c \in Conn, conn[c] # None
  PROVE  /\ conn[c] \in ConnRecord
         /\ conn[c].session # "none" => conn[c].pull # "Idle"
         /\ conn[c].session = "served" => conn[c].served # None
BY DEF PeersInv, ConnOK

\* A step of one connection that leaves the machines where they stand.
LEMMA FarStepKeepsAt ==
  ASSUME PeersInv, NEW c \in Conn, conn[c] # None, NEW x \in ConnRecord \cup {None},
         conn' = [conn EXCEPT ![c] = x],
         UNCHANGED <<ledger, woken, egress, task, knows, at>>, faults' \in Nat,
         x = None => conn[c].task = None,
         x # None => /\ x.task = conn[c].task
                     /\ x.session # "none" => x.pull # "Idle"
                     /\ x.session = "served" => x.served # None,
         \A told \in Nat : x # None /\ x.up /\ ~x.deaf /\ told <= head =>
           /\ conn[c].up /\ ~conn[c].deaf
           /\ Delivered(conn[c], told, at[conn[c].peer]) => Delivered(x, told, at[x.peer])
  PROVE  PeersInv'
<1>1. LedgerOK' /\ RefreshOK'
  BY LedgerKept
<1>2. at \in [Endpoint -> Nat]
  BY DEF PeersInv, LedgerOK
<1>3. UNCHANGED <<refresh, table, task, head, at>>
  BY DEF ledger, egress
<1>4. at' \in [Endpoint -> Nat] /\ \A e \in Endpoint : at[e] <= at'[e]
  BY <1>2, <1>3
<1>5. TableOK' /\ TaskOK' /\ ConnOK' /\ TellsOK'
  BY <1>3, <1>4, FarConnStep
<1> QED
  BY <1>1, <1>5 DEF PeersInv

LEMMA DropsInv ==
  ASSUME PeersInv, NEW c \in Conn, conn[c] # None, Drops(c)
  PROVE  PeersInv'
<1>1. conn[c] \in ConnRecord /\ Down(conn[c]) \in ConnRecord /\ Down(conn[c]) # None
  BY ConnType, DownType, NoneAssumption
<1>2. conn' = [conn EXCEPT ![c] = Down(conn[c])]
  BY DEF Drops
<1>3. faults' \in Nat
  BY DEF Drops, Fault, PeersInv, LedgerOK
<1>4. UNCHANGED <<ledger, woken, egress, task, knows, at>>
  BY DEF Drops
<1> QED
  BY <1>1, <1>2, <1>3, <1>4, DownType, FarStepKeepsAt

LEMMA MemberInv ==
  ASSUME PeersInv, NEW c \in Conn, conn[c] # None, Member(c)
  PROVE  PeersInv'
<1> DEFINE y == [conn[c] EXCEPT !.ingress = "serving"]
           z == [Down(conn[c]) EXCEPT !.ingress = "ended"]
<1>1. /\ conn[c] \in ConnRecord
      /\ conn[c].session # "none" => conn[c].pull # "Idle"
      /\ conn[c].session = "served" => conn[c].served # None
  BY ConnType
<1>2. /\ y \in ConnRecord /\ y # None /\ y.task = conn[c].task
      /\ y.session = conn[c].session /\ y.pull = conn[c].pull /\ y.served = conn[c].served
      /\ y.up = conn[c].up /\ y.deaf = conn[c].deaf /\ y.mail = conn[c].mail
      /\ y.peer = conn[c].peer
  BY <1>1, NoneAssumption DEF ConnRecord
<1>3. z \in ConnRecord /\ z # None /\ z.task = conn[c].task /\ z.session = "none" /\ ~z.up
  <2>1. /\ Down(conn[c]) \in ConnRecord /\ Down(conn[c]).task = conn[c].task
        /\ Down(conn[c]).session = "none" /\ ~Down(conn[c]).up
    BY <1>1, DownType
  <2> QED
    BY <2>1, NoneAssumption DEF ConnRecord
<1>4. UNCHANGED <<ledger, woken, egress, task, knows, at>> /\ faults' \in Nat
  BY DEF Member, PeersInv, LedgerOK
<1>5. CASE conn[c].peer \in knows
  <2>1. conn' = [conn EXCEPT ![c] = y]
    BY <1>5 DEF Member
  <2>2. \A told \in Nat : Delivered(conn[c], told, at[conn[c].peer])
          => Delivered(y, told, at[y.peer])
    BY <1>2 DEF Delivered
  <2> HIDE DEF y
  <2> QED
    BY <1>1, <1>2, <1>4, <2>1, <2>2, FarStepKeepsAt
<1>6. CASE conn[c].peer \notin knows
  <2>1. conn' = [conn EXCEPT ![c] = z]
    BY <1>6 DEF Member
  <2> HIDE DEF z
  <2> QED
    BY <1>3, <1>4, <2>1, FarStepKeepsAt
<1> QED
  BY <1>5, <1>6

LEMMA IngressEndsInv ==
  ASSUME PeersInv, NEW c \in Conn, conn[c] # None, IngressEnds(c)
  PROVE  PeersInv'
<1> DEFINE y == [conn[c] EXCEPT !.ingress = "ended"]
<1>1. /\ conn[c] \in ConnRecord
      /\ conn[c].session # "none" => conn[c].pull # "Idle"
      /\ conn[c].session = "served" => conn[c].served # None
  BY ConnType
<1>2. /\ y \in ConnRecord /\ y # None /\ y.task = conn[c].task
      /\ y.session = conn[c].session /\ y.pull = conn[c].pull /\ y.served = conn[c].served
      /\ ~y.up
  BY <1>1, NoneAssumption DEF ConnRecord, IngressEnds
<1>3. UNCHANGED <<ledger, woken, egress, task, knows, at>> /\ faults' \in Nat
  BY DEF IngressEnds, PeersInv, LedgerOK
<1>4. CASE conn[c].task = None
  <2>1. conn' = [conn EXCEPT ![c] = None]
    BY <1>4 DEF IngressEnds
  <2> QED
    BY <1>3, <1>4, <2>1, FarStepKeepsAt
<1>5. CASE conn[c].task # None
  <2>1. conn' = [conn EXCEPT ![c] = y]
    BY <1>5 DEF IngressEnds
  <2> HIDE DEF y
  <2> QED
    BY <1>1, <1>2, <1>3, <2>1, FarStepKeepsAt
<1> QED
  BY <1>4, <1>5

LEMMA PullPanicsInv ==
  ASSUME PeersInv, NEW c \in Conn, conn[c] # None, PullPanics(c)
  PROVE  PeersInv'
<1> DEFINE y == [conn[c] EXCEPT !.session = "none", !.served = None]
<1>1. /\ conn[c] \in ConnRecord /\ conn[c].pull # "Idle"
  BY ConnType DEF PullPanics
<1>2. /\ y \in ConnRecord /\ y # None /\ y.task = conn[c].task
      /\ y.session = "none" /\ y.pull = conn[c].pull
      /\ y.up = conn[c].up /\ y.deaf = conn[c].deaf /\ y.mail = conn[c].mail
      /\ y.peer = conn[c].peer
  BY <1>1, NoneAssumption DEF ConnRecord
<1>3. UNCHANGED <<ledger, woken, egress, task, knows, at>> /\ faults' \in Nat
  BY DEF PullPanics, Fault, PeersInv, LedgerOK
<1>4. conn' = [conn EXCEPT ![c] = y]
  BY <1>1 DEF PullPanics, PeersInv, ConnOK
<1>5. \A told \in Nat : Delivered(conn[c], told, at[conn[c].peer])
          => Delivered(y, told, at[y.peer])
  BY <1>1, <1>2 DEF Delivered
<1> HIDE DEF y
<1> QED
  BY <1>1, <1>2, <1>3, <1>4, <1>5, FarStepKeepsAt

LEMMA ServesInv ==
  ASSUME PeersInv, NEW c \in Conn, conn[c] # None, Serves(c)
  PROVE  PeersInv'
<1> DEFINE y == [conn[c] EXCEPT !.session = "served", !.served = head]
<1>1. conn[c] \in ConnRecord /\ conn[c].pull # "Idle"
  BY ConnType DEF Serves
<1>2. head \in Nat /\ head # None
  BY NoneAssumption DEF PeersInv, LedgerOK
<1>3. /\ y \in ConnRecord /\ y # None /\ y.task = conn[c].task
      /\ y.session = "served" /\ y.served = head /\ y.pull = conn[c].pull
      /\ y.up = conn[c].up /\ y.deaf = conn[c].deaf /\ y.mail = conn[c].mail
      /\ y.peer = conn[c].peer
  BY <1>1, <1>2, NoneAssumption DEF ConnRecord
<1>4. UNCHANGED <<ledger, woken, egress, task, knows, at>> /\ faults' \in Nat
  BY DEF Serves, PeersInv, LedgerOK
<1>5. conn' = [conn EXCEPT ![c] = y]
  BY <1>1 DEF Serves, PeersInv, ConnOK
<1>6. \A told \in Nat : told <= head /\ Delivered(conn[c], told, at[conn[c].peer])
          => Delivered(y, told, at[y.peer])
  BY <1>1, <1>2, <1>3 DEF Delivered
<1> HIDE DEF y
<1> QED
  BY <1>1, <1>2, <1>3, <1>4, <1>5, <1>6, FarStepKeepsAt

\* Taking the announce at the front of the mail leaves the last one last.
LEMMA MailRead ==
  ASSUME NEW m \in Seq(Nat), m # <<>>
  PROVE  /\ Tail(m) \in Seq(Nat)
         /\ Tail(m) = <<>> => m[Len(m)] = m[1]
         /\ Tail(m) # <<>> => Tail(m)[Len(Tail(m))] = m[Len(m)]
<1>1. Len(m) \in Nat /\ Len(m) # 0
  OBVIOUS
<1>2. Tail(m) \in Seq(Nat) /\ Len(Tail(m)) = Len(m) - 1
  BY <1>1
<1>3. Tail(m) = <<>> => Len(m) = 1
  <2>1. Len(<<>>) = 0
    OBVIOUS
  <2> QED
    BY <1>1, <1>2, <2>1
<1>4. Tail(m) # <<>> => Len(Tail(m)) \in 1 .. Len(m) - 1
  BY <1>1, <1>2
<1>5. \A i \in 1 .. Len(m) - 1 : Tail(m)[i] = m[i + 1]
  BY <1>1
<1>6. ASSUME Tail(m) # <<>>
      PROVE  Tail(m)[Len(Tail(m))] = m[Len(m)]
  <2>1. Tail(m)[Len(m) - 1] = m[(Len(m) - 1) + 1]
    BY <1>2, <1>4, <1>5, <1>6
  <2>2. (Len(m) - 1) + 1 = Len(m)
    BY <1>1
  <2> QED
    BY <1>2, <2>1, <2>2
<1> QED
  BY <1>2, <1>3, <1>6

LEMMA OnAnnounceInv ==
  ASSUME PeersInv, NEW c \in Conn, conn[c] # None, OnAnnounce(c)
  PROVE  PeersInv'
<1> DEFINE r == [conn[c] EXCEPT !.mail = Tail(conn[c].mail)]
           y == IF conn[c].mail[1] = at[conn[c].peer] THEN r ELSE Pull(r)
<1>1. /\ conn[c] \in ConnRecord /\ conn[c].mail \in Seq(Nat) /\ conn[c].mail # <<>>
      /\ conn[c].peer \in Endpoint /\ at[conn[c].peer] \in Nat
      /\ conn[c].session # "none" => conn[c].pull # "Idle"
      /\ conn[c].session = "served" => conn[c].served # None
  BY ConnType DEF OnAnnounce, ConnRecord, PeersInv, LedgerOK
<1>2. /\ Tail(conn[c].mail) \in Seq(Nat)
      /\ Tail(conn[c].mail) = <<>> => conn[c].mail[Len(conn[c].mail)] = conn[c].mail[1]
      /\ Tail(conn[c].mail) # <<>> =>
           Tail(conn[c].mail)[Len(Tail(conn[c].mail))] = conn[c].mail[Len(conn[c].mail)]
  BY <1>1, MailRead
<1>3. /\ r \in ConnRecord /\ r.mail = Tail(conn[c].mail) /\ r.task = conn[c].task
      /\ r.session = conn[c].session /\ r.pull = conn[c].pull /\ r.served = conn[c].served
      /\ r.up = conn[c].up /\ r.deaf = conn[c].deaf /\ r.peer = conn[c].peer
  BY <1>1, <1>2 DEF ConnRecord
<1>4. /\ Pull(r) \in ConnRecord /\ Pull(r).mail = r.mail /\ Pull(r).task = r.task
      /\ Pull(r).up = r.up /\ Pull(r).deaf = r.deaf /\ Pull(r).peer = r.peer
      /\ \/ Pull(r).pull = "Running" /\ Pull(r).session = "opened"
         \/ /\ Pull(r).pull = "RunningAgain" /\ Pull(r).session = r.session
            /\ Pull(r).served = r.served
  <2> HIDE DEF r
  <2>1. CASE r.pull = "Idle"
    BY <1>3, <2>1 DEF Pull, ConnRecord
  <2>2. CASE r.pull # "Idle"
    BY <1>3, <2>2 DEF Pull, ConnRecord
  <2> QED
    BY <2>1, <2>2
<1>5. conn' = [conn EXCEPT ![c] = y]
  BY DEF OnAnnounce
<1>6. UNCHANGED <<ledger, woken, egress, task, knows, at>> /\ faults' \in Nat
  BY DEF OnAnnounce, PeersInv, LedgerOK
<1>7. /\ y \in ConnRecord /\ y # None /\ y.task = conn[c].task
      /\ y.session # "none" => y.pull # "Idle"
      /\ y.session = "served" => y.served # None
      /\ y.up = conn[c].up /\ y.deaf = conn[c].deaf /\ y.peer = conn[c].peer
  <2> HIDE DEF r
  <2> QED
    BY <1>1, <1>3, <1>4, NoneAssumption
<1>8. ASSUME NEW told \in Nat, Delivered(conn[c], told, at[conn[c].peer])
      PROVE  Delivered(y, told, at[y.peer])
  <2>1. conn[c].mail[Len(conn[c].mail)] = told
    BY <1>1, <1>8 DEF Delivered
  <2>2. CASE Tail(conn[c].mail) # <<>>
    <3>1. y.mail = Tail(conn[c].mail)
      <4> HIDE DEF r
      <4> QED
        BY <1>3, <1>4
    <3> HIDE DEF y
    <3> QED
      BY <1>2, <2>1, <2>2, <3>1 DEF Delivered
  <2>3. CASE Tail(conn[c].mail) = <<>>
    <3>1. conn[c].mail[1] = told /\ y.mail = <<>>
      <4> HIDE DEF r
      <4> QED
        BY <1>2, <1>3, <1>4, <2>1, <2>3
    <3>2. CASE told = at[conn[c].peer]
      <4>1. at[y.peer] >= told
        BY <1>1, <1>7, <3>2
      <4> HIDE DEF y
      <4> QED
        BY <3>1, <4>1 DEF Delivered
    <3>3. CASE told # at[conn[c].peer]
      <4>1. y = Pull(r)
        BY <3>1, <3>3
      <4> HIDE DEF y, r
      <4> QED
        BY <1>4, <3>1, <4>1 DEF Delivered
    <3> QED
      BY <3>2, <3>3
  <2> QED
    BY <2>2, <2>3
<1>9. conn[c].up
  BY DEF OnAnnounce
<1> HIDE DEF y
<1> QED
  BY <1>1, <1>5, <1>6, <1>7, <1>8, <1>9, FarStepKeepsAt

LEMMA PulledInv ==
  ASSUME PeersInv, NEW c \in Conn, conn[c] # None, Pulled(c)
  PROVE  PeersInv'
<1> DEFINE p == conn[c].peer
           y == Settled(conn[c])
<1>1. /\ conn[c] \in ConnRecord /\ p \in Endpoint /\ conn[c].served \in Nat
      /\ conn[c].session = "served" /\ conn[c].pull # "Idle" /\ conn[c].up
      /\ at \in [Endpoint -> Nat]
  BY ConnType DEF Pulled, ConnRecord, PeersInv, LedgerOK
<1>2. /\ at' = [at EXCEPT ![p] = IF conn[c].served > @ THEN conn[c].served ELSE @]
      /\ conn' = [conn EXCEPT ![c] = y]
      /\ UNCHANGED <<ledger, woken, egress, task, knows, faults>>
  BY DEF Pulled
<1>3. /\ at' \in [Endpoint -> Nat] /\ \A e \in Endpoint : at[e] <= at'[e]
      /\ at'[p] >= conn[c].served
  BY <1>1, <1>2
<1>4. /\ y \in ConnRecord /\ y # None /\ y.task = conn[c].task /\ y.mail = conn[c].mail
      /\ y.up = conn[c].up /\ y.deaf = conn[c].deaf /\ y.peer = p
      /\ \/ y.pull = "Running" /\ y.session = "opened"
         \/ y.pull = "Idle" /\ y.session = "none" /\ conn[c].pull # "RunningAgain"
  <2>1. CASE conn[c].pull = "RunningAgain"
    BY <1>1, <2>1, NoneAssumption DEF Settled, ConnRecord
  <2>2. CASE conn[c].pull # "RunningAgain"
    <3>1. y = [conn[c] EXCEPT !.served = None, !.pull = "Idle", !.session = "none"]
      BY <2>2 DEF Settled
    <3> HIDE DEF y
    <3> QED
      BY <1>1, <2>2, <3>1, NoneAssumption DEF ConnRecord
  <2> QED
    BY <2>1, <2>2
<1>5. ASSUME NEW told \in Nat, Delivered(conn[c], told, at[p])
      PROVE  Delivered(y, told, at'[y.peer])
  <2>1. CASE conn[c].mail # <<>>
    <3> HIDE DEF y
    <3> QED
      BY <1>4, <1>5, <2>1 DEF Delivered
  <2>2. CASE conn[c].mail = <<>>
    <3>1. \/ at[p] >= told
          \/ conn[c].pull = "RunningAgain" \/ conn[c].served >= told
      BY <1>1, <1>5, <2>2 DEF Delivered
    <3>2. CASE conn[c].pull = "RunningAgain"
      <4> HIDE DEF y
      <4> QED
        BY <1>4, <2>2, <3>2 DEF Delivered
    <3>3. CASE at[p] >= told \/ conn[c].served >= told
      <4>1. at'[p] >= told
        <5>1. at[p] \in Nat /\ at'[p] \in Nat /\ at[p] <= at'[p]
          BY <1>1, <1>3
        <5> QED
          BY <1>1, <1>3, <3>3, <5>1
      <4> HIDE DEF y
      <4> QED
        BY <1>4, <2>2, <4>1 DEF Delivered
    <3> QED
      BY <3>1, <3>2, <3>3
  <2> QED
    BY <2>1, <2>2
<1>6. LedgerOK' /\ RefreshOK'
  BY <1>2, <1>3 DEF PeersInv, LedgerOK, RefreshOK, ledger, egress
<1>7. UNCHANGED <<refresh, table, task, head>>
  BY <1>2 DEF ledger, egress
<1> HIDE DEF y
<1>8. TableOK' /\ TaskOK' /\ ConnOK' /\ TellsOK'
  BY <1>1, <1>2, <1>3, <1>4, <1>5, <1>7, FarConnStep
<1> QED
  BY <1>6, <1>8 DEF PeersInv

-----------------------------------------------------------------------------
(* The theorems.                                                           *)

LEMMA InvNext ==
  ASSUME PeersInv, [Next]_vars
  PROVE  PeersInv'
<1>1. CASE Environment
  <2>1. ASSUME NEW l \in Lists, ListChanges(l) PROVE PeersInv'
    BY <2>1, ListChangesInv
  <2>2. ASSUME NEW c \in Conn, conn[c] # None, Drops(c) \/ PullPanics(c) PROVE PeersInv'
    BY <2>2, DropsInv, PullPanicsInv
  <2> QED
    BY <1>1, <2>1, <2>2, HeadMovesInv DEF Environment
<1>2. CASE Actor
  BY <1>2, NodesWakeInv, HeadsWakeInv, ReadInv, DesiredInv, ReapInv DEF Actor
<1>3. CASE Learn
  BY <1>3, LearnInv
<1>4. ASSUME NEW t \in Task, TaskStep(t) PROVE PeersInv'
  BY <1>4, DialledInv, NotDialledInv, RedialInv, AnnounceInv, LostInv, CancelledInv DEF TaskStep
<1>5. ASSUME NEW c \in Conn, FarStep(c) PROVE PeersInv'
  BY <1>5, MemberInv, OnAnnounceInv, ServesInv, PulledInv, IngressEndsInv DEF FarStep
<1>6. CASE UNCHANGED vars
  <2>1. /\ UNCHANGED <<ledger, woken, egress, knows, at>> /\ faults' \in Nat
        /\ UNCHANGED <<refresh, table, task, conn, at>> /\ head <= head'
    BY <1>6 DEF vars, ledger, egress, PeersInv, LedgerOK
  <2> QED
    BY <2>1, LedgerKept, StandStill DEF PeersInv
<1> QED
  BY <1>1, <1>2, <1>3, <1>4, <1>5, <1>6 DEF Next

\* The links' state is always as the inductive invariant says.
THEOREM Invariance == Spec => []PeersInv
<1>1. PeersInv /\ [Next]_vars => PeersInv'
  BY InvNext
<1> QED
  BY InvInit, <1>1, PTL DEF Spec

\* Wherever wakes and reads interleave, none is lost: with no read on its way
\* and no wake pending, the last good read saw the node list as it is.
THEOREM ReadsAreCurrent == Spec => []ReadIsCurrent
<1>1. PeersInv => ReadIsCurrent
  BY DEF PeersInv, RefreshOK, ReadIsCurrent
<1> QED
  BY <1>1, Invariance, PTL

\* However lists, cancellations and exits interleave, a node has at most one
\* task that was not told to stop, the table's, dialling where the list says.
THEOREM OneTaskPerNode == Spec => []OneTask
<1>1. PeersInv => OneTask
  BY DEF PeersInv, TableOK, OneTask, Live, Running
<1> QED
  BY <1>1, Invariance, PTL

\* A machine with nothing to read and no pull running or owed stands at least
\* at the head it was last told, whatever else is announced or pulled.
THEOREM AnnouncesAreHeld == Spec => []AnnouncedIsHeld
<1>1. PeersInv => AnnouncedIsHeld
  <2> SUFFICES ASSUME PeersInv, NEW t \in Running, task[t].phase = "held",
                      conn[task[t].conn].up, conn[task[t].conn].mail = <<>>,
                      conn[task[t].conn].pull = "Idle", ~conn[task[t].conn].deaf
               PROVE  at[conn[task[t].conn].peer] >= task[t].told
    BY DEF AnnouncedIsHeld
  <2>1. Delivered(conn[task[t].conn], task[t].told, at[conn[task[t].conn].peer])
    BY DEF PeersInv, TellsOK, Running
  <2> QED
    BY <2>1 DEF Delivered
<1> QED
  BY <1>1, Invariance, PTL
=============================================================================

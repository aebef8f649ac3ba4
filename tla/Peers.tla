------------------------------- MODULE Peers --------------------------------
(***************************************************************************)
(* One node keeping connections to the others: its peer-egress actor, the  *)
(* task it keeps per peer, and the ingress that takes each connection.     *)
(*                                                                         *)
(* The actor follows the ledger's node list: a wake asks for a read on a   *)
(* task of its own, the answer is reconciled against the table.  A peer    *)
(* task dials, holds, waits and dials again.  Over a connection it         *)
(* announces the head; the far side pulls.  What a pull exchanges is       *)
(* Sync's business: here one is served a head and ends with it.            *)
(***************************************************************************)
EXTENDS Naturals, Sequences, FiniteSets

CONSTANTS
  Self, Node,    \* this node's id, and every id of the cluster
  Endpoint,      \* the machines: iroh endpoint ids
  Own,           \* this node's own
  Via,           \* transport addresses
  Home,          \* where each machine can be reached
  Start,         \* the node list at first: node -> [id, via] or None
  Lists,         \* the node lists the ledger may move to
  Relist,        \* may a delisted node be listed again before it was dropped?
  Faults,        \* the kinds of fault that happen
  Limit,         \* with_connection_limit of every ingress
  MaxHead, MaxFaults,   \* bounds on the environment
  MaxTasks, MaxConns,   \* bounds on what is alive at once
  None

ASSUME PeersAssumption ==
  /\ Self \in Node /\ Own \in Endpoint /\ Home \in [Endpoint -> Via]
  /\ IsFiniteSet(Node)
  /\ Start \in Lists /\ Lists \subseteq [Node -> [id : Endpoint, via : Via] \cup {None}]
  /\ Relist \in BOOLEAN
  /\ Faults \subseteq {"drop", "announce", "pull", "read"}
  /\ {Limit, MaxTasks, MaxConns} \subseteq Nat \ {0}
  /\ {MaxHead, MaxFaults} \subseteq Nat

VARIABLES
  listing,  \* cluster-nodes in this node's ledger
  head,     \* its head
  woken,    \* which of the actor's subscriptions are pending
  refresh,  \* Refresh: in_flight, again, and the read on its way
  table,    \* peer_table: the task of each node
  watched,  \* the head watch the peer tasks share
  task,     \* peer_conn_tasks
  conn,     \* connections, until both ends are done with them
  knows,    \* the machines whose own ledger lists this one
  at,       \* the head each machine stands at
  faults

egress == <<refresh, table, watched>>
ledger == <<listing, head>>
vars   == <<ledger, woken, egress, task, conn, knows, at, faults>>

Task == 1 .. MaxTasks
Conn == 1 .. MaxConns

\* What an address, a task and a connection are.
Address == [id : Endpoint, via : Via]
TaskRecord ==
  [node : Node, addr : Address, target : Address \cup {None},
   phase : {"dialing", "held", "backoff", "done"}, cancel : BOOLEAN,
   told : Nat \cup {None}, conn : Conn \cup {None}]
ConnRecord ==
  [task : Task \cup {None}, peer : Endpoint, up : BOOLEAN, mail : Seq(Nat),
   ingress : {"check", "serving", "ended"}, pull : {"Idle", "Running", "RunningAgain"},
   session : {"none", "opened", "served"}, served : Nat \cup {None}, deaf : BOOLEAN]

\* None is none of the values it stands in for.
ASSUME NoneAssumption ==
  None \notin Nat /\ None \notin Address /\ None \notin TaskRecord /\ None \notin ConnRecord

Running == {t \in Task : task[t] # None /\ task[t].phase \in {"dialing", "held", "backoff"}}
Live    == {t \in Running : ~task[t].cancel}

\* How the latest read stands, and the list it was answered with.
Asked == [in_flight |-> TRUE, again |-> FALSE, read |-> "asked", list |-> None]

Fault(kind) == kind \in Faults /\ faults < MaxFaults /\ faults' = faults + 1

-----------------------------------------------------------------------------
(* The ledger and the other machines.                                      *)

\* The node list moves; the namespace subscription is woken, and the head's.
ListChanges(l) ==
  /\ head < MaxHead /\ l # listing
  /\ Relist \/ \A n \in Node : listing[n] = None /\ l[n] # None => table[n] = None
  /\ listing' = l
  /\ head' = head + 1
  /\ woken' = {"nodes", "heads"}
  /\ UNCHANGED <<egress, task, conn, knows, at, faults>>

HeadMoves ==
  /\ head < MaxHead
  /\ head' = head + 1
  /\ woken' = woken \cup {"heads"}
  /\ UNCHANGED <<listing, egress, task, conn, knows, at, faults>>

\* The other machines learn of this node, from elsewhere in the cluster.
Learn ==
  /\ knows # Endpoint /\ knows' = Endpoint
  /\ UNCHANGED <<ledger, woken, egress, task, conn, at, faults>>

-----------------------------------------------------------------------------
(* The egress actor.                                                       *)

\* Refresh::request.
Request(r) == IF r.in_flight THEN [r EXCEPT !.again = TRUE] ELSE Asked

\* Slip: the wakes that came meanwhile are forgotten.
LandedForgets(r) == [r EXCEPT !.in_flight = FALSE, !.again = FALSE]

\* Refresh::landed.
Landed(r) == IF r.again THEN Asked ELSE [r EXCEPT !.in_flight = FALSE]

NodesWake ==
  /\ "nodes" \in woken /\ woken' = woken \ {"nodes"}
  /\ refresh' = Request(refresh)
  /\ UNCHANGED <<ledger, table, watched, task, conn, knows, at, faults>>

HeadsWake ==
  /\ "heads" \in woken /\ woken' = woken \ {"heads"}
  /\ watched' = head
  /\ UNCHANGED <<ledger, refresh, table, task, conn, knows, at, faults>>

\* The refresh task's read is answered by the mainloop.
Read ==
  /\ refresh.in_flight /\ refresh.read = "asked"
  /\ \/ refresh' = [refresh EXCEPT !.read = "ok", !.list = listing] /\ UNCHANGED faults
     \/ Fault("read") /\ refresh' = [refresh EXCEPT !.read = "failed"]
  /\ UNCHANGED <<ledger, woken, table, watched, task, conn, knows, at>>

\* The peers a list asks for: never this node, under any id.
Wanted(l) == {n \in Node \ {Self} : l[n] # None /\ l[n].id # Own}

\* spawn_peer.  A task: where it should dial and where it is dialling; the
\* connection it holds and the head it last announced there.
NewTask(n, addr) ==
  [node |-> n, addr |-> addr, target |-> addr, phase |-> "dialing",
   cancel |-> FALSE, told |-> None, conn |-> None]

\* A task between two dials.
Apart(t, phase) ==
  [task[t] EXCEPT !.phase = phase, !.target = None, !.conn = None, !.told = None]

\* Slip: a known peer keeps the address it was spawned with.
KeptStays(t, addr) == task[t]

\* A peer whose endpoint is the same: its addresses are replaced, its
\* connection and its token are not.
Kept(t, addr) == [task[t] EXCEPT !.addr = addr]

Reconcile(l) ==
  LET entry(n) == task[table[n]]
      fresh    == {n \in Wanted(l) : table[n] = None \/ entry(n).addr.id # l[n].id}
      gone     == {n \in Node : table[n] # None /\ (n \notin Wanted(l) \/ n \in fresh)}
      slot     == CHOOSE f \in [fresh -> {t \in Task : task[t] = None}] :
                    \A m, n \in fresh : f[m] = f[n] => m = n
  IN /\ Cardinality(fresh) <= Cardinality({t \in Task : task[t] = None})
     /\ task' = [t \in Task |->
          CASE \E n \in fresh : slot[n] = t ->
                 LET n == CHOOSE m \in fresh : slot[m] = t IN NewTask(n, l[n])
            [] \E n \in gone : table[n] = t -> [task[t] EXCEPT !.cancel = TRUE]
            [] \E n \in Wanted(l) \ fresh : table[n] = t ->
                 Kept(t, l[task[t].node])
            [] OTHER -> task[t]]
     /\ table' = [n \in Node |-> IF n \in fresh THEN slot[n] ELSE table[n]]

\* EgressMsg::Desired.  A read that failed leaves the table as it is.
Desired ==
  /\ refresh.in_flight
  /\ \/ refresh.read = "ok" /\ Reconcile(refresh.list)
     \/ refresh.read = "failed" /\ UNCHANGED <<table, task>>
  /\ refresh' = Landed(refresh)
  /\ UNCHANGED <<ledger, woken, watched, conn, knows, at, faults>>

\* Slip: the entry goes whoever's exit it was.
ReapedAny(t) == [table EXCEPT ![task[t].node] = None]

\* join_next_with_id: an entry that was replaced is another task's.
Reaped(t) == [table EXCEPT ![task[t].node] = IF @ = t THEN None ELSE @]

Reap(t) ==
  /\ task[t] # None /\ task[t].phase = "done"
  /\ table' = Reaped(t)
  /\ task' = [task EXCEPT ![t] = None]
  /\ UNCHANGED <<ledger, woken, refresh, watched, conn, knows, at, faults>>

-----------------------------------------------------------------------------
(* A peer task: maintain and hold.                                         *)

\* Slip: nothing is announced on connect, only the moves after it.
NewConnQuiet(t) ==
  [task |-> t, peer |-> task[t].target.id, up |-> TRUE, mail |-> <<>>,
   ingress |-> "check", pull |-> "Idle", session |-> "none", served |-> None,
   deaf |-> FALSE]

\* A connection: the task at this end and the machine at the other; whether
\* it stands; the announces on their way; the far side's serve_sync (ingress)
\* with its Link, and the head its pull was served.
NewConn(t) ==
  [task |-> t, peer |-> task[t].target.id, up |-> TRUE, mail |-> <<watched>>,
   ingress |-> "check", pull |-> "Idle", session |-> "none", served |-> None,
   deaf |-> FALSE]

\* Nothing on a connection outlives it but the two ends.
Down(r) ==
  [r EXCEPT !.up = FALSE, !.mail = <<>>, !.pull = "Idle", !.session = "none",
            !.served = None, !.deaf = FALSE]

\* What an ingress counts against its limit.
Served(e) == {c \in Conn : conn[c] # None /\ conn[c].peer = e /\ conn[c].ingress # "ended"}

Reachable(addr) == Home[addr.id] = addr.via /\ Cardinality(Served(addr.id)) < Limit

\* endpoint.connect succeeds, the far side's accept loop takes the connection
\* and this side announces where it stands, or fails to.
Dialled(t) ==
  \E c \in Conn :
    /\ task[t].phase = "dialing" /\ Reachable(task[t].target)
    /\ conn[c] = None /\ \A d \in 1 .. c - 1 : conn[d] # None
    /\ \/ conn' = [conn EXCEPT ![c] = NewConn(t)] /\ UNCHANGED faults
       \/ /\ Fault("announce")
          /\ conn' = [conn EXCEPT ![c] = [NewConn(t) EXCEPT !.mail = <<>>, !.deaf = TRUE]]
    /\ task' = [task EXCEPT ![t].phase = "held", ![t].target = None,
                            ![t].conn = c, ![t].told = watched]
    /\ UNCHANGED <<ledger, woken, egress, knows, at>>

\* The dial fails: nobody is there, or the limit is reached.
NotDialled(t) ==
  /\ task[t].phase = "dialing"
  /\ ~Reachable(task[t].target)
  /\ task' = [task EXCEPT ![t] = Apart(t, "backoff")]
  /\ UNCHANGED <<ledger, woken, egress, conn, knows, at, faults>>

\* The wait is over, or a new address cut it short.
Redial(t) ==
  /\ task[t].phase = "backoff"
  /\ task' = [task EXCEPT ![t].phase = "dialing", ![t].target = task[t].addr]
  /\ UNCHANGED <<ledger, woken, egress, conn, knows, at, faults>>

\* The head moved under a held connection.  An announce that fails is logged.
Announce(t) ==
  LET c == task[t].conn IN
  /\ task[t].phase = "held" /\ task[t].told # watched /\ conn[c].up
  /\ \/ /\ conn' = [conn EXCEPT ![c].mail = Append(@, watched), ![c].deaf = FALSE]
        /\ UNCHANGED faults
     \/ Fault("announce") /\ conn' = [conn EXCEPT ![c].deaf = TRUE]
  /\ task' = [task EXCEPT ![t].told = watched]
  /\ UNCHANGED <<ledger, woken, egress, knows, at>>

\* This end lets go of the connection, and with it of its sessions.
Release(c) ==
  conn' = [conn EXCEPT ![c] = IF @.ingress = "ended" THEN None
                              ELSE [Down(@) EXCEPT !.task = None]]

\* conn.closed: hold returns Continue.
Lost(t) ==
  /\ task[t].phase = "held" /\ ~conn[task[t].conn].up
  /\ task' = [task EXCEPT ![t] = Apart(t, "backoff")]
  /\ Release(task[t].conn)
  /\ UNCHANGED <<ledger, woken, egress, knows, at, faults>>

\* cancel.cancelled in any of the selects; a held connection is closed with
\* CloseReason::Removed.
Cancelled(t) ==
  /\ t \in Running /\ task[t].cancel
  /\ task' = [task EXCEPT ![t] = Apart(t, "done")]
  /\ IF task[t].phase = "held" THEN Release(task[t].conn) ELSE UNCHANGED conn
  /\ UNCHANGED <<ledger, woken, egress, knows, at, faults>>

-----------------------------------------------------------------------------
(* The far side: PeerIngress::serve_connection and its Link.               *)

\* A session or an announce gone wrong, on either side, and the network.
Drops(c) ==
  /\ conn[c].up /\ Fault("drop")
  /\ conn' = [conn EXCEPT ![c] = Down(@)]
  /\ UNCHANGED <<ledger, woken, egress, task, knows, at>>

\* member: read once.  A peer the machine's own ledger does not list is
\* closed on.
Member(c) ==
  /\ conn[c].ingress = "check" /\ conn[c].up
  /\ conn' = [conn EXCEPT ![c] =
       IF conn[c].peer \in knows THEN [@ EXCEPT !.ingress = "serving"]
       ELSE [Down(@) EXCEPT !.ingress = "ended"]]
  /\ UNCHANGED <<ledger, woken, egress, task, knows, at, faults>>

\* Slip: an announce that lands mid-pull is taken to be covered by it.
PullOnce(r) ==
  IF r.pull = "Idle" THEN [r EXCEPT !.pull = "Running", !.session = "opened"] ELSE r

\* Link::pull.
Pull(r) ==
  IF r.pull = "Idle" THEN [r EXCEPT !.pull = "Running", !.session = "opened"]
  ELSE [r EXCEPT !.pull = "RunningAgain"]

\* Link::on_announce.
OnAnnounce(c) ==
  LET r == [conn[c] EXCEPT !.mail = Tail(@)] IN
  /\ conn[c].ingress = "serving" /\ conn[c].up /\ conn[c].mail # <<>>
  /\ conn' = [conn EXCEPT ![c] =
       IF conn[c].mail[1] = at[conn[c].peer] THEN r ELSE Pull(r)]
  /\ UNCHANGED <<ledger, woken, egress, task, knows, at, faults>>

\* This side's mainloop answers the pull with its path.
Serves(c) ==
  /\ conn[c].up /\ conn[c].session = "opened"
  /\ conn' = [conn EXCEPT ![c].session = "served", ![c].served = head]
  /\ UNCHANGED <<ledger, woken, egress, task, knows, at, faults>>

\* Link::settle of a pull that ended well: the one owed is opened.
Settled(r) ==
  [r EXCEPT !.served = None,
            !.pull = IF r.pull = "RunningAgain" THEN "Running" ELSE "Idle",
            !.session = IF r.pull = "RunningAgain" THEN "opened" ELSE "none"]

Pulled(c) ==
  /\ conn[c].up /\ conn[c].session = "served"
  /\ at' = [at EXCEPT ![conn[c].peer] = IF conn[c].served > @ THEN conn[c].served ELSE @]
  /\ conn' = [conn EXCEPT ![c] = Settled(conn[c])]
  /\ UNCHANGED <<ledger, woken, egress, task, knows, faults>>

\* next_session gives None for a session that panicked: nothing is settled.
PullPanics(c) ==
  /\ conn[c].up /\ conn[c].session # "none" /\ Fault("pull")
  /\ conn' = [conn EXCEPT ![c].session = "none", ![c].served = None]
  /\ UNCHANGED <<ledger, woken, egress, task, knows, at>>

\* The far side sees the connection gone and frees its place.
IngressEnds(c) ==
  /\ conn[c].ingress # "ended" /\ ~conn[c].up
  /\ conn' = [conn EXCEPT ![c] =
       IF conn[c].task = None THEN None ELSE [@ EXCEPT !.ingress = "ended"]]
  /\ UNCHANGED <<ledger, woken, egress, task, knows, at, faults>>

-----------------------------------------------------------------------------

Init ==
  /\ listing = Start /\ head = 1 /\ woken = {}
  /\ refresh = Asked
  /\ table = [n \in Node |-> None] /\ watched = 1
  /\ task = [t \in Task |-> None] /\ conn = [c \in Conn |-> None]
  /\ knows = {}
  /\ at = [e \in Endpoint |-> 0]
  /\ faults = 0

Environment ==
  \/ \E l \in Lists : ListChanges(l)
  \/ HeadMoves
  \/ \E c \in {d \in Conn : conn[d] # None} : Drops(c) \/ PullPanics(c)

Actor == NodesWake \/ HeadsWake \/ Read \/ Desired \/ \E t \in Task : Reap(t)

TaskStep(t) ==
  /\ t \in Running
  /\ Dialled(t) \/ NotDialled(t) \/ Redial(t) \/ Announce(t) \/ Lost(t) \/ Cancelled(t)

FarStep(c) ==
  /\ conn[c] # None
  /\ Member(c) \/ OnAnnounce(c) \/ Serves(c) \/ Pulled(c) \/ IngressEnds(c)

Next ==
  \/ Environment \/ Actor
  \/ Learn
  \/ \E t \in Task : TaskStep(t)
  \/ \E c \in Conn : FarStep(c)

Spec == Init /\ [][Next]_vars

\* Tasks run; a timer fires; a machine learns who is listed in the end.  The
\* actor's own select is biased, so each of its branches is asked for.
FairSpec ==
  /\ Spec
  /\ WF_vars(NodesWake) /\ WF_vars(HeadsWake) /\ WF_vars(Read) /\ WF_vars(Desired)
  /\ \A t \in Task : /\ WF_vars(Reap(t)) /\ WF_vars(TaskStep(t))
                     /\ WF_vars(Cancelled(t) /\ t \in Running)
  /\ \A c \in Conn : WF_vars(FarStep(c))
  /\ WF_vars(Learn)

-----------------------------------------------------------------------------

\* However lists, cancellations and exits interleave, a node has at most one
\* task that was not told to stop, it is the one the table names, and it
\* dials the endpoint the last list read gave the node.
OneTask ==
  \A t \in Live :
    /\ table[task[t].node] = t
    /\ \A u \in Live : task[u].node = task[t].node => u = t
    /\ ~refresh.in_flight /\ refresh.read = "ok" => task[t].addr = refresh.list[task[t].node]

\* No wake is lost between a read and the next: with none pending and none in
\* flight, the last read that succeeded saw the list as it is.
ReadIsCurrent ==
  ~refresh.in_flight /\ "nodes" \notin woken /\ refresh.read = "ok" =>
    refresh.list = listing

\* An announce is never dropped between two pulls: a machine with nothing
\* left to read and no pull running or owed stands at least at the head it
\* was last told, or that announce failed at this end.
AnnouncedIsHeld ==
  \A t \in Running : task[t].phase = "held" =>
    LET r == conn[task[t].conn]
    IN r.up /\ r.ingress = "serving" /\ r.mail = <<>> /\ r.pull = "Idle" /\ ~r.deaf
         => at[r.peer] >= task[t].told

\* A read that failed is not repeated until the list moves.
Stuck == refresh.read = "failed"

\* Once the list rests, every other node it names is kept by a task at its
\* address, and nobody else is.
TableSettles ==
  \A n \in Node : <>[](
    \/ Stuck
    \/ IF n \in Wanted(listing)
       THEN \E t \in Live : table[n] = t /\ task[t].node = n /\ task[t].addr = listing[n]
       ELSE \A t \in Running : task[t].node # n)

\* The announce that failed, or the pull that panicked, silenced the link:
\* it stays silent until the head moves again or the connection drops.
Silenced(t) ==
  /\ task[t].phase = "held"
  /\ \/ conn[task[t].conn].deaf
     \/ conn[task[t].conn].pull # "Idle" /\ conn[task[t].conn].session = "none"

\* Once head and list rest, every machine listed where it can be reached
\* comes to stand at the head, whatever dials failed and connections dropped.
HeadSpreads ==
  \A n \in Node : <>[](
    n \in Wanted(listing) /\ Home[listing[n].id] = listing[n].via /\ ~Stuck =>
      \/ at[listing[n].id] = head
      \/ \E t \in Live : task[t].node = n /\ Silenced(t))
=============================================================================

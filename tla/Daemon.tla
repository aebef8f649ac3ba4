------------------------------- MODULE Daemon -------------------------------
(***************************************************************************)
(* The daemon's mainloop and everyone who talks to it: clients on the      *)
(* control socket, the address publisher, the egress and the ingress, and  *)
(* whoever ends it.                                                        *)
(*                                                                         *)
(* Everyone reaches the core through one bounded queue, one call at a time *)
(* each, and waits for the answer.  The mainloop in turn waits for its     *)
(* actors: for a status, and when it closes.  Egress and ingress are here  *)
(* only for that; Peers models what they do.                               *)
(***************************************************************************)
EXTENDS Changes, Listing

CONSTANTS
  Clients,   \* connections on the control socket, one request each
  Requests,  \* what they may ask for: [on, arg]
  Writes,    \* what others write: [kind, key, path, val]
  Own,       \* the key and path of the transports listed for this node
  Listed,    \* those listed at first
  Wanted,    \* where the endpoint may come to be: a sequence of transports each
  Unknown,   \* transports this build has no variant for
  Other,     \* a listing under another endpoint id
  Filter,    \* what the publisher watches
  Capacity,  \* of the mainloop's channel
  MaxCalls, MaxFaults,  \* bounds on the environment
  None

ASSUME DaemonAssumption ==
  /\ \A r \in Requests : r.on \in {"write", "watch", "orphan", "status"}
  /\ Capacity \in Nat \ {0} /\ {MaxCalls, MaxFaults} \subseteq Nat
  /\ Clients \cap {"publish", "session", "operator", "publisher"} = {}
  /\ None \notin Clients \cup {"publish", "session", "operator"}

\* What the ledger can hold: places are paths, listings sequences of
\* transports.  Only the publisher's envelopes lead somewhere (`to`).
IsSeq(s)  == s \in Seq({s[i] : i \in DOMAIN s})
Foreign   == Writes \cup {r.arg : r \in {q \in Requests : q.on = "write"}}
Known     == {Listed} \cup Range(Wanted) \cup {w.val : w \in {v \in Foreign : v.kind = "listing"}}
Transport == UNION {Range(l) : l \in Known \ {None, Other}}
Listings  == {None, Other} \cup Seq(Transport)
ASSUME LedgerAssumption ==
  /\ IsSeq(Own.path) /\ \A w \in Foreign : IsSeq(w.path) /\ w.to = None
  /\ \A r \in Requests : r.on = "orphan" => r.arg \in Nat
  /\ Known \subseteq Listings /\ {None, Other} \cap Seq(Transport) = {}
  /\ Wanted \in Seq(Seq(Transport)) /\ Wanted # <<>> /\ None \notin DOMAIN Wanted

VARIABLES
  main,     \* "serving", "asking" for a client, "closing", "gone"
  asker,    \* the client it asks an actor for
  closing,  \* the actors still to be brought down
  queue,    \* who is in the channel, in order
  call,     \* where each caller's call stands
  ask,      \* what each client asks for
  path,     \* the canonical path
  made,     \* how many envelopes there ever were
  subs,     \* the registry: each subscriber's filter and what is pending
  due,      \* the movements each subscriber is owed and has not taken
  told,     \* what it was told left the path
  stage,    \* how many actors a status has heard from
  addr,     \* what the endpoint reports, and whether that is news
  pub,      \* the publisher
  mail,     \* the state query each actor has been sent
  up,       \* the actors still running
  used, faults

core == <<path, made, subs, due>>
ends == <<ask, told, stage>>
loop == <<main, asker, closing, queue>>
vars == <<loop, call, core, ends, addr, pub, mail, up, used, faults>>

\* In the order they are stopped, and in the order a status asks them.
Actors  == <<"publisher", "egress", "ingress">>
Asked   == <<"egress", "ingress", "publisher">>
\* The publisher's call runs on a task nobody joins (as the egress's refresh
\* does, in Peers), the ingress's in a session its stop ends.
Trips   == {"publish", "session"}
Callers == Clients \cup Trips \cup {"operator"}

CurrentHead == path[Len(path)].id

-----------------------------------------------------------------------------
(* The core: one insert, one registration at a time.                       *)

\* The node's entry as a path leaves it, and whether it may sign alone.
Latest(seq, kind, old) ==
  LET at == {i \in 1 .. Len(seq) : seq[i].kind = kind}
  IN IF at = {} THEN old ELSE seq[Max(at)].val
ListingIn(seq) == Latest(seq, "listing", Listed)
Listing == ListingIn(path)
Signs   == Latest(path, "keys", TRUE)

\* Core::peer_addresses: the transports this build can read.
Names(listed) == IF listed \in {None, Other} THEN {} ELSE Range(listed) \ Unknown
Stands(at) == Listing \notin {None, Other} /\ Names(Listing) = Range(Wanted[at])

\* Subscriber::push.
Push(pending, from, head, m) ==
  IF pending = {} THEN {[from |-> from, head |-> head, movement |-> m]}
  ELSE {[from |-> p.from, head |-> head, movement |-> MergeMovement(p.movement, m)]
          : p \in pending}

\* Core::insert: the chain moves and everyone it concerns is told.
Insert(new) ==
  /\ path' = new
  /\ \E m \in {Diff(path, path')} :
     LET hear == {s \in DOMAIN subs : Matches(subs[s].filter, m)}
         head == path'[Len(path')].id
     IN /\ subs' = [s \in DOMAIN subs |->
             IF s \in hear
             THEN [subs[s] EXCEPT !.pending = Push(@, CurrentHead, head, m)] ELSE subs[s]]
        /\ due' = [s \in DOMAIN due |-> IF s \in hear THEN due[s] \cup {m} ELSE due[s]]

Envelope(i, w) ==
  [id |-> made + i, kind |-> w.kind, key |-> w.key, path |-> w.path, val |-> w.val,
   to |-> w.to]

\* A run of envelopes on top of what is kept of the path: all of it for one
\* signed here onto the head, less when a pull brings a better branch.
Extend(keep, run) ==
  /\ made' = made + Len(run)
  /\ Insert(SubSeq(path, 1, keep) \o [i \in DOMAIN run |-> Envelope(i, run[i])])

\* Core::advertise_msg: the listing after each update, and where it is written.
Signed(run, at) ==
  LET stages == Stages(Listing, run)
      place(u) == IF "replace" \in DOMAIN u THEN <<u.replace>>
                  ELSE IF "drop" \in DOMAIN u THEN <<u.drop>> ELSE <<>>
  IN [i \in DOMAIN run |->
        [kind |-> "listing", key |-> Own.key, path |-> Own.path \o place(run[i]),
         val |-> stages[i], to |-> at]]

Subscribe(s, filter) ==
  /\ subs' = [x \in DOMAIN subs \cup {s} |->
       IF x = s THEN [filter |-> filter, pending |-> {}] ELSE subs[x]]
  /\ due' = [x \in DOMAIN due \cup {s} |-> IF x = s THEN {} ELSE due[x]]

\* SubscriptionHandle dropped, with its last reader.
Unsubscribe(s) ==
  /\ subs' = [x \in DOMAIN subs \ {s} |-> subs[x]]
  /\ due' = [x \in DOMAIN due \ {s} |-> due[x]]

\* SubscriptionHandle::next.
Take(s) ==
  /\ s \in DOMAIN subs /\ subs[s].pending # {}
  /\ subs' = [subs EXCEPT ![s].pending = {}]
  /\ due' = [due EXCEPT ![s] = {}]
  /\ UNCHANGED <<path, made>>

\* Core::contains.
OnPath(id) == \E i \in 1 .. Len(path) : path[i].id = id

-----------------------------------------------------------------------------
(* Calls.                                                                  *)

Ends(x, how) == [call EXCEPT ![x] = how]

\* A caller gets its message into the channel, once there is room.
Send(x) ==
  /\ call[x] = "sending" /\ main # "gone" /\ Len(queue) < Capacity
  /\ queue' = Append(queue, x) /\ call' = Ends(x, "queued")
  /\ UNCHANGED <<main, asker, closing, core, ends, addr, pub, mail, up, used, faults>>

\* With the mainloop gone there is nobody to send to.
SendFails(x) ==
  /\ call[x] = "sending" /\ main = "gone"
  /\ call' = Ends(x, "refused")
  /\ UNCHANGED <<loop, core, ends, addr, pub, mail, up, used, faults>>

\* The mainloop takes x's message.
Turn(x) ==
  /\ main = "serving" /\ queue # <<>> /\ queue[1] = x
  /\ queue' = Tail(queue)

\* A session goes on with its answer, unless it was cancelled meanwhile.
Resume == call' = Ends("session", IF call["session"] = "queued" THEN "none" ELSE "done")

\* What Core::advertise finds.
Advertised ==
  CASE Listing = None   -> "NotListed"
    [] Stands(pub.trip) -> "Unchanged"
    [] Listing = Other  -> "OtherEndpoint"
    [] ~Signs           -> "CannotSign"
    [] OTHER            -> "Written"

\* ServerMsg::Advertise: compared and written under one borrow, or failed.
Advertise ==
  /\ Turn("publish") /\ call' = Ends("publish", "answered")
  /\ \/ /\ IF Advertised = "Written"
           THEN \E run \in {AdvertiseBatch(Listing, Wanted[pub.trip])} :
                \E new \in {Signed(run, pub.trip)} : Extend(Len(path), new)
           ELSE UNCHANGED core
        /\ pub' = [pub EXCEPT !.outcome =
             IF Advertised \in {"Unchanged", "Written"} THEN "Published" ELSE Advertised]
        /\ UNCHANGED faults
     \/ /\ faults < MaxFaults /\ faults' = faults + 1
        /\ pub' = [pub EXCEPT !.outcome = "Failed"]
        /\ UNCHANGED core
  /\ UNCHANGED <<main, asker, closing, ends, addr, mail, up, used>>

\* ServerMsg::SyncAnswer, and any other read.
Reads ==
  /\ Turn("session") /\ Resume
  /\ UNCHANGED <<main, asker, closing, core, ends, addr, pub, mail, up, used, faults>>

\* ServerMsg::Insert, from a session that pulls.
Pulls(keep, w) ==
  /\ Turn("session") /\ Resume
  /\ Extend(keep, <<w>>)
  /\ UNCHANGED <<main, asker, closing, ends, addr, pub, mail, up, used, faults>>

\* ServerMsg::WeakWrite: signed onto the head the core stands at.
WeakWrite(c) ==
  /\ ask[c].on = "write" /\ Turn(c) /\ call' = Ends(c, "done")
  /\ Extend(Len(path), <<ask[c].arg>>)
  /\ UNCHANGED <<main, asker, closing, ends, addr, pub, mail, up, used, faults>>

\* ServerMsg::Subscribe.
Watch(c) ==
  /\ ask[c].on = "watch" /\ Turn(c) /\ call' = Ends(c, "streaming")
  /\ Subscribe(c, ask[c].arg)
  /\ UNCHANGED <<main, asker, closing, path, made, ends, addr, pub, mail, up, used, faults>>

\* Slip: registered without looking.
WatchOrphanedBlind(c) ==
  /\ ask[c].on = "orphan" /\ Turn(c)
  /\ call' = Ends(c, "streaming")
  /\ Subscribe(c, {[on |-> "Orphaned", id |-> ask[c].arg]})
  /\ UNCHANGED <<main, asker, closing, path, made, ends, addr, pub, mail, up, used, faults>>

\* ServerMsg::WatchOrphaned: looked up and registered under one borrow.
WatchOrphaned(c) ==
  /\ ask[c].on = "orphan" /\ Turn(c)
  /\ IF OnPath(ask[c].arg)
     THEN /\ call' = Ends(c, "streaming")
          /\ Subscribe(c, {[on |-> "Orphaned", id |-> ask[c].arg]})
          /\ UNCHANGED told
     ELSE /\ call' = Ends(c, "done")
          /\ told' = [told EXCEPT ![c] = {ask[c].arg}]
          /\ UNCHANGED <<subs, due>>
  /\ UNCHANGED <<main, asker, closing, path, made, ask, stage, addr, pub, mail, up, used,
                 faults>>

\* ServerMsg::Peers, PeerConnections and Published: the mainloop asks the
\* actor and waits for it.  What it answers by itself before, the identity and
\* the chain's range, changes nothing.
Status(c) ==
  /\ ask[c].on = "status" /\ Turn(c)
  /\ main' = "asking" /\ asker' = c
  /\ mail' = [mail EXCEPT ![Asked[stage[c] + 1]] = "state"]
  /\ UNCHANGED <<closing, call, core, ends, addr, pub, up, used, faults>>

\* ServerMsg::Shutdown.
Shutdown ==
  /\ Turn("operator")
  /\ main' = "closing" /\ closing' = Actors
  /\ UNCHANGED <<asker, call, core, ends, addr, pub, mail, up, used, faults>>

\* Whoever still holds a handle: tasks with a call under way, connections.
Held == {x \in Callers : call[x] \in {"sending", "queued", "answered", "streaming"}}

\* hnd_recv gives None once every handle is dropped.
AllDropped ==
  /\ main = "serving" /\ queue = <<>> /\ call["operator"] = "done" /\ Held = {}
  /\ main' = "closing" /\ closing' = Actors
  /\ UNCHANGED <<asker, queue, call, core, ends, addr, pub, mail, up, used, faults>>

\* local_sock.accept, when nothing is queued.  A client knows of an envelope
\* only once there is one.
Accept(c, r) ==
  /\ main = "serving" /\ queue = <<>> /\ call[c] = "new"
  /\ r.on = "orphan" => r.arg <= made
  /\ call' = Ends(c, IF call["operator"] = "done" /\ Held = {} THEN "refused" ELSE "sending")
  /\ ask' = [ask EXCEPT ![c] = r]
  /\ UNCHANGED <<loop, core, told, stage, addr, pub, mail, up, used, faults>>

-----------------------------------------------------------------------------
(* The actors.                                                             *)

\* Slip: an actor that awaits its own call serves its channel after it.
AttendsAfter(a) ==
  /\ a \in up
  /\ a = "publisher" => call["publish"] \notin {"sending", "queued"}

\* An actor's loop serves its channel whatever its own tasks wait for.
Attends(a) == a \in up

\* A command: the mainloop has its answer, and the client asked for goes on
\* to the next actor or is done.
Report(a) ==
  /\ Attends(a) /\ mail[a] = "state"
  /\ mail' = [mail EXCEPT ![a] = None]
  /\ main' = "serving" /\ asker' = None
  /\ stage' = [stage EXCEPT ![asker] = @ + 1]
  /\ call' = Ends(asker, IF stage[asker] + 1 = Len(Asked) THEN "done" ELSE "sending")
  /\ UNCHANGED <<closing, queue, core, ask, told, addr, pub, up, used, faults>>

\* Peers::close awaits the actors in turn.  The ingress ends its sessions
\* before it goes: cancelled, or aborted after SHUTDOWN_GRACE.  The others'
\* tasks are nobody's to wait for.
Stop(a) ==
  /\ main = "closing" /\ closing # <<>> /\ closing[1] = a /\ Attends(a)
  /\ closing' = Tail(closing) /\ up' = up \ {a}
  /\ call' = IF a = "ingress" THEN Ends("session", "done") ELSE call
  /\ IF a = "publisher" THEN Unsubscribe(a) ELSE UNCHANGED <<subs, due>>
  /\ UNCHANGED <<main, asker, queue, path, made, ends, addr, pub, mail, used, faults>>

\* The channel goes with its receiver: every responder in it is dropped.
Refused == {x \in Callers : call[x] = "queued" /\ x # "operator"}

Gone ==
  /\ main = "closing" /\ closing = <<>>
  /\ main' = "gone" /\ queue' = <<>>
  /\ call' = [x \in Callers |-> IF x \in Refused THEN "refused"
                                ELSE IF x = "operator" THEN "done" ELSE call[x]]
  /\ UNCHANGED <<asker, closing, core, ends, addr, pub, mail, up, used, faults>>

\* A session of the ingress asks the mainloop.
Ask ==
  /\ "ingress" \in up /\ call["session"] = "none" /\ used < MaxCalls
  /\ used' = used + 1 /\ call' = Ends("session", "sending")
  /\ UNCHANGED <<loop, core, ends, addr, pub, mail, up, faults>>

-----------------------------------------------------------------------------
(* The publisher.                                                          *)

AddrMoves ==
  /\ addr.at < Len(Wanted)
  /\ addr' = [at |-> addr.at + 1, news |-> TRUE]
  /\ UNCHANGED <<loop, call, core, ends, pub, mail, up, used, faults>>

\* addr.updated.
AddrUpdated ==
  /\ "publisher" \in up /\ addr.news
  /\ addr' = [addr EXCEPT !.news = FALSE]
  /\ pub' = [pub EXCEPT !.state = "Pending", !.timer = TRUE]
  /\ UNCHANGED <<loop, call, core, ends, mail, up, used, faults>>

\* ledger.next.
LedgerMoved ==
  /\ "publisher" \in up /\ Take("publisher")
  /\ pub' = [pub EXCEPT !.timer = TRUE]
  /\ UNCHANGED <<loop, call, ends, addr, mail, up, used, faults>>

\* Slip: a request during a publish is taken for granted.
TimerFiresOnce ==
  /\ "publisher" \in up /\ pub.timer
  /\ IF pub.in_flight
     THEN /\ pub' = [pub EXCEPT !.timer = FALSE]
          /\ UNCHANGED call
     ELSE /\ pub' = [pub EXCEPT !.timer = FALSE, !.in_flight = TRUE,
                                !.trip = addr.at, !.state = "Pending"]
          /\ call' = Ends("publish", "sending")
  /\ UNCHANGED <<loop, core, ends, addr, mail, up, used, faults>>

\* The settle timer fires: Publish::request with the address of now.
TimerFires ==
  /\ "publisher" \in up /\ pub.timer
  /\ IF pub.in_flight
     THEN /\ pub' = [pub EXCEPT !.timer = FALSE, !.again = TRUE]
          /\ UNCHANGED call
     ELSE /\ pub' = [pub EXCEPT !.timer = FALSE, !.in_flight = TRUE,
                                !.trip = addr.at, !.state = "Pending"]
          /\ call' = Ends("publish", "sending")
  /\ UNCHANGED <<loop, core, ends, addr, mail, up, used, faults>>

\* Publish::landed and settle_outcome.
Landed(outcome) ==
  [pub EXCEPT !.state = outcome, !.in_flight = FALSE, !.again = FALSE, !.outcome = None,
              !.timer = @ \/ pub.again]

Land ==
  /\ call["publish"] \in {"answered", "refused"} /\ "publisher" \in up
  /\ pub' = Landed(IF call["publish"] = "refused" THEN "Failed" ELSE pub.outcome)
  /\ call' = Ends("publish", "none")
  /\ UNCHANGED <<loop, core, ends, addr, mail, up, used, faults>>

-----------------------------------------------------------------------------
(* Clients and the operator.                                               *)

\* The next event of a watch is sent.
Notify(c) ==
  /\ call[c] = "streaming" /\ Take(c)
  /\ told' = [told EXCEPT ![c] = @ \cup UNION {p.movement.orphaned : p \in subs[c].pending}]
  /\ UNCHANGED <<loop, call, ask, stage, addr, pub, mail, up, used, faults>>

\* The client hangs up, or there is nobody left to publish.
Hang(c) ==
  /\ call[c] = "streaming"
  /\ call' = Ends(c, "done") /\ Unsubscribe(c)
  /\ UNCHANGED <<loop, path, made, ends, addr, pub, mail, up, used, faults>>

StreamEnds(c) == main = "gone" /\ call[c] = "streaming" /\ subs[c].pending = {} /\ Hang(c)

Operator(how) ==
  /\ call["operator"] = "none"
  /\ call' = Ends("operator", how)
  /\ UNCHANGED <<loop, core, ends, addr, pub, mail, up, used, faults>>

-----------------------------------------------------------------------------

Init ==
  /\ main = "serving" /\ asker = None /\ closing = <<>> /\ queue = <<>>
  /\ call = [x \in Callers |-> IF x \in Clients THEN "new" ELSE "none"]
  /\ path = <<[id |-> 1, kind |-> "init", key |-> Own.key, path |-> <<>>, val |-> None,
               to |-> None]>>
  /\ made = 1
  /\ subs = [s \in {"publisher"} |-> [filter |-> Filter, pending |-> {}]]
  /\ due = [s \in {"publisher"} |-> {}]
  /\ ask = [c \in Clients |-> [on |-> "none"]]
  /\ told = [c \in Clients |-> {}] /\ stage = [c \in Clients |-> 0]
  /\ addr = [at |-> 1, news |-> FALSE]
  /\ pub = [state |-> "Unchecked", timer |-> TRUE, in_flight |-> FALSE, again |-> FALSE,
            trip |-> None, outcome |-> None]
  /\ mail = [a \in {Actors[i] : i \in 1 .. 3} |-> None]
  /\ up = {Actors[i] : i \in 1 .. 3}
  /\ used = 0 /\ faults = 0

Client(c) ==
  \/ WeakWrite(c) \/ Watch(c) \/ WatchOrphaned(c) \/ Status(c)

Mainloop ==
  \/ Shutdown \/ AllDropped \/ Gone
  \/ Reads
  \/ \E c \in Clients : Client(c)
  \/ Advertise
  \/ \E keep \in 1 .. Len(path), w \in Writes : Pulls(keep, w)

Actor(a) == Report(a) \/ Stop(a)

Publisher == AddrUpdated \/ LedgerMoved \/ TimerFires \/ Land

System ==
  \/ \E x \in Callers : Send(x) \/ SendFails(x)
  \/ \E a \in DOMAIN mail : Actor(a)
  \/ \E c \in Clients : Notify(c) \/ StreamEnds(c)
  \/ Publisher \/ Mainloop

Environment ==
  \/ AddrMoves
  \/ Ask
  \/ \E c \in Clients : Hang(c) \/ \E r \in Requests : Accept(c, r)
  \/ \E how \in {"sending", "done"} : Operator(how)

Next == System \/ Environment

Spec == Init /\ [][Next]_vars

\* The runtime never leaves every task that could run unscheduled.  Nobody has
\* to connect, hang up, dial in or shut the daemon down.
FairSpec == Spec /\ WF_vars(System)

-----------------------------------------------------------------------------

\* What a slow subscriber finds is what it missed: no movement it was to hear
\* of is lost in the merge and nothing is made up, for whoever asks about any
\* place; and no recorded path covers another.
PendingIsExact ==
  \A s \in DOMAIN subs :
    /\ subs[s].pending = {} <=> due[s] = {}
    /\ \A p \in subs[s].pending :
         LET m == p.movement
         IN /\ \A w \in Writes : Touches(m.changes, w.key, w.path) <=>
                 \E d \in due[s] : Touches(d.changes, w.key, w.path)
            /\ m.orphaned = UNION {d.orphaned : d \in due[s]}
            /\ \A key \in DOMAIN m.changes : \A a, b \in m.changes[key] :
                 Covers(a, b) => a = b

\* Whoever watches for an envelope to leave the path hears of it, also when it
\* left just before the watch was taken, and is told of nothing that stayed.
OrphanTold ==
  \A c \in Clients : ask[c].on = "orphan" =>
    /\ call[c] = "streaming" /\ ~OnPath(ask[c].arg) =>
         \/ ask[c].arg \in told[c]
         \/ \E p \in subs[c].pending : ask[c].arg \in p.movement.orphaned
    /\ \A id \in told[c] : ~OnPath(id)

\* Whatever branch or peer cuts a run of edits short, a transport the node can
\* be reached at and was listed with is still listed.
StaysReachable ==
  \A i \in 2 .. Len(path) : path[i].to # None =>
    Names(ListingIn(SubSeq(path, 1, i - 1))) \cap Range(Wanted[path[i].to])
      \subseteq Names(path[i].val)

\* Once nothing moves, the ledger lists the node where it is, where it lists it
\* at all and lets it sign: a change during a publish is not forgotten.
PublishSettles ==
  <>[](main = "serving" =>
         Stands(addr.at) \/ Listing \in {None, Other} \/ ~Signs \/ pub.state = "Failed")

\* The mainloop waits for its actors and they, or what they started, may be
\* waiting for it: a close comes to its end all the same, and nobody waits for
\* room or an answer forever, whatever the daemon goes through.
CloseEnds ==
  <>[](main # "closing" /\ \A x \in Callers : call[x] \notin {"sending", "queued"})
=============================================================================

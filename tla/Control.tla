------------------------------ MODULE Control ------------------------------
(***************************************************************************)
(* The control socket, end to end: programs calling the daemon, one        *)
(* request per connection; length-prefixed frames in both directions; a    *)
(* handler task per connection that asks the mainloop for what it needs    *)
(* and streams the answer; the mainloop, which owns the chain.             *)
(*                                                                         *)
(* A connection slot is used for one call.  A frame is written in one      *)
(* step; a process that dies while writing leaves any number of its bytes. *)
(***************************************************************************)
EXTENDS Requests

CONSTANTS
  Conns,       \* connection slots
  Scripts,     \* what the programs of a behaviour ask: conn -> request
  Foreign,     \* [back, msg]: envelopes peers deliver, undoing the newest `back`
  Genesis,     \* the first entry of the chain
  PrefixLen,   \* bytes of a frame's length prefix
  MaxLen,      \* MAX_FRAME_LEN
  Buffer,      \* frames a socket holds before a write waits
  MaxMinted    \* bound: peers deliver while the log has taken fewer than this

ASSUME FrameAssumption   == PrefixLen \in Nat \ {0} /\ MaxLen \in Nat \ {0}
ASSUME GenesisAssumption == Genesis.digest \in Nat
ASSUME ForeignAssumption == \A f \in Foreign : f.back \in Nat

\* What programs can ask: a method with the parameters its type gives it, or
\* one this build does not know.
Asked == {s[c] : s \in Scripts, c \in Conns}
ASSUME ScriptAssumption ==
  \A q \in Asked :
    /\ q = Unknown \/ q.type \in Methods
    /\ q.type = "GetEnvelopes" =>
         \/ DOMAIN q = {"type", "digests"} /\ q.digests \in Seq(Nat)
         \/ DOMAIN q = {"type", "limit", "since"} /\ q.limit \cup q.since \subseteq Nat

VARIABLES
  call,    \* conn -> the client's side: [at, asked, filled, got, end]
  up,      \* conn -> the pipe to the daemon: [frames, shut]
  down,    \* conn -> the pipe back
  task,    \* conn -> the handler: [at, filled, req, trips, parts, out]
  queue,   \* the mainloop's messages: [conn, req, trip]
  subs,    \* conn -> its subscription: [live, pending]
  core,    \* [chain, orphans, minted]
  daemon,  \* "up", "down" once the mainloop has returned, "exited"
  seen,    \* history, conn -> [wrote, beside, picked, head, unsent]
  missed   \* history, conn -> the newest head its watch should have been told of

vars == <<call, up, down, task, queue, subs, core, daemon, seen, missed>>

\* A core that is gone.  What it stored outlives it; see Chain.
NoCore == [chain |-> <<>>, orphans |-> <<>>, minted |-> 0]
NoSub  == [live |-> FALSE, pending |-> <<>>]
NoTask == [at |-> "none", filled |-> 0, req |-> {}, trips |-> <<>>, parts |-> <<>>,
           out |-> <<>>]

-----------------------------------------------------------------------------
(* Frames.                                                                 *)

\* A body of the wire's ordinary size is 1.  A text near the limit adds 1 to
\* the request that writes it and 2 to an answer that carries it, which has
\* a digest and a verification beside it.
BodyLen(body) ==
  CASE "type" \in DOMAIN body /\ "value" \in DOMAIN body -> 1 + Width(body.value)
    [] "type" \in DOMAIN body -> 1
    [] body.is = "Envelope" /\ body.width > 0 -> 2 + body.width
    [] body.is = "Value" /\ Width(body.value) > 0 -> 2 + Width(body.value)
    [] OTHER -> 1

FrameOf(body, len) == [body |-> body, len |-> len, bytes |-> PrefixLen + len]

\* frame::write: a body past the limit never reaches the wire, and none is
\* empty.
Sendable(body) == BodyLen(body) \in 1 .. MaxLen

\* Slip: an end of stream is taken for the peer's regular close wherever the
\* frame in progress stood.
PollForgiving(pipe, filled) ==
  LET f    == Head(pipe.frames)
      upto == IF filled < PrefixLen THEN PrefixLen ELSE PrefixLen + f.len
      n    == IF f.bytes < upto THEN f.bytes ELSE upto
  IN IF pipe.frames # <<>> /\ f.bytes > filled
     THEN CASE n = PrefixLen /\ f.len > MaxLen -> {[is |-> "FrameTooLarge"]}
            [] n = PrefixLen + f.len           -> {[is |-> "frame", body |-> f.body]}
            [] OTHER                           -> {[is |-> "more", filled |-> n]}
     ELSE IF ~pipe.shut THEN {}
     ELSE {[is |-> "none"]}

\* Reader::poll_read, one `fill`: up to the end of the prefix, then up to
\* the end of the body.  Nothing while the pipe is open and empty.
Poll(pipe, filled) ==
  LET f    == Head(pipe.frames)
      upto == IF filled < PrefixLen THEN PrefixLen ELSE PrefixLen + f.len
      n    == IF f.bytes < upto THEN f.bytes ELSE upto
  IN IF pipe.frames # <<>> /\ f.bytes > filled
     THEN CASE n = PrefixLen /\ f.len > MaxLen -> {[is |-> "FrameTooLarge"]}
            [] n = PrefixLen + f.len           -> {[is |-> "frame", body |-> f.body]}
            [] OTHER                           -> {[is |-> "more", filled |-> n]}
     ELSE IF ~pipe.shut THEN {}
     ELSE IF filled > 0 THEN {[is |-> "Truncated"]}
     ELSE {[is |-> "none"]}

Pushed(pipe, frame) == [pipe EXCEPT !.frames = Append(@, frame)]
Popped(pipe)        == [pipe EXCEPT !.frames = Tail(@)]
Shut(pipe)          == [pipe EXCEPT !.shut = TRUE]

-----------------------------------------------------------------------------
(* The client: lotus_sdk::Client over lotusd_rpc::call and Call.           *)

Asking(c, at, end) == call' = [call EXCEPT ![c].at = at, ![c].end = end]

\* Client::connect and Call::send.  A request that does not fit a frame is
\* refused before any of it is written.  A newer build's limit is its own.
Connect(c) ==
  /\ call[c].at = "idle" /\ daemon = "up"
  /\ LET q == call[c].asked
     IN IF Sendable(q)
        THEN /\ Asking(c, "open", "")
             /\ \E len \in IF q = Unknown THEN {1, MaxLen + 1} ELSE {BodyLen(q)} :
                  up' = [up EXCEPT ![c] = Pushed(@, FrameOf(q, len))]
        ELSE Asking(c, "ended", "FrameTooLarge") /\ up' = [up EXCEPT ![c] = Shut(@)]
  /\ UNCHANGED <<down, task, queue, subs, core, daemon, seen, missed>>

\* The program dies while writing its request.
ConnectCut(c) ==
  /\ call[c].at = "idle" /\ daemon = "up"
  /\ LET q == call[c].asked
     IN /\ Sendable(q)
        /\ Asking(c, "ended", "Dropped")
        /\ \E k \in 1 .. PrefixLen :
             up' = [up EXCEPT ![c] =
                      Shut(Pushed(@, [FrameOf(q, BodyLen(q)) EXCEPT !.bytes = k]))]
  /\ UNCHANGED <<down, task, queue, subs, core, daemon, seen, missed>>

\* Nobody listens: Error::Connect.
ConnectFails(c) ==
  /\ call[c].at = "idle" /\ daemon # "up"
  /\ Asking(c, "ended", "Connect")
  /\ UNCHANGED <<up, down, task, queue, subs, core, daemon, seen, missed>>

Ends(c, end, got) ==
  /\ call' = [call EXCEPT ![c].at = "ended", ![c].end = end, ![c].got = got,
                          ![c].filled = 0]
  /\ up' = [up EXCEPT ![c] = Shut(@)]

\* The end of the stream as the client meets it.  A daemon that closes with
\* part of the request unread resets the connection.
Closed(c, is) ==
  IF up[c].frames # <<>> THEN "IO"
  ELSE IF is = "none" /\ call[c].asked.type \notin Many THEN "NoResponse"
  ELSE is

\* Call::poll_response with Method::read; call() stops at the first answer.
Response(c, body) ==
  LET q == call[c].asked
      got == Append(call[c].got, body)
  IN IF body.is = "Failed" THEN Ends(c, "Failed", got)
     ELSE IF body.is # Variant(q) THEN Ends(c, "UnexpectedResponse", got)
     ELSE IF q.type \notin Many THEN Ends(c, "Ok", got)
     ELSE call' = [call EXCEPT ![c].got = got, ![c].filled = 0] /\ UNCHANGED up

ClientPolls(c) ==
  /\ call[c].at = "open"
  /\ \E r \in Poll(down[c], call[c].filled) :
       \/ /\ r.is = "more"
          /\ call' = [call EXCEPT ![c].filled = r.filled]
          /\ UNCHANGED <<up, down>>
       \/ /\ r.is = "frame"
          /\ Response(c, r.body)
          /\ down' = [down EXCEPT ![c] = Popped(@)]
       \/ /\ r.is \notin {"more", "frame"}
          /\ Ends(c, Closed(c, r.is), call[c].got)
          /\ UNCHANGED down
  /\ UNCHANGED <<task, queue, subs, core, daemon, seen, missed>>

\* The call, or the Streaming, is dropped.
HangUp(c) ==
  /\ call[c].at = "open"
  /\ Ends(c, "Dropped", <<>>)
  /\ UNCHANGED <<down, task, queue, subs, core, daemon, seen, missed>>

-----------------------------------------------------------------------------
(* The connection's task: lotusd_rpc::serve and Rpc::handle.               *)

\* Server::run: every accepted connection gets a task of its own.
Accept(c) ==
  /\ daemon = "up" /\ task[c].at = "none"
  /\ call[c].at = "open" \/ up[c].frames # <<>> \/ up[c].shut
  /\ task' = [task EXCEPT ![c].at = "reading"]
  /\ UNCHANGED <<call, up, down, queue, subs, core, daemon, seen, missed>>

\* serve returns: the stream is dropped, and with it whatever it streamed.
Leave(c) ==
  /\ task' = [task EXCEPT ![c] = [NoTask EXCEPT !.at = "ended"]]
  /\ down' = [down EXCEPT ![c] = Shut(@)]
  /\ subs' = [subs EXCEPT ![c] = NoSub]

Tell(t, kind) == [t EXCEPT !.at = "telling", !.trips = <<>>, !.out = <<Failure(kind)>>]

\* What is sent once the last trip is answered.
Respond(t, parts) ==
  LET q == CHOOSE q \in t.req : TRUE
  IN [t EXCEPT !.at = "sending", !.trips = <<>>, !.parts = <<>>,
               !.out = CASE q.type = "GetVersion"   -> <<Version>>
                         [] q.type = "GetStatus"    -> <<NodeStatus(parts)>>
                         [] q.type = "GetEnvelopes" -> parts[1].frames
                         [] q.type = "Watch"        -> parts[1].frames
                         [] OTHER                   -> parts]

Handle(t, q) ==
  LET asked == [t EXCEPT !.at = "asking", !.filled = 0, !.req = {q}, !.trips = Trips(q)]
  IN IF Trips(q) = <<>> THEN Respond(asked, <<>>) ELSE asked

\* The request frame.  One this build cannot decode is answered; one that is
\* too large, cut short or not there ends the connection.
TaskReads(c) ==
  /\ task[c].at = "reading"
  /\ \E r \in Poll(up[c], task[c].filled) :
       \/ /\ r.is = "more"
          /\ task' = [task EXCEPT ![c].filled = r.filled]
          /\ UNCHANGED <<up, down, subs>>
       \/ /\ r.is = "frame"
          /\ task' = [task EXCEPT ![c] = IF r.body = Unknown THEN Tell(@, "Unsupported")
                                         ELSE Handle(@, r.body)]
          /\ up' = [up EXCEPT ![c] = Popped(@)]
          /\ UNCHANGED <<down, subs>>
       \/ /\ r.is \notin {"more", "frame"}
          /\ Leave(c)
          /\ UNCHANGED up
  /\ UNCHANGED <<call, queue, core, daemon, seen, missed>>

\* ServerHandle: a message to the mainloop, and the wait for its answer.
Ask(c) ==
  /\ task[c].at = "asking" /\ daemon = "up"
  /\ queue' = Append(queue, [conn |-> c, req |-> CHOOSE q \in task[c].req : TRUE,
                             trip |-> Head(task[c].trips)])
  /\ task' = [task EXCEPT ![c].at = "waiting", ![c].trips = Tail(@)]
  /\ UNCHANGED <<call, up, down, subs, core, daemon, seen, missed>>

\* The mainloop returned with the message unanswered or never taken.
Gone(c) ==
  /\ task[c].at \in {"asking", "waiting"} /\ daemon = "down"
  /\ task' = [task EXCEPT ![c] = Tell(@, "Internal")]
  /\ UNCHANGED <<call, up, down, queue, subs, core, daemon, seen, missed>>

\* Slip: a response that does not fit a frame is passed over.
TaskWritesOn(c) ==
  /\ task[c].at \in {"sending", "telling"} /\ task[c].out # <<>>
  /\ call[c].at = "ended" \/ Len(down[c].frames) < Buffer
  /\ LET body == Head(task[c].out)
     IN IF call[c].at = "ended" THEN Leave(c)
        ELSE /\ down' = [down EXCEPT ![c] = IF Sendable(body)
                                            THEN Pushed(@, FrameOf(body, BodyLen(body)))
                                            ELSE @]
             /\ task' = [task EXCEPT ![c].out = Tail(@)]
             /\ UNCHANGED subs
  /\ UNCHANGED <<call, up, queue, core, daemon, seen, missed>>

\* Responses::send.  A response past the frame limit is an error no client
\* is told of, as is a client that has gone.
TaskWrites(c) ==
  /\ task[c].at \in {"sending", "telling"} /\ task[c].out # <<>>
  /\ call[c].at = "ended" \/ Len(down[c].frames) < Buffer
  /\ LET body == Head(task[c].out)
     IN /\ IF call[c].at = "ended" \/ ~Sendable(body) THEN Leave(c)
           ELSE /\ down' = [down EXCEPT ![c] = Pushed(@, FrameOf(body, BodyLen(body)))]
                /\ task' = [task EXCEPT ![c].out = Tail(@)]
                /\ UNCHANGED subs
        /\ seen' = [seen EXCEPT ![c].unsent = @ \/ ~Sendable(body)]
  /\ UNCHANGED <<call, up, queue, core, daemon, missed>>

\* Nothing is left to send: a watch waits for the next movement, everything
\* else is finished.
TaskSent(c) ==
  /\ task[c].at \in {"sending", "telling"} /\ task[c].out = <<>>
  /\ IF subs[c].live
     THEN task' = [task EXCEPT ![c].at = "watching"] /\ UNCHANGED <<down, subs>>
     ELSE Leave(c)
  /\ UNCHANGED <<call, up, queue, core, daemon, seen, missed>>

\* SubscriptionHandle::next: what is pending, and the end of the stream once
\* the core is gone and nothing is.
Notify(c) ==
  /\ task[c].at = "watching"
  /\ \/ /\ subs[c].pending # <<>>
        /\ task' = [task EXCEPT ![c].at = "sending", ![c].out = subs[c].pending]
        /\ subs' = [subs EXCEPT ![c].pending = <<>>]
        /\ UNCHANGED down
     \/ subs[c].pending = <<>> /\ daemon = "down" /\ Leave(c)
  /\ UNCHANGED <<call, up, queue, core, daemon, seen, missed>>

\* Slip: a departed client is noticed on the next write only.
HungUpOnWrite(c) ==
  /\ task[c].at \in {"asking", "waiting"}
  /\ call[c].at = "ended"
  /\ Leave(c)
  /\ UNCHANGED <<call, up, queue, core, daemon, seen, missed>>

\* hung_up wins the race in serve.  A message already sent to the mainloop
\* stays there.
HungUp(c) ==
  /\ task[c].at \in {"asking", "waiting", "sending", "watching"}
  /\ call[c].at = "ended"
  /\ Leave(c)
  /\ UNCHANGED <<call, up, queue, core, daemon, seen, missed>>

-----------------------------------------------------------------------------
(* The mainloop.                                                           *)

\* Slip: what is pending already says the head moved.
PushFirst(sub, from, head) ==
  IF sub.pending # <<>> THEN sub ELSE [sub EXCEPT !.pending = <<Changed(from, head)>>]

\* Subscriber::push: `from` stays where the oldest undrained movement began.
Push(sub, from, head) ==
  [sub EXCEPT !.pending =
     <<Changed(IF sub.pending # <<>> THEN sub.pending[1].from ELSE from, head)>>]

\* The subscriptions a movement of the head from `core` to `new` is for.
Hearers(new) ==
  {c \in Conns : subs[c].live /\ \E q \in task[c].req : Selects(q, core, new)}

\* The subscriptions told of it.
Published(new) ==
  [c \in Conns |->
     IF c \in Hearers(new)
     THEN Push(subs[c], NewestOf(core).digest, NewestOf(new).digest)
     ELSE subs[c]]

\* Core::insert's publish, where the store may fail.  A movement that cannot be
\* read back is told to nobody, and the next one starts from where it ended.
Announces(new) ==
  \/ subs' = Published(new) /\ UNCHANGED missed
  \/ /\ missed' = [c \in Conns |-> IF c \in Hearers(new) THEN new.minted ELSE missed[c]]
     /\ UNCHANGED subs

\* An answer of several frames.
Frames(s) == [is |-> "Frames", frames |-> s]

\* The answer to one message, for those that change nothing: what the
\* responder carries back.
Reads(m) ==
  LET head == NewestOf(core).digest
      q    == m.req
  IN CASE m.trip = "ChainRange"     -> ChainRange(OldestOf(core).digest, head)
       [] m.trip = "GetEnvelopes"   ->
            Frames([i \in DOMAIN ReadEnvelopes(core, q) |->
                      EnvelopeFrame(ReadEnvelopes(core, q)[i])])
       [] m.trip = "Watch"          ->
            IF q.select = "Orphaned" /\ q.digest \notin DigestsOf(core.chain)
            THEN Frames(<<AlreadyOrphaned(q.digest)>>) ELSE Frames(<<>>)
       [] m.trip = "Read"           -> ValueAt(head, ReadValue(core, q))
       [] m.trip = "Query"          -> Queried(head, Meta(ReadValue(core, q), q.kind))
       [] m.trip = "ListNamespaces" -> NamespaceList(head, Namespaces(core))
       [] m.trip = "CreateInvite"   ->
            IF Endpoint THEN InviteCode(q.ttl) ELSE Failure("Rejected")
       [] OTHER                     -> [is |-> m.trip]

\* The responder: a task still waiting takes the answer.
Takes(t, answer) ==
  IF t.at # "waiting" THEN t
  ELSE IF answer.is = "Failed" THEN Tell(t, answer.kind)
  ELSE IF t.trips = <<>> THEN Respond(t, Append(t.parts, answer))
  ELSE [t EXCEPT !.at = "asking", !.parts = Append(@, answer)]

Reply(c, answer) == task' = [task EXCEPT ![c] = Takes(@, answer)]

Registers(m) == m.trip = "Watch" /\ task[m.conn].at = "waiting" /\ Reads(m) = Frames(<<>>)

\* A read or a registration.
TurnReads ==
  /\ queue # <<>> /\ daemon = "up"
  /\ LET m == Head(queue)
     IN /\ m.req.type \notin Writes \cup {"Compact"}
        /\ Reply(m.conn, Reads(m))
        /\ subs' = [subs EXCEPT ![m.conn].live = @ \/ Registers(m)]
        /\ seen' = [seen EXCEPT
             ![m.conn].beside = IF m.trip = "Read" THEN {c \in Conns : subs[c].live} ELSE @,
             ![m.conn].picked = IF m.trip = "GetEnvelopes" THEN Reads(m).frames ELSE @,
             ![m.conn].head = NewestOf(core).digest]
  /\ queue' = Tail(queue)
  /\ UNCHANGED <<call, up, down, core, daemon, missed>>

Accepted(m) == CheckMsg(NewestOf(core).state, Message(m.req)) = "ok"

\* Slip: the write is judged where it left the chain.
TurnWritesFirst ==
  /\ queue # <<>> /\ daemon = "up"
  /\ LET m == Head(queue)
         new == Moved(core, 0, Message(m.req))
     IN /\ m.req.type \in Writes /\ Accepted(m)
        /\ core' = new
        /\ subs' = Published(new)
        /\ Reply(m.conn, IF CheckMsg(NewestOf(new).state, Message(m.req)) = "ok"
                         THEN WrittenAs(new.minted, NewestOf(new).digest, "Extended")
                         ELSE Failure("Rejected"))
        /\ seen' = [seen EXCEPT ![m.conn].wrote = Append(@, new.minted)]
  /\ queue' = Tail(queue)
  /\ UNCHANGED <<call, up, down, daemon, missed>>

\* Core::sign_write: signed onto the head the core stands at right now.
TurnWrites ==
  /\ queue # <<>> /\ daemon = "up"
  /\ LET m == Head(queue)
     IN /\ m.req.type \in Writes
        /\ IF Accepted(m)
           THEN LET new == Moved(core, 0, Message(m.req))
                IN /\ core' = new
                   /\ subs' = Published(new)
                   /\ Reply(m.conn, WrittenAs(new.minted, NewestOf(new).digest, "Extended"))
                   /\ seen' = [seen EXCEPT ![m.conn].wrote = Append(@, new.minted)]
           ELSE Reply(m.conn, Failure("Rejected")) /\ UNCHANGED <<core, subs, seen>>
  /\ queue' = Tail(queue)
  /\ UNCHANGED <<call, up, down, daemon, missed>>

TurnCompacts ==
  /\ queue # <<>> /\ daemon = "up"
  /\ LET m == Head(queue)
     IN /\ m.req.type = "Compact"
        /\ core' = Pruned(core)
        /\ Reply(m.conn, Compacted(OldestOf(core).digest, OldestOf(Pruned(core)).digest,
                   Len(core.chain) + Len(core.orphans)
                     - Len(Pruned(core).chain) - Len(Pruned(core).orphans)))
  /\ queue' = Tail(queue)
  /\ UNCHANGED <<call, up, down, subs, daemon, seen, missed>>

\* The messages that read or write the store.
Stored ==
  {"GetEnvelopes", "Read", "Query", "ListNamespaces", "CreateInvite", "Compact"} \cup Writes

\* What a message that fails is answered with.  An invite is refused by a node
\* that may not sign alone, or that has no entropy for the token.
Kinds(m) == IF m.trip = "CreateInvite" THEN {"Internal", "Rejected"} ELSE {"Internal"}

\* The store fails under a message.  A write may stand all the same, and the
\* movement of the head may then go untold.
TurnFails ==
  /\ queue # <<>> /\ daemon = "up"
  /\ LET m == Head(queue)
     IN /\ \/ m.trip \in Stored
           \/ m.trip = "Watch" /\ m.req.select = "Orphaned"
        /\ \E kind \in Kinds(m) : Reply(m.conn, Failure(kind))
        /\ \/ UNCHANGED <<core, subs, seen, missed>>
           \/ /\ m.req.type \in Writes /\ Accepted(m)
              /\ core' = Moved(core, 0, Message(m.req))
              /\ Announces(core')
              /\ seen' = [seen EXCEPT ![m.conn].wrote = Append(@, core'.minted)]
  /\ queue' = Tail(queue)
  /\ UNCHANGED <<call, up, down, daemon>>

Turn == TurnReads \/ TurnWrites \/ TurnCompacts \/ TurnFails

\* A peer's envelope arrives, and may undo what the node wrote.  A store that
\* fails before the head moved leaves everything as it was.
PeerInserts ==
  /\ daemon = "up" /\ core.minted < MaxMinted
  /\ \E f \in Foreign :
       /\ f.back < Len(core.chain)
       /\ LET on == core.chain[Len(core.chain) - f.back]
          IN CheckMsg(on.state, f.msg) = "ok"
       /\ core' = Moved(core, f.back, f.msg)
       /\ Announces(core')
  /\ UNCHANGED <<call, up, down, task, queue, daemon, seen>>

\* The mainloop returns: its queue, its listener and the core go with it.
Shutdown ==
  /\ daemon = "up"
  /\ daemon' = "down"
  /\ queue' = <<>>
  /\ down' = [c \in Conns |-> IF task[c].at = "none" THEN Shut(down[c]) ELSE down[c]]
  /\ core' = NoCore
  /\ UNCHANGED <<call, up, task, subs, seen, missed>>

\* Connections with a frame going out.
Writing ==
  {c \in Conns : /\ task[c].at \in {"sending", "telling"} /\ task[c].out # <<>>
                 /\ Sendable(Head(task[c].out)) /\ Len(down[c].frames) < Buffer}

\* What a write leaves in the pipe when the process dies k bytes into it.
Torn(c, k) ==
  LET body == Head(task[c].out)
  IN IF k = 0 THEN down[c]
     ELSE Pushed(down[c], [FrameOf(body, BodyLen(body)) EXCEPT !.bytes = k])

\* The process ends, after a shutdown or in the middle of anything.
Exit ==
  /\ daemon # "exited"
  /\ daemon' = "exited"
  /\ queue' = <<>>
  /\ \E k \in [Writing -> 0 .. PrefixLen] :
       down' = [c \in Conns |-> Shut(IF c \in Writing THEN Torn(c, k[c]) ELSE down[c])]
  /\ task' = [c \in Conns |-> [NoTask EXCEPT !.at = "ended"]]
  /\ subs' = [c \in Conns |-> NoSub]
  /\ core' = NoCore
  /\ UNCHANGED <<call, up, seen, missed>>

-----------------------------------------------------------------------------
Init ==
  /\ \E asked \in Scripts :
       call = [c \in Conns |-> [at |-> "idle", asked |-> asked[c], filled |-> 0,
                                got |-> <<>>, end |-> ""]]
  /\ up = [c \in Conns |-> [frames |-> <<>>, shut |-> FALSE]]
  /\ down = up
  /\ task = [c \in Conns |-> NoTask]
  /\ queue = <<>>
  /\ subs = [c \in Conns |-> NoSub]
  /\ core = [chain |-> <<Genesis>>, orphans |-> <<>>, minted |-> Genesis.digest]
  /\ daemon = "up"
  /\ seen = [c \in Conns |-> [wrote |-> <<>>, beside |-> {}, picked |-> <<>>,
                             head |-> 0, unsent |-> FALSE]]
  /\ missed = [c \in Conns |-> 0]

Task(c) ==
  \/ Accept(c) \/ TaskReads(c) \/ Ask(c) \/ Gone(c)
  \/ TaskWrites(c) \/ TaskSent(c) \/ Notify(c) \/ HungUp(c)

Client(c) ==
  \/ Connect(c) \/ ConnectCut(c) \/ ConnectFails(c)
  \/ ClientPolls(c) \/ HangUp(c)

Next ==
  \/ \E c \in Conns : Client(c) \/ Task(c)
  \/ Turn \/ PeerInserts \/ Shutdown \/ Exit

\* A spawned task runs and the mainloop serves its queue; a program that
\* awaits its call polls it; a daemon whose mainloop returned exits.
Spec ==
  /\ Init /\ [][Next]_vars
  /\ \A c \in Conns : WF_vars(ClientPolls(c)) /\ WF_vars(Task(c))
  /\ WF_vars(Turn)
  /\ WF_vars(daemon = "down" /\ Exit)

-----------------------------------------------------------------------------
(* Properties.                                                             *)

\* What a client is told of its write is what became of it: answered, the
\* envelope named went onto the chain and no other did; refused, or never
\* understood, none did.  However the call ends, at most one did
\* (Rpc::write, Error::is_rejected).
WritesAsTold ==
  \A c \in Conns : call[c].asked.type \in Writes =>
    LET ended == call[c].end
        last  == Last(call[c].got)
    IN /\ Len(seen[c].wrote) <= 1
       /\ ended = "Ok" => seen[c].wrote = <<last.digest>>
       /\ (ended = "Failed" /\ last.kind = "Rejected") => seen[c].wrote = <<>>
       /\ ended \in {"Connect", "FrameTooLarge"} => seen[c].wrote = <<>>

\* The envelopes a client has been handed are a prefix of what the mainloop
\* picked out in one trip, whatever was inserted, reorganised or pruned
\* since, and a stream that ends between frames is all of it, unless the
\* daemon died or a frame could not be sent (Rpc::envelopes).  For a chain walk
\* that is a contiguous run that ends at the head it was read at and is no
\* longer than its limit (Core::canonical_chain).
PrefixOfAnswer ==
  \A c \in Conns :
    /\ call[c].asked.type = "GetEnvelopes" =>
         LET got == IF call[c].end = "Failed" THEN Front(call[c].got) ELSE call[c].got
         IN /\ IsPrefix(got, seen[c].picked)
            /\ (call[c].end = "none" /\ daemon # "exited" /\ ~seen[c].unsent)
                 => got = seen[c].picked
    /\ \A q \in task[c].req :
         (q.type = "GetEnvelopes" /\ "limit" \in DOMAIN q /\ seen[c].picked # <<>>) =>
           LET run == seen[c].picked
           IN /\ \A l \in q.limit : Len(run) <= l
              /\ Last(run).digest = seen[c].head
              /\ \A i \in 2 .. Len(run) :
                   \A e \in ToSet(core.chain \o core.orphans) :
                     e.digest = run[i].digest => e.prev = run[i - 1].digest

\* The watch at w has told its client everything it has to tell.
Quiet(w) ==
  /\ call[w].at = "open" /\ task[w].at = "watching"
  /\ subs[w].pending = <<>> /\ down[w].frames = <<>>
  /\ daemon = "up"

\* The store failed under a movement that was for the watch at w, after r read:
\* the program is told of it neither then nor later.
Overlooked(w, r) == missed[w] > call[r].got[1].head

\* A program that reads a value while its watch is registered, and is told
\* of no head but the one it read at, holds the value of the head: no change
\* goes unseen between the read and the watch (lotus_sdk's crate docs), as
\* long as the store failed under none that was for the watch (Core::insert).
WatchedIsFresh ==
  \A w, r \in Conns :
    LET watch == call[w].asked
        read  == call[r].asked
    IN (/\ watch.type = "Watch" /\ Quiet(w)
        /\ read.type = "Read" /\ call[r].end = "Ok" /\ w \in seen[r].beside
        /\ watch.select = "Head" \/ (watch.select = "Namespace" /\ watch.key = read.key)
        /\ \A i \in DOMAIN call[w].got : call[w].got[i].head = call[r].got[1].head
        /\ ~Overlooked(w, r))
       => ReadValue(core, read) = call[r].got[1].value

\* A call ends without an answer only when the daemon died under it or the
\* answer did not fit a frame, and an answer that was cut short is never
\* taken for the regular end of the stream (serve, Reader::poll_read).
Told ==
  \A c \in Conns :
    LET ended == call[c].end
    IN /\ ended = "NoResponse" => daemon = "exited" \/ seen[c].unsent
       /\ ended = "IO" => daemon # "up" \/ call[c].asked = Unknown
       /\ ended = "Truncated" => daemon = "exited"
       /\ ended \in {"NoResponse", "none"} => down[c].frames = <<>>
       /\ ended # "UnexpectedResponse"

\* Every call but a watch comes to an end, and a client that goes away frees
\* its subscription, though the chain may never move again (serve: "is watched
\* for rather than discovered on the next write").
CallsEnd ==
  \A c \in Conns :
    (\/ call[c].at = "open" /\ call[c].asked.type # "Watch"
     \/ call[c].at = "ended" /\ subs[c].live)
      ~> (call[c].at = "ended" /\ ~subs[c].live)
=============================================================================

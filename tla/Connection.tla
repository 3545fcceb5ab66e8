----------------------------- MODULE Connection -----------------------------
(***************************************************************************)
(* A connection to one peer: src/src/connection.rs, on top of              *)
(* YamuxMultistream, with the timers of src/src/utils/timers.rs as the     *)
(* queues that Timers specifies.                                           *)
(*                                                                         *)
(* The user's code and next() alternate (at):                              *)
(*   "Out"    the user runs, and calls request(), subscribe(), ...;        *)
(*   "Head"   next_inner is at the top of its loop;                        *)
(*   "Await"  it waits for the layer below, and may be dropped there.      *)
(***************************************************************************)
EXTENDS YamuxMultistream

CONSTANTS
    RequestProtocols,       \* request_details, in their order
    SubscriptionProtocols,
    AllowInbound,           \* the protocols with allow_inbound
    Timed,                  \* the request protocols with a timeout
    MaxSize,                \* max_response_size_in_bytes
    OurHandshake,
    ValidHandshakes,        \* what validate_their_handshake accepts
    RequestPayload, ResponsePayload, NotificationPayload,
    MaxBuffered             \* bound: messages in next_buf

RequestNames == {RequestProtocols[i] : i \in DOMAIN RequestProtocols}

ASSUME ConnectionConstants ==
    /\ RequestProtocols \in Seq(Protocols)
    /\ SubscriptionProtocols \subseteq Protocols \ RequestNames
    /\ AllowInbound \subseteq Protocols
    /\ Timed \subseteq RequestNames
    /\ MaxSize \in Nat
    /\ ValidHandshakes \subseteq Payloads
    /\ {OurHandshake, RequestPayload, ResponsePayload, NotificationPayload} \subseteq Payloads

RequestStates == {"AwaitingProtocolConfirmation", "AwaitingResponsePayload"}

SubscriptionStreamState ==
    [state : {"Handshake", "Open"}, stream_id : StreamIds] \cup [state : {"Closed"}, stream_id : {0}]

Closed        == [state |-> "Closed", stream_id |-> 0]
Handshake(id) == [state |-> "Handshake", stream_id |-> id]
Open(id)      == [state |-> "Open", stream_id |-> id]

Response(id, res)     == [kind |-> "Response", id |-> id, protocol_id |-> HEADER, res |-> res]
Request(id, req)      == [kind |-> "Request", id |-> id, protocol_id |-> HEADER, res |-> req]
Notification(p, note) == [kind |-> "Notification", id |-> 0, protocol_id |-> p, res |-> note]

Results == {"Value", "Cancelled", "Timeout", "ProtocolRejected", "ClosedByRemote",
            "RemotePayloadTooLarge", "MultistreamProtocolError", "ErrorPayloadTooLarge",
            "Opened", "Closed", "OurHandshakeRejected", "TheirHandshakeRejected"}

UserMessages == [kind        : {"Response", "Request", "Notification"},
                 id          : StreamIds \cup {0},
                 protocol_id : Protocols \cup {HEADER},
                 res         : Results]

VARIABLES
    at,                 \* where next() is
    inflight_requests,  \* id -> its protocol and state
    incoming_requests,  \* id -> its protocol
    our_stream,         \* of each subscription protocol
    their_stream,
    next_buf,
    timeouts,           \* of each request protocol: the ids of its timers, oldest first
    elapsed,            \* the ids whose sleep is over
    returned,           \* what next() has just given the user
    requested,          \* history: the RequestIds that request() returned
    responses,          \* history: how many responses each of them had
    response_ids        \* history: the ResponseIds that the user has

cvars == <<at, inflight_requests, incoming_requests, our_stream, their_stream, next_buf,
           timeouts, elapsed, returned, requested, responses, response_ids>>

vars == <<mvars, cvars>>

Init ==
    /\ MultistreamInit
    /\ at = "Out"
    /\ inflight_requests = <<>>
    /\ incoming_requests = <<>>
    /\ our_stream = [p \in SubscriptionProtocols |-> Closed]
    /\ their_stream = [p \in SubscriptionProtocols |-> Closed]
    /\ next_buf = <<>>
    /\ timeouts = [p \in RequestNames |-> <<>>]
    /\ elapsed = {}
    /\ returned = <<>>
    /\ requested = {}
    /\ responses = [id \in StreamIds |-> 0]
    /\ response_ids = {}

-----------------------------------------------------------------------------
(* Calls of the user *)

UserCalls ==
    /\ at = "Out"
    /\ ~ended
    /\ UNCHANGED <<read_from_stream_buffer, parsing, out, events, at, incoming_requests, elapsed,
                   returned, responses, response_ids>>

request(p) ==
    /\ UserCalls
    /\ open_stream(<<p>>, MaxSize)
    /\ timeouts' = IF p \in Timed THEN [timeouts EXCEPT ![p] = Append(@, next_stream_id)] ELSE timeouts
    /\ inflight_requests' = Put(inflight_requests, next_stream_id,
                                [protocol_id |-> p, state |-> "AwaitingProtocolConfirmation"])
    /\ requested' = requested \cup {next_stream_id}
    /\ UNCHANGED <<our_stream, their_stream, next_buf>>

\* Mutant: the cancelled request stays in flight.
cancel_request_Kept(id) ==
    /\ UserCalls
    /\ id \in DOMAIN inflight_requests
    /\ reset_stream_immediately(id)
    /\ next_buf' = Append(next_buf, Response(id, "Cancelled"))
    /\ UNCHANGED <<sent, inflight_requests, our_stream, their_stream, timeouts, requested>>

\* Mutant: the stream of the cancelled request is not reset.
cancel_request_NoReset(id) ==
    /\ UserCalls
    /\ id \in DOMAIN inflight_requests
    /\ inflight_requests' = Without(inflight_requests, {id})
    /\ next_buf' = Append(next_buf, Response(id, "Cancelled"))
    /\ KeepService
    /\ UNCHANGED <<bufs, sent, our_stream, their_stream, timeouts, requested>>

cancel_request(id) ==
    /\ UserCalls
    /\ id \in DOMAIN inflight_requests
    /\ inflight_requests' = Without(inflight_requests, {id})
    /\ reset_stream_immediately(id)
    /\ next_buf' = Append(next_buf, Response(id, "Cancelled"))
    /\ UNCHANGED <<sent, our_stream, their_stream, timeouts, requested>>

respond(id) ==
    /\ UserCalls
    /\ id \in response_ids
    /\ IF CanSend(id) THEN SendOn(id, <<ResponsePayload>>) ELSE UNCHANGED sent
    /\ close_stream(id)
    /\ UNCHANGED <<inflight_requests, our_stream, their_stream, next_buf, timeouts, requested>>

subscribe(p) ==
    /\ UserCalls
    /\ our_stream[p] = Closed
    /\ open_stream(<<p>>, MaxSize)
    /\ our_stream' = [our_stream EXCEPT ![p] = Handshake(next_stream_id)]
    /\ UNCHANGED <<inflight_requests, their_stream, next_buf, timeouts, requested>>

send_notification(p) ==
    /\ UserCalls
    /\ our_stream[p].state = "Open"
    /\ Len(sent[our_stream[p].stream_id]) < MaxSent
    /\ send_data(our_stream[p].stream_id, NotificationPayload)
    /\ KeepService
    /\ UNCHANGED <<bufs, inflight_requests, our_stream, their_stream, next_buf, timeouts, requested>>

\* Mutant: the stream that the remote opened stays open.
cancel_subscription_silently_OursOnly(p) ==
    /\ reset_streams({our_stream[p].stream_id} \ {0})
    /\ our_stream' = [our_stream EXCEPT ![p] = Closed]
    /\ their_stream' = [their_stream EXCEPT ![p] = Closed]

cancel_subscription_silently(p) ==
    /\ reset_streams({our_stream[p].stream_id, their_stream[p].stream_id} \ {0})
    /\ our_stream' = [our_stream EXCEPT ![p] = Closed]
    /\ their_stream' = [their_stream EXCEPT ![p] = Closed]

cancel_subscription(p) ==
    /\ UserCalls
    /\ Len(next_buf) < MaxBuffered
    /\ cancel_subscription_silently(p)
    /\ next_buf' = Append(next_buf, Notification(p, "Closed"))
    /\ UNCHANGED <<sent, inflight_requests, timeouts, requested>>

-----------------------------------------------------------------------------
(* The top of next_inner's loop *)

\* next() returns m.
Give(m) ==
    /\ at' = "Out"
    /\ returned' = <<m>>
    /\ responses' = IF m.kind = "Response" THEN [responses EXCEPT ![m.id] = @ + 1] ELSE responses
    /\ response_ids' = IF m.kind = "Request" THEN response_ids \cup {m.id} ELSE response_ids
    /\ UNCHANGED requested

\* next_inner goes on to another turn of its loop, or to another place in it.
Goto(place) == at' = place /\ UNCHANGED <<returned, requested, responses, response_ids>>

KeepTables == UNCHANGED <<inflight_requests, incoming_requests, our_stream, their_stream>>

next ==
    /\ at = "Out"
    /\ ~ended
    /\ at' = "Head"
    /\ returned' = <<>>
    /\ KeepTables
    /\ UNCHANGED <<mvars, next_buf, timeouts, elapsed, requested, responses, response_ids>>

next_emit ==
    /\ at = "Head"
    /\ next_buf # <<>>
    /\ next_buf' = Tail(next_buf)
    /\ Give(Head(next_buf))
    /\ KeepTables
    /\ UNCHANGED <<mvars, timeouts, elapsed>>

Elapsed(p) == timeouts[p] # <<>> /\ Head(timeouts[p]) \in elapsed

\* Mutant: only a request that was sent can time out.
TimedOut_OnlySent ==
    {i \in DOMAIN RequestProtocols :
        /\ Elapsed(RequestProtocols[i])
        /\ Head(timeouts[RequestProtocols[i]]) \in DOMAIN inflight_requests
        /\ inflight_requests[Head(timeouts[RequestProtocols[i]])].state = "AwaitingResponsePayload"}

\* The places of request_details where a timer is over and its request not.
TimedOut ==
    {i \in DOMAIN RequestProtocols :
        /\ Elapsed(RequestProtocols[i])
        /\ Head(timeouts[RequestProtocols[i]]) \in DOMAIN inflight_requests}

\* try_next takes one timer of each protocol, up to the first that timed out.
TakeTimers(last) ==
    timeouts' = [p \in RequestNames |->
                    IF Elapsed(p) /\ \E i \in DOMAIN RequestProtocols : i <= last /\ RequestProtocols[i] = p
                    THEN Tail(timeouts[p])
                    ELSE timeouts[p]]

handle_request_timeouts ==
    /\ at = "Head"
    /\ next_buf = <<>>
    /\ \E first \in TimedOut :
          LET id == Head(timeouts[RequestProtocols[first]])
          IN /\ \A i \in TimedOut : first <= i
             /\ TakeTimers(first)
             /\ inflight_requests' = Without(inflight_requests, {id})
             /\ reset_stream_immediately(id)
             /\ Give(Response(id, "Timeout"))
    /\ UNCHANGED <<sent, read_from_stream_buffer, parsing, out, events, incoming_requests,
                   our_stream, their_stream, next_buf, elapsed>>

next_await ==
    /\ at = "Head"
    /\ next_buf = <<>>
    /\ TimedOut = {}
    /\ TakeTimers(Len(RequestProtocols))
    /\ Goto("Await")
    /\ KeepTables
    /\ UNCHANGED <<mvars, next_buf, elapsed>>

\* The layer below works, and may end the connection.
yamux_next ==
    /\ at = "Await"
    /\ Turn \/ Remote
    /\ Goto(IF ended' THEN "Out" ELSE "Await")
    /\ KeepTables
    /\ UNCHANGED <<next_buf, timeouts, elapsed>>

\* The user drops the future of next() while it waits.
drop_next ==
    /\ at = "Await"
    /\ AtLoopHead
    /\ Goto("Out")
    /\ KeepTables
    /\ UNCHANGED <<mvars, next_buf, timeouts, elapsed>>

\* A sleep is over.  The sleeps of a protocol have one duration.
sleep_ends(p) ==
    /\ \E i \in DOMAIN timeouts[p] :
          /\ timeouts[p][i] \notin elapsed
          /\ \A j \in 1 .. i - 1 : timeouts[p][j] \in elapsed
          /\ elapsed' = elapsed \cup {timeouts[p][i]}
    /\ Goto(at)
    /\ KeepTables
    /\ UNCHANGED <<mvars, next_buf, timeouts>>

-----------------------------------------------------------------------------
(* The rest of the loop: an output of the layer below, by whom it is for *)

OutputIs(states) == out[1].state \in states

Id == out[1].stream_id

Handles ==
    /\ at = "Await"
    /\ out # <<>>
    /\ out' = <<>>
    /\ UNCHANGED <<read_from_stream_buffer, parsing, events, next_buf, timeouts, elapsed>>

KeepStreams == KeepService /\ UNCHANGED <<bufs, sent>>

\* An error of the layer below is returned, and the connection is finished.
Finish == End /\ Goto("Out") /\ KeepTables

Fail == Finish /\ UNCHANGED <<bufs, sent>>

ForRequest == Id \in DOMAIN inflight_requests

on_request_accepted ==
    /\ Handles
    /\ ForRequest
    /\ inflight_requests[Id].state = "AwaitingProtocolConfirmation"
    /\ OutputIs({"OutgoingAccepted"})
    /\ IF CanSend(Id)
       THEN /\ send_data(Id, RequestPayload)
            /\ close_stream(Id)
            /\ inflight_requests' = [inflight_requests EXCEPT ![Id].state = "AwaitingResponsePayload"]
            /\ Goto("Head")
            /\ UNCHANGED <<incoming_requests, our_stream, their_stream>>
       ELSE Fail

RequestResult(state) ==
    CASE state = "AwaitingProtocolConfirmation" /\ OutputIs({"OutgoingRejected"}) -> "ProtocolRejected"
      [] state = "AwaitingResponsePayload" /\ OutputIs({"Data"})                  -> "Value"
      [] state = "AwaitingResponsePayload" /\ OutputIs({"ClosedByRemote"})        -> "ClosedByRemote"
      [] state = "AwaitingResponsePayload" /\ OutputIs({"IncomingMessageTooLarge"})
                                                                                  -> "RemotePayloadTooLarge"
      [] OTHER                                                                    -> "MultistreamProtocolError"

on_request_over ==
    LET state  == inflight_requests[Id].state
        result == RequestResult(state)
    IN /\ Handles
       /\ ForRequest
       /\ ~(state = "AwaitingProtocolConfirmation" /\ OutputIs({"OutgoingAccepted"}))
       /\ inflight_requests' = Without(inflight_requests, {Id})
       /\ reset_streams(IF result \in {"ProtocolRejected", "RemotePayloadTooLarge"} THEN {} ELSE {Id})
       /\ Give(Response(Id, result))
       /\ UNCHANGED <<sent, incoming_requests, our_stream, their_stream>>

ForIncomingRequest == ~ForRequest /\ Id \in DOMAIN incoming_requests

IncomingRequest ==
    CASE OutputIs({"Data"})           -> "Value"
      [] OutputIs({"ClosedByRemote"}) -> "Cancelled"
      [] OTHER                        -> "ErrorPayloadTooLarge"

\* Anything but data and the end of the stream breaks the protocol.
on_incoming_request ==
    /\ Handles
    /\ ForIncomingRequest
    /\ incoming_requests' = Without(incoming_requests, {Id})
    /\ IF OutputIs({"Data", "ClosedByRemote", "IncomingMessageTooLarge"})
       THEN Give(Request(Id, IncomingRequest)) /\ KeepStreams
       ELSE reset_stream_immediately(Id) /\ Goto("Head") /\ UNCHANGED sent
    /\ UNCHANGED <<inflight_requests, our_stream, their_stream>>

ForOurs(p) == ~ForRequest /\ ~ForIncomingRequest /\ our_stream[p].stream_id = Id

SendHandshake == send_data(Id, OurHandshake) /\ KeepService /\ UNCHANGED bufs

on_our_stream_accepted(p) ==
    /\ Handles
    /\ ForOurs(p)
    /\ our_stream[p].state = "Handshake"
    /\ OutputIs({"OutgoingAccepted"})
    /\ IF CanSend(Id)
       THEN SendHandshake /\ Goto("Head") /\ KeepTables
       ELSE Fail

\* Mutant: the user is told as soon as one side is open.
OpenedIf_OneSide(p, other) == Give(Notification(p, "Opened"))

\* Both sides are open: the user is told.
OpenedIf(p, other) ==
    IF other.state = "Open" THEN Give(Notification(p, "Opened")) ELSE Goto("Head")

ValidHandshake == OutputIs({"Data"}) /\ out[1].message \in ValidHandshakes

on_our_handshake(p) ==
    /\ Handles
    /\ ForOurs(p)
    /\ our_stream[p].state = "Handshake"
    /\ ValidHandshake
    /\ our_stream' = [our_stream EXCEPT ![p] = Open(Id)]
    /\ OpenedIf(p, their_stream[p])
    /\ KeepStreams
    /\ UNCHANGED <<inflight_requests, incoming_requests, their_stream>>

\* Why a subscription is over, from what came in on one of its streams.
OurStreamResult(state) ==
    CASE OutputIs({"IncomingMessageTooLarge"})                -> "RemotePayloadTooLarge"
      [] state = "Open" /\ OutputIs({"ClosedByRemote"})       -> "Closed"
      [] state = "Handshake" /\ OutputIs({"ClosedByRemote"})  -> "OurHandshakeRejected"
      [] state = "Handshake" /\ OutputIs({"Data"})            -> "TheirHandshakeRejected"
      [] state = "Handshake" /\ OutputIs({"OutgoingRejected"}) -> "ProtocolRejected"
      [] OTHER                                                -> "MultistreamProtocolError"

TheirStreamResult(state) ==
    CASE OutputIs({"IncomingMessageTooLarge"})     -> "RemotePayloadTooLarge"
      [] OutputIs({"ClosedByRemote"})              -> "Closed"
      [] state = "Handshake" /\ OutputIs({"Data"}) -> "TheirHandshakeRejected"
      [] OTHER                                     -> "MultistreamProtocolError"

SubscriptionOver(p, result) ==
    /\ cancel_subscription_silently(p)
    /\ Give(Notification(p, result))
    /\ UNCHANGED <<sent, inflight_requests, incoming_requests>>

on_our_stream_over(p) ==
    /\ Handles
    /\ ForOurs(p)
    /\ our_stream[p].state = "Handshake" => ~OutputIs({"OutgoingAccepted"}) /\ ~ValidHandshake
    /\ SubscriptionOver(p, OurStreamResult(our_stream[p].state))

\* A proposal of the protocol counts, whichever stream it comes on.
ForTheirs(p) ==
    /\ ~ForRequest
    /\ ~ForIncomingRequest
    /\ \A q \in SubscriptionProtocols : ~ForOurs(q)
    /\ \/ their_stream[p].stream_id = Id
       \/ OutputIs({"IncomingProtocol"}) /\ out[1].message = p

on_subscription_unwanted(p) ==
    /\ Handles
    /\ ForTheirs(p)
    /\ their_stream[p] = Closed
    /\ p \notin AllowInbound
    /\ our_stream[p] = Closed
    /\ reset_stream_immediately(Id)
    /\ Goto("Head")
    /\ KeepTables
    /\ UNCHANGED sent

on_subscription_proposed(p) ==
    /\ Handles
    /\ ForTheirs(p)
    /\ their_stream[p] = Closed
    /\ our_stream[p] # Closed
    /\ accept_protocol(Id, MaxSize)
    /\ IF CanReply(Id)
       THEN /\ their_stream' = [their_stream EXCEPT ![p] = Handshake(Id)]
            /\ KeepService
            /\ Goto("Head")
            /\ UNCHANGED <<inflight_requests, incoming_requests, our_stream>>
       ELSE Finish

\* The same, and our side is opened too.
on_subscription_opened_by_remote(p) ==
    /\ Handles
    /\ ForTheirs(p)
    /\ their_stream[p] = Closed
    /\ p \in AllowInbound
    /\ our_stream[p] = Closed
    /\ IF CanReply(Id)
       THEN /\ OpenStream
            /\ bufs' = Put([bufs EXCEPT ![Id].state = "Open", ![Id].max_buffer_size = MaxSize],
                           next_stream_id, NewOutgoing(<<p>>, MaxSize))
            /\ sent' = [sent EXCEPT ![Id] = Append(@, p), ![next_stream_id] = <<HEADER, p>>]
            /\ their_stream' = [their_stream EXCEPT ![p] = Handshake(Id)]
            /\ our_stream' = [our_stream EXCEPT ![p] = Handshake(next_stream_id)]
            /\ Goto("Head")
            /\ UNCHANGED <<inflight_requests, incoming_requests>>
       ELSE accept_protocol(Id, MaxSize) /\ Finish

on_their_handshake(p) ==
    /\ Handles
    /\ ForTheirs(p)
    /\ their_stream[p].state = "Handshake"
    /\ ValidHandshake
    /\ IF CanSend(Id)
       THEN /\ SendHandshake
            /\ their_stream' = [their_stream EXCEPT ![p] = Open(Id)]
            /\ OpenedIf(p, our_stream[p])
            /\ UNCHANGED <<inflight_requests, incoming_requests, our_stream>>
       ELSE Fail

on_notification(p) ==
    /\ Handles
    /\ ForTheirs(p)
    /\ their_stream[p].state = "Open"
    /\ OutputIs({"Data"})
    /\ Give(Notification(p, "Value"))
    /\ KeepStreams
    /\ KeepTables

on_their_stream_over(p) ==
    /\ Handles
    /\ ForTheirs(p)
    /\ their_stream[p] # Closed
    /\ IF their_stream[p].state = "Open" THEN ~OutputIs({"Data"}) ELSE ~ValidHandshake
    /\ SubscriptionOver(p, TheirStreamResult(their_stream[p].state))

ForNobodyYet ==
    /\ ~ForRequest
    /\ ~ForIncomingRequest
    /\ \A p \in SubscriptionProtocols : ~ForOurs(p) /\ ~ForTheirs(p)

WantedRequest == OutputIs({"IncomingProtocol"}) /\ out[1].message \in RequestNames \cap AllowInbound

on_request_proposed ==
    /\ Handles
    /\ ForNobodyYet
    /\ WantedRequest
    /\ accept_protocol(Id, MaxSize)
    /\ IF CanReply(Id)
       THEN /\ incoming_requests' = Put(incoming_requests, Id, out[1].message)
            /\ KeepService
            /\ Goto("Head")
            /\ UNCHANGED <<inflight_requests, our_stream, their_stream>>
       ELSE Finish

on_unknown_protocol ==
    /\ Handles
    /\ ForNobodyYet
    /\ OutputIs({"IncomingProtocol"})
    /\ ~WantedRequest
    /\ reject_protocol(Id)
    /\ IF CanReply(Id) THEN KeepService /\ Goto("Head") /\ KeepTables ELSE Finish

on_unknown_stream ==
    /\ Handles
    /\ ForNobodyYet
    /\ ~OutputIs({"IncomingProtocol"})
    /\ reset_streams(IF OutputIs({"ClosedByRemote", "IncomingMessageTooLarge"}) THEN {} ELSE {Id})
    /\ Goto("Head")
    /\ KeepTables
    /\ UNCHANGED sent

-----------------------------------------------------------------------------

Calls ==
    \/ \E p \in RequestNames : request(p)
    \/ \E id \in StreamIds : cancel_request(id) \/ respond(id)
    \/ \E p \in SubscriptionProtocols :
          subscribe(p) \/ send_notification(p) \/ cancel_subscription(p)

LoopHead == next_emit \/ handle_request_timeouts \/ next_await

OnOutput ==
    \/ on_request_accepted
    \/ on_request_over
    \/ on_incoming_request
    \/ on_request_proposed
    \/ on_unknown_protocol
    \/ on_unknown_stream
    \/ \E p \in SubscriptionProtocols :
          \/ on_our_stream_accepted(p)
          \/ on_our_handshake(p)
          \/ on_our_stream_over(p)
          \/ on_subscription_unwanted(p)
          \/ on_subscription_proposed(p)
          \/ on_subscription_opened_by_remote(p)
          \/ on_their_handshake(p)
          \/ on_notification(p)
          \/ on_their_stream_over(p)

Next ==
    \/ Calls
    \/ next
    \/ LoopHead
    \/ yamux_next
    \/ OnOutput
    \/ drop_next
    \/ \E p \in Timed : sleep_ends(p)

Spec == Init /\ [][Next]_vars

\* The user calls next() again and again and lets it run; the remote may be
\* silent, but timers elapse.
Polled ==
    /\ WF_vars(next)
    /\ WF_vars(LoopHead)
    /\ WF_vars(OnOutput)
    /\ WF_vars(at = "Await" /\ yamux_next /\ (parsing # 0 \/ read_from_stream_buffer # 0))
    /\ \A p \in Timed : WF_vars(sleep_ends(p))

PolledSpec == Spec /\ Polled

-----------------------------------------------------------------------------
(* Properties *)

\* Every request is in flight, or has had exactly one response, or has one
\* waiting in next_buf: answers, refusals, closes, timeouts and cancellations
\* race for it, and one of them wins (request: "exactly one", 319-320).
OneResponse ==
    \A id \in StreamIds :
        LET places  == {i \in DOMAIN next_buf : next_buf[i].kind = "Response" /\ next_buf[i].id = id}
            waiting == IF places # {} THEN 1 ELSE 0
            pending == IF id \in DOMAIN inflight_requests THEN 1 ELSE 0
        IN /\ \A i, j \in places : i = j
           /\ responses[id] + waiting + pending = IF id \in requested THEN 1 ELSE 0

SubscriptionStreams(p) == {our_stream[p].stream_id, their_stream[p].stream_id} \ {0}

\* No stream has two uses: next_inner finds out whom an output is for by looking
\* through its tables in turn (539, 635, 671, 784), so a stream in two of them
\* would be taken for the wrong one.
RolesDisjoint ==
    /\ DOMAIN inflight_requests \cap DOMAIN incoming_requests = {}
    /\ \A p \in SubscriptionProtocols :
          /\ SubscriptionStreams(p) \cap (DOMAIN inflight_requests \cup DOMAIN incoming_requests) = {}
          /\ our_stream[p].stream_id # 0 => our_stream[p].stream_id # their_stream[p].stream_id
          /\ \A q \in SubscriptionProtocols \ {p} : SubscriptionStreams(p) \cap SubscriptionStreams(q) = {}

\* Every stream has one use.  One that is open for data, or that we are
\* negotiating, is in one of the tables, or the user can still answer on it:
\* whatever ends a request or a subscription closes its streams too, so no
\* stream is left open for nobody; and none is in two of the tables.  Once the
\* connection is over its streams are nobody's: an accept_protocol that failed
\* leaves one open that is in no table.
OpenStreamsOwned ==
    /\ RolesDisjoint
    /\ \A id \in DOMAIN bufs :
          ~ended /\ bufs[id].state \in {"Open", "OutgoingProtocolWaitingForAccept"} =>
              \/ id \in DOMAIN inflight_requests \cup DOMAIN incoming_requests \cup response_ids
              \/ \E p \in SubscriptionProtocols : id \in SubscriptionStreams(p)

HandshakeSent(p, id) ==
    /\ sent[id] # <<>> /\ sent[id][1] = HEADER
    /\ \E i \in DOMAIN sent[id] \ {1} : sent[id][i] = OurHandshake /\ sent[id][i - 1] = p

OpensAfterHandshakes ==
    \A p \in SubscriptionProtocols :
        at # "Out" /\ returned' = <<Notification(p, "Opened")>> =>
            /\ our_stream'[p].state = "Open" /\ HandshakeSent(p, our_stream[p].stream_id)'
            /\ their_stream'[p].state = "Open" /\ HandshakeSent(p, their_stream[p].stream_id)'

\* When the user is told that a subscription is open, it has two streams, and
\* our handshake went out on both, right after the protocol was agreed there.
OpenedAfterHandshakes == [][OpensAfterHandshakes]_vars

\* A request whose time is over is answered, if next() keeps being called:
\* with_timeout, "then an error will be returned instead" (protocol.rs, 80-81).
TimeoutHonoured ==
    \A id \in StreamIds :
        id \in elapsed /\ id \in DOMAIN inflight_requests ~> responses[id] > 0 \/ ended

\* A request with a timeout has its timer as long as it is in flight, so that
\* something is left to end it also when the layer below resets its stream
\* without notice (yamux_multistream.rs, 409): try_next takes the timers of a
\* protocol from the front, those of requests that were answered included, and
\* whoever's timer is taken must be done (946-955).
TimerOutlivesRequest ==
    \A id \in DOMAIN inflight_requests :
        LET p == inflight_requests[id].protocol_id
        IN p \in Timed => \E i \in DOMAIN timeouts[p] : timeouts[p][i] = id

=============================================================================

-------------------------- MODULE ConnectionFacts --------------------------
(***************************************************************************)
(* Facts about YamuxMultistream and Connection that their proofs share.    *)
(***************************************************************************)
EXTENDS ConnectionInvariants, TLAPS

-----------------------------------------------------------------------------
(* The layer below *)

\* Two facts about sequences.
LEMMA EmptyWhenNoLength ==
    ASSUME NEW S, NEW s \in Seq(S)
    PROVE  s = <<>> <=> Len(s) = 0
OBVIOUS

LEMMA AppendedIsJoined ==
    ASSUME NEW S, NEW s \in Seq(S), NEW e \in S
    PROVE  Append(s, e) = s \o <<e>>
OBVIOUS

LEMMA AlternateTail ==
    ASSUME NEW s \in Seq(Tokens), s # <<>>, Alternate(s)
    PROVE  /\ Tail(s) \in Seq(Tokens)
           /\ Alternate(Tail(s))
           /\ Tail(s) # <<>> <=> Len(s) > 1
           /\ Len(s) > 1 => Tail(s)[1] = s[2] /\ (s[1] = LEN <=> s[2] \notin {LEN, BADLEN})
<1> DEFINE t == Tail(s)
<1>1. Len(s) \in Nat \ {0}
    OBVIOUS
<1>2. t \in Seq(Tokens) /\ Len(t) = Len(s) - 1
    OBVIOUS
<1>3. \A i \in 1 .. Len(t) : t[i] = s[i + 1]
    BY <1>1
<1> HIDE DEF t
<1>4. t # <<>> <=> Len(t) > 0
  <2>1. t = <<>> => Len(t) = 0
      BY EmptyWhenNoLength
  <2>2. t # <<>> => Len(t) \in Nat \ {0}
      BY <1>2, EmptyWhenNoLength
  <2> QED
      BY <2>1, <2>2
<1>5. Alternate(t)
  <2> SUFFICES ASSUME NEW i \in 1 .. Len(t) - 1
               PROVE  t[i] # BADLEN /\ (t[i] = LEN <=> t[i + 1] \notin {LEN, BADLEN})
      BY DEF Alternate
  <2>1. i + 1 \in 1 .. Len(s) - 1 /\ i \in 1 .. Len(t) /\ i + 1 \in 1 .. Len(t)
      BY <1>1, <1>2
  <2>2. s[i + 1] # BADLEN /\ (s[i + 1] = LEN <=> s[(i + 1) + 1] \notin {LEN, BADLEN})
      BY <2>1 DEF Alternate
  <2>3. t[i] = s[i + 1] /\ t[i + 1] = s[(i + 1) + 1]
      BY <1>3, <2>1
  <2> QED
      BY <2>2, <2>3
<1>6. ASSUME Len(s) > 1
      PROVE  t[1] = s[2] /\ (s[1] = LEN <=> s[2] \notin {LEN, BADLEN})
  <2>1. 1 \in 1 .. Len(t) /\ 1 \in 1 .. Len(s) - 1
      BY <1>1, <1>2, <1>6
  <2>2. t[1] = s[1 + 1] /\ (s[1] = LEN <=> s[1 + 1] \notin {LEN, BADLEN})
      BY <1>3, <2>1 DEF Alternate
  <2> QED
      BY <2>2
<1> QED
    BY <1>1, <1>2, <1>4, <1>5, <1>6 DEF t

\* MultistreamFrameBuffer::next yields a message and leaves the rest in step.
LEMMA AfterMessageFramed ==
    ASSUME NEW b \in Multistream, Framed(b), HasMessage(b)
    PROVE  /\ AfterMessage(b) \in Multistream
           /\ Framed(AfterMessage(b))
           /\ Message(b) \in Messages
<1> DEFINE s == b.buffer
           t == IF b.needs = "Body" THEN Tail(s) ELSE Tail(Tail(s))
           c == AfterMessage(b)
<1>0. Alternate(s)
    BY DEF Framed
<1>1. /\ s \in Seq(Tokens)
      /\ s # <<>>
      /\ Len(s) \in Nat \ {0}
    BY DEF HasMessage, Multistream
<1>2. Message(b) \in Tokens \ {LEN, BADLEN}
    BY <1>1 DEF Framed, HasMessage, Message, Alternate, Multistream
<1>3. /\ t \in Seq(Tokens)
      /\ Alternate(t)
      /\ t # <<>> => t[1] \in {LEN, BADLEN}
  <2>1. CASE b.needs = "Body"
    <3>1. s[1] # LEN /\ t = Tail(s)
        BY <1>1, <2>1 DEF Framed
    <3> HIDE DEF s, t
    <3> QED
        BY <1>0, <1>1, <3>1, AlternateTail
  <2>2. CASE b.needs = "Len"
    <3>1. Len(s) > 1 /\ s[1] = LEN /\ t = Tail(Tail(s))
        BY <2>2 DEF HasMessage
    <3> HIDE DEF s, t
    <3> DEFINE u == Tail(s)
    <3>2. u \in Seq(Tokens) /\ Alternate(u) /\ u # <<>> /\ u[1] \notin {LEN, BADLEN}
        BY <1>0, <1>1, <3>1, AlternateTail
    <3> HIDE DEF u
    <3>3. t = Tail(u)
        BY <3>1 DEF u
    <3> QED
        BY <3>2, <3>3, AlternateTail
  <2> QED
      BY <2>1, <2>2 DEF Multistream
<1> HIDE DEF t
<1>4. c \in Multistream /\ c.buffer = t /\ c.needs = "Len"
    BY <1>3 DEF AfterMessage, Multistream, t
<1> HIDE DEF c
<1>5. Framed(c)
    BY <1>3, <1>4 DEF Framed
<1> QED
    BY <1>2, <1>4, <1>5 DEF Tokens, c

LEMMA SendType ==
    ASSUME sent \in [StreamIds -> Seq(Messages)], NEW id \in StreamIds,
           NEW messages \in Seq(Messages), SendOn(id, messages)
    PROVE  /\ sent' \in [StreamIds -> Seq(Messages)]
           /\ sent'[id] = sent[id] \o messages
           /\ \A x \in StreamIds \ {id} : sent'[x] = sent[x]
BY DEF SendOn

LEMMA AfterMessageFields ==
    ASSUME NEW b \in Multistream
    PROVE  LET c == AfterMessage(b)
           IN  c.state = b.state /\ c.protocol = b.protocol /\ c.rest = b.rest
BY DEF AfterMessage, Multistream

\* The stream whose buffer a turn looks at, its entry, and the entry without the
\* message.
LEMMA Parsed ==
    ASSUME MultistreamInv, NEW states, Parse(states)
    PROVE  \E id \in DOMAIN bufs, b \in Multistream, c \in Multistream :
              /\ parsing = id /\ parsing' = 0 /\ KeepReading /\ id \in StreamIds
              /\ b = bufs[id] /\ b.state \in states
              /\ c = AfterMessage(b) /\ Framed(c)
              /\ c.state = b.state /\ c.protocol = b.protocol /\ c.rest = b.rest
              /\ Msg = Message(b) /\ Msg \in Messages
              /\ b.state \in IncomingStates => ~Ours(id)
              /\ b.state = Outgoing => Ours(id)
<1>1. PICK id \in DOMAIN bufs : parsing = id
    BY DEF MultistreamInv, StreamsKnown, Parse
<1>2. PICK b \in Multistream : b = bufs[id] /\ Framed(b) /\ Negotiating(id)
    BY DEF MultistreamInv, Entries
<1>3. HasMessage(b) /\ b.state \in states
    BY <1>1, <1>2 DEF Parse
<1>4. AfterMessage(b) \in Multistream /\ Framed(AfterMessage(b)) /\ Message(b) \in Messages
    BY <1>2, <1>3, AfterMessageFramed
<1>5. PICK c \in Multistream : c = AfterMessage(b)
    BY <1>4
<1>6. c.state = b.state /\ c.protocol = b.protocol /\ c.rest = b.rest
    BY <1>5, AfterMessageFields
<1>7. Msg = Message(b) /\ id \in StreamIds /\ parsing' = 0 /\ KeepReading
    BY <1>1, <1>2 DEF Msg, MultistreamInv, Types, Parse
<1> QED
    BY <1>1, <1>2, <1>3, <1>4, <1>5, <1>6, <1>7 DEF Negotiating

LEMMA CallBetweenTurns ==
    ASSUME MultistreamInv, parsing = 0, UNCHANGED <<read_from_stream_buffer, parsing, out>>
    PROVE  BetweenTurns
BY DEF BetweenTurns, MultistreamInv, Types, OutType

-----------------------------------------------------------------------------
(* The connection *)

LEMMA OutputFacts ==
    ASSUME OutType, out # <<>>
    PROVE  Id \in StreamIds /\ out[1].state \in OutputStates /\ out[1].message \in Messages
BY DEF OutType, Id, Output

LEMMA UserBetweenTurns ==
    ASSUME Base, UserCalls
    PROVE  BetweenTurns /\ out = <<>> /\ ~ended
BY CallBetweenTurns DEF Base, Placed, UserCalls

LEMMA HandlesBetweenTurns ==
    ASSUME Base, Handles
    PROVE  BetweenTurns /\ ~ended /\ parsing = 0 /\ Id \in StreamIds
<1>1. parsing = 0 /\ ~ended
    BY DEF Base, MultistreamInv, Turns, Handles, Placed
<1>2. Id \in StreamIds
    BY OutputFacts DEF Base, MultistreamInv, Types, Handles
<1> QED
    BY <1>1, <1>2 DEF Handles, BetweenTurns, OutType, Base, MultistreamInv, Types

LEMMA ConnectionTypes ==
    /\ RequestNames \subseteq Protocols /\ SubscriptionProtocols \subseteq Protocols
    /\ {OurHandshake, RequestPayload, ResponsePayload, NotificationPayload} \subseteq Messages
    /\ MaxSize \in Nat
    /\ \A p \in Protocols : <<p>> \in Seq(Protocols) \ {<<>>}
<1>1. RequestNames \subseteq Protocols
    BY ConnectionConstants DEF RequestNames
<1>2. \A p \in Protocols : <<p>> \in Seq(Protocols) \ {<<>>}
    OBVIOUS
<1> QED
    BY <1>1, <1>2, ConnectionConstants DEF Messages

LEMMA ResponseMessage ==
    ASSUME NEW id \in StreamIds, NEW res \in Results
    PROVE  Response(id, res) \in UserMessages /\ Response(id, res).kind = "Response" /\ Response(id, res).id = id
BY DEF Response, UserMessages

LEMMA NotificationMessage ==
    ASSUME NEW p \in SubscriptionProtocols, NEW note \in Results
    PROVE  Notification(p, note) \in UserMessages /\ Notification(p, note).kind = "Notification"
BY ConnectionTypes DEF Notification, UserMessages

\* Stream ids only grow.
LEMMA IdsGrow ==
    ASSUME Base, Next
    PROVE  next_stream_id' \in {next_stream_id, next_stream_id + 2}
<1>1. CASE Calls
    BY <1>1 DEF Calls, request, cancel_request, respond, subscribe, send_notification, cancel_subscription,
           cancel_subscription_silently, open_stream, OpenStream, reset_stream_immediately, reset_streams,
           close_stream, Close, KeepService, service
<1>2. CASE next \/ next_emit \/ next_await \/ drop_next \/ \E p \in Timed : sleep_ends(p)
    BY <1>2 DEF next, next_emit, next_await, drop_next, sleep_ends, mvars, service
<1>3. CASE handle_request_timeouts
  <2>1. \E id : reset_streams({id})
      BY <1>3 DEF handle_request_timeouts, reset_stream_immediately
  <2> QED
      BY <2>1 DEF reset_streams
<1>4. CASE yamux_next
  <2>1. CASE Turn
      BY <2>1 DEF Turn, take_buffer, parse_nothing, parse_bad_length, parse_new_incoming, parse_incoming_protocol,
             parse_waiting_for_accept, parse_outgoing_header, parse_outgoing_accepted, parse_outgoing_try_next,
             parse_outgoing_rejected, parse_data, Answer, Emit, Abort, End, KeepService, service,
             reset_stream_immediately, reset_streams
  <2>2. CASE Remote
      BY <2>2 DEF Remote, recv_end, lose, recv_opened, recv_closed, recv_data_too_large, recv_data, End, Lose,
             HandOpened, HandClosed, HandData, reset_stream_immediately, reset_streams
  <2> QED
      BY <1>4, <2>1, <2>2 DEF yamux_next
<1>5. CASE \/ on_request_accepted \/ on_request_over \/ on_incoming_request
           \/ on_request_proposed \/ on_unknown_protocol \/ on_unknown_stream
    BY <1>5 DEF on_request_accepted, on_request_over, on_incoming_request, on_request_proposed,
           on_unknown_protocol, on_unknown_stream, Fail, Finish, End, KeepStreams, KeepService, service,
           close_stream, Close, reset_stream_immediately, reset_streams
<1>6. ASSUME NEW p \in SubscriptionProtocols, OnSubscriptionOutput(p)
      PROVE  next_stream_id' \in {next_stream_id, next_stream_id + 2}
    BY <1>6 DEF OnSubscriptionOutput, on_our_stream_accepted, on_our_handshake, on_our_stream_over,
           on_subscription_unwanted, on_subscription_proposed, on_subscription_opened_by_remote,
           on_their_handshake, on_notification, on_their_stream_over, SubscriptionOver,
           Fail, Finish, End, SendHandshake, KeepStreams, KeepService, service, OpenStream,
           reset_stream_immediately, reset_streams, cancel_subscription_silently
<1> QED
    BY <1>1, <1>2, <1>3, <1>4, <1>5, <1>6 DEF Next, LoopHead, OnOutput, OnSubscriptionOutput

\* A stream service that has ended stays so.
LEMMA EndedStays ==
    ASSUME Base, Next
    PROVE  ended => ended'
<1>1. CASE Calls
    BY <1>1 DEF Calls, request, cancel_request, respond, subscribe, send_notification, cancel_subscription,
           cancel_subscription_silently, open_stream, OpenStream, reset_stream_immediately, reset_streams,
           close_stream, Close, KeepService, service
<1>2. CASE next \/ next_emit \/ next_await \/ drop_next \/ \E p \in Timed : sleep_ends(p)
    BY <1>2 DEF next, next_emit, next_await, drop_next, sleep_ends, mvars, service
<1>3. CASE handle_request_timeouts
  <2>1. \E id : reset_streams({id})
      BY <1>3 DEF handle_request_timeouts, reset_stream_immediately
  <2> QED
      BY <2>1 DEF reset_streams
<1>4. CASE yamux_next
  <2>1. CASE Turn
      BY <2>1 DEF Turn, take_buffer, parse_nothing, parse_bad_length, parse_new_incoming, parse_incoming_protocol,
             parse_waiting_for_accept, parse_outgoing_header, parse_outgoing_accepted, parse_outgoing_try_next,
             parse_outgoing_rejected, parse_data, Answer, Emit, Abort, End, KeepService, service,
             reset_stream_immediately, reset_streams
  <2>2. CASE Remote
      BY <2>2 DEF Remote, recv_end, lose, recv_opened, recv_closed, recv_data_too_large, recv_data, End, Lose,
             HandOpened, HandClosed, HandData, reset_stream_immediately, reset_streams
  <2> QED
      BY <1>4, <2>1, <2>2 DEF yamux_next
<1>5. CASE \/ on_request_accepted \/ on_request_over \/ on_incoming_request
           \/ on_request_proposed \/ on_unknown_protocol \/ on_unknown_stream
    BY <1>5 DEF on_request_accepted, on_request_over, on_incoming_request, on_request_proposed,
           on_unknown_protocol, on_unknown_stream, Fail, Finish, End, KeepStreams, KeepService, service,
           close_stream, Close, reset_stream_immediately, reset_streams
<1>6. ASSUME NEW p \in SubscriptionProtocols, OnSubscriptionOutput(p)
      PROVE  ended => ended'
    BY <1>6 DEF OnSubscriptionOutput, on_our_stream_accepted, on_our_handshake, on_our_stream_over,
           on_subscription_unwanted, on_subscription_proposed, on_subscription_opened_by_remote,
           on_their_handshake, on_notification, on_their_stream_over, SubscriptionOver,
           Fail, Finish, End, SendHandshake, KeepStreams, KeepService, service, OpenStream,
           reset_stream_immediately, reset_streams, cancel_subscription_silently
<1> QED
    BY <1>1, <1>2, <1>3, <1>4, <1>5, <1>6 DEF Next, LoopHead, OnOutput, OnSubscriptionOutput

LEMMA OlderIds ==
    ASSUME Base, Next
    PROVE  next_stream_id' \in Nat /\ \A id \in StreamIds : id < next_stream_id => id < next_stream_id'
<1>1. next_stream_id \in Nat /\ StreamIds \subseteq Nat
    BY StreamServiceConstants DEF Base, MultistreamInv, Types, ServiceType
<1> QED
    BY <1>1, IdsGrow

\* The request that handle_request_timeouts answers.
LEMMA FirstTimedOut ==
    ASSUME handle_request_timeouts
    PROVE  \E first \in TimedOut, id \in DOMAIN inflight_requests :
              /\ first \in Nat
              /\ \A j \in TimedOut : first <= j
              /\ id = Head(timeouts[RequestProtocols[first]])
              /\ TakeTimers(first)
              /\ inflight_requests' = Without(inflight_requests, {id})
              /\ reset_streams({id})
              /\ Give(Response(id, "Timeout"))
<1>1. PICK first \in TimedOut :
          /\ \A j \in TimedOut : first <= j
          /\ TakeTimers(first)
          /\ inflight_requests' = Without(inflight_requests, {Head(timeouts[RequestProtocols[first]])})
          /\ reset_streams({Head(timeouts[RequestProtocols[first]])})
          /\ Give(Response(Head(timeouts[RequestProtocols[first]]), "Timeout"))
    BY Zenon DEF handle_request_timeouts, reset_stream_immediately
<1>2. first \in Nat
    BY ConnectionConstants DEF TimedOut
<1>3. PICK id \in DOMAIN inflight_requests : id = Head(timeouts[RequestProtocols[first]])
    BY DEF TimedOut
<1> QED
    BY <1>1, <1>2, <1>3, Zenon

-----------------------------------------------------------------------------
(* The streams of the connection *)

LEMMA NoOutputBelow ==
    ASSUME MultistreamInv, Turn \/ Remote
    PROVE  out = <<>>
<1>1. CASE Turn
    BY <1>1 DEF MultistreamInv, Turns, Turn, take_buffer, AtLoopHead, parse_nothing, parse_bad_length,
           parse_new_incoming, parse_incoming_protocol, parse_waiting_for_accept, parse_outgoing_header,
           parse_outgoing_accepted, parse_outgoing_try_next, parse_outgoing_rejected, parse_data, Parse
<1>2. CASE Remote
    BY <1>2 DEF Remote, recv_end, lose, recv_opened, recv_closed, recv_data_too_large, recv_data, Receive,
           AtLoopHead
<1> QED
    BY <1>1, <1>2

LEMMA EntryIds ==
    ASSUME NEW id
    PROVE  /\ Closed.stream_id = 0 /\ Closed.state = "Closed"
           /\ Handshake(id).stream_id = id /\ Handshake(id).state = "Handshake"
           /\ Open(id).stream_id = id /\ Open(id).state = "Open"
BY DEF Closed, Handshake, Open

\* A negotiated stream is known, unless its end is what is being handled.
LEMMA HeldMeansKnown ==
    ASSUME Base, OutFits, NEW id, Held(id),
           \/ out = <<>>
           \/ id # Id
           \/ OutputIs({"IncomingProtocol", "Data", "OutgoingAccepted"})
    PROVE  id \in DOMAIN bufs /\ bufs[id].state \in {"Open", "ClosedByUs"}
BY DEF Held, OutFits, OutputIs

\* We are done sending on a stream.
LEMMA ClosedStates ==
    ASSUME Base, NEW id, close_stream(id)
    PROVE  /\ DOMAIN bufs' = DOMAIN bufs
           /\ \A x \in DOMAIN bufs : bufs'[x].state = IF x = id THEN "ClosedByUs" ELSE bufs[x].state
<1>1. CASE id \notin DOMAIN bufs
    BY <1>1 DEF close_stream
<1>2. CASE id \in DOMAIN bufs
  <2>1. PICK b \in Multistream : b = bufs[id]
      BY <1>2 DEF Base, MultistreamInv, Entries
  <2> DEFINE c == [b EXCEPT !.state = "ClosedByUs"]
  <2>2. bufs' = [bufs EXCEPT ![id] = c]
      BY <1>2, <2>1, Zenon DEF close_stream
  <2>3. c.state = "ClosedByUs"
      BY DEF Multistream
  <2> HIDE DEF c
  <2> QED
      BY <2>2, <2>3
<1> QED
    BY <1>1, <1>2

\* A stream that we opened is none of theirs.
LEMMA TheirsOrOurs ==
    ASSUME RolesInv, NEW id \in StreamIds, InOurTables(id)
    PROVE  Ours(id) /\ \A x \in StreamIds : InTheirTables(x) => x # id
BY DEF RolesInv, OurRoles, TheirRoles

\* A stream on which a protocol was just proposed has no use yet.
LEMMA ProposedIsNew ==
    ASSUME Base, RolesInv, out # <<>>, OutputIs({"IncomingProtocol"}), NEW id \in StreamIds, id = Id
    PROVE  /\ id \in DOMAIN bufs /\ bufs[id].state = "NewIncomingProtocolWaitingForAccept"
           /\ ~Ours(id)
           /\ \A x \in StreamIds : InTheirTables(x) =>
                 x # id /\ x \in DOMAIN bufs /\ bufs[x].state \in {"Open", "ClosedByUs"}
<1>1. id \in DOMAIN bufs /\ bufs[id].state = "NewIncomingProtocolWaitingForAccept"
    BY DEF RolesInv, OutFits
<1>2. ~Ours(id)
    BY <1>1 DEF Base, MultistreamInv, Entries, Negotiating, IncomingStates
<1>3. \A x \in StreamIds : InTheirTables(x) => x \in DOMAIN bufs /\ bufs[x].state \in {"Open", "ClosedByUs"}
  <2>1. OutputIs({"IncomingProtocol", "Data", "OutgoingAccepted"})
      BY DEF OutputIs
  <2> QED
      BY <2>1, HeldMeansKnown DEF RolesInv, TheirRoles
<1> QED
    BY <1>1, <1>2, <1>3

\* A proposal on a stream that no subscription has.
LEMMA ProposedOnNew ==
    ASSUME NEW p \in SubscriptionProtocols, NEW id \in StreamIds, id = Id, ForTheirs(p), their_stream[p] = Closed
    PROVE  OutputIs({"IncomingProtocol"}) /\ out[1].message = p
<1>1. their_stream[p].stream_id = 0 /\ id # 0
    BY EntryIds, StreamServiceConstants
<1> QED
    BY <1>1 DEF ForTheirs

=============================================================================

----------------------- MODULE ConnectionInvariants ------------------------
(***************************************************************************)
(* What YamuxMultistream and Connection keep, for the proofs about them.   *)
(***************************************************************************)
EXTENDS Connection

-----------------------------------------------------------------------------
(* The layer below: how its buffers, its turns and its negotiations stand *)

Outgoing == "OutgoingProtocolWaitingForAccept"

IncomingStates == {"NewIncoming", "NewIncomingProtocol", "NewIncomingProtocolWaitingForAccept"}

Drained(b) == ~HasMessage(b) /\ ~HasBadLength(b)

ServiceType ==
    /\ hold \in [StreamIds -> {"none", "open", "closed"}]
    /\ present \in [StreamIds -> BOOLEAN]
    /\ next_stream_id \in Nat /\ Ours(next_stream_id)
    /\ ended \in BOOLEAN

OutType ==
    out = <<>> \/ \E id \in StreamIds, state \in OutputStates, message \in Messages :
                     out = <<Output(id, state, message)>>

Types ==
    /\ ServiceType
    /\ OutType
    /\ DOMAIN bufs \subseteq StreamIds
    /\ sent \in [StreamIds -> Seq(Messages)]
    /\ read_from_stream_buffer \in StreamIds \cup {0}

\* The frame buffer is in step with what arrives: it starts with a prefix when it
\* needs one, with a body otherwise.
Framed(b) ==
    /\ Alternate(b.buffer)
    /\ b.buffer # <<>> => (b.needs = "Len" <=> b.buffer[1] \in {LEN, BADLEN})

\* Who opened the stream decides how it is negotiated; on a stream of ours the
\* protocol under discussion is the last thing that we sent.
Negotiating(id) ==
    /\ bufs[id].state \in IncomingStates => ~Ours(id)
    /\ bufs[id].state = Outgoing => Ours(id)
    /\ bufs[id].state = Outgoing /\ ~ended =>
          /\ sent[id] # <<>>
          /\ sent[id][Len(sent[id])] = bufs[id].protocol

Entries ==
    \A id \in DOMAIN bufs : bufs[id] \in Multistream /\ Framed(bufs[id]) /\ Negotiating(id)

\* A buffer that is not about to be read has nothing to read.
Turns ==
    /\ parsing # 0 => out = <<>> /\ ~ended /\ read_from_stream_buffer = 0
    /\ ~ended => \A id \in DOMAIN bufs \ {parsing, read_from_stream_buffer} : Drained(bufs[id])

MultistreamInv == Types /\ StreamsKnown /\ Entries /\ Turns

BetweenTurns ==
    /\ parsing = 0
    /\ parsing' = 0
    /\ UNCHANGED read_from_stream_buffer
    /\ OutType'

PayloadsLast(s) ==
    \A i \in DOMAIN s :
        s[i] \in Payloads => s[1] = HEADER /\ \E j \in 1 .. i - 1 : s[j] \in Protocols

\* What was sent on a stream, by how far its negotiation has come.
NegotiatedStream(id) ==
    LET s     == sent[id]
        state == bufs[id].state
    IN  /\ s # <<>> => s[1] = HEADER
        /\ state = "NewIncoming" => s = <<>>
        /\ state \notin {"NewIncoming", "ClosedByUs"} /\ ~ended => s # <<>>
        /\ state \notin {"Open", "ClosedByUs"} => \A i \in DOMAIN s : s[i] \notin Payloads
        /\ state = "Open" /\ present[id] => \E j \in DOMAIN s : s[j] \in Protocols
        /\ state = Outgoing => bufs[id].protocol \in Protocols
        /\ PayloadsLast(s)

Negotiated == \A id \in DOMAIN bufs : NegotiatedStream(id)

-----------------------------------------------------------------------------
(* The tables of the connection, and where next_inner is *)

SubscriptionTables ==
    [SubscriptionProtocols -> [state : {"Handshake", "Open", "Closed"}, stream_id : StreamIds \cup {0}]]

Tables ==
    /\ DOMAIN inflight_requests \subseteq StreamIds
    /\ \A id \in DOMAIN inflight_requests :
          inflight_requests[id] \in [protocol_id : RequestNames, state : RequestStates]
    /\ DOMAIN incoming_requests \subseteq StreamIds
    /\ our_stream \in SubscriptionTables
    /\ their_stream \in SubscriptionTables
    /\ timeouts \in [RequestNames -> Seq(StreamIds)]

\* While the user's code runs, and at the top of next_inner's loop, the layer
\* below is at rest.
Placed ==
    /\ at \in {"Out", "Head", "Await"}
    /\ at # "Out" => ~ended
    /\ at # "Await" /\ ~ended => parsing = 0 /\ out = <<>>

Base == MultistreamInv /\ Tables /\ Placed

\* What next_inner does with an output on a stream of a subscription.
OnSubscriptionOutput(p) ==
    \/ on_our_stream_accepted(p) \/ on_our_handshake(p) \/ on_our_stream_over(p)
    \/ on_subscription_unwanted(p) \/ on_subscription_proposed(p) \/ on_subscription_opened_by_remote(p)
    \/ on_their_handshake(p) \/ on_notification(p) \/ on_their_stream_over(p)

-----------------------------------------------------------------------------
(* What the tables say of a stream *)

\* An output that waits to be handled tells the truth about its stream.
OutFits ==
    out # <<>> =>
        /\ OutputIs({"ClosedByRemote", "IncomingMessageTooLarge", "OutgoingRejected"}) => Id \notin DOMAIN bufs
        /\ OutputIs({"IncomingProtocol"}) =>
              /\ Id \in DOMAIN bufs
              /\ bufs[Id].state = "NewIncomingProtocolWaitingForAccept"
              /\ bufs[Id].protocol = out[1].message
        /\ OutputIs({"Data", "OutgoingAccepted"}) =>
              Id \in DOMAIN bufs /\ bufs[Id].state \in {"Open", "ClosedByUs"}

\* Streams that we opened: each was given to one request or to one subscription.
InOurTables(id) ==
    \/ id \in DOMAIN inflight_requests
    \/ \E p \in SubscriptionProtocols : id = our_stream[p].stream_id

OurRoles ==
    /\ \A id \in StreamIds : InOurTables(id) => Ours(id) /\ id < next_stream_id
    /\ \A p \in SubscriptionProtocols : our_stream[p].stream_id \notin DOMAIN inflight_requests
    /\ \A p, q \in SubscriptionProtocols :
          our_stream[p].stream_id = our_stream[q].stream_id /\ our_stream[p].stream_id # 0 => p = q

\* A negotiated stream stays until its end is handled.
Held(id) ==
    IF id \in DOMAIN bufs
    THEN bufs[id].state \in {"Open", "ClosedByUs"}
    ELSE out # <<>> /\ Id = id

\* Streams that the remote opened and we accepted.
InTheirTables(id) ==
    \/ id \in DOMAIN incoming_requests
    \/ \E p \in SubscriptionProtocols : id = their_stream[p].stream_id

TheirRoles ==
    /\ \A id \in StreamIds : InTheirTables(id) => ~Ours(id) /\ Held(id)
    /\ \A p \in SubscriptionProtocols : their_stream[p].stream_id \notin DOMAIN incoming_requests
    /\ \A p, q \in SubscriptionProtocols :
          their_stream[p].stream_id = their_stream[q].stream_id /\ their_stream[p].stream_id # 0 => p = q

HasOwner(id) ==
    \/ id \in DOMAIN inflight_requests \cup DOMAIN incoming_requests \cup response_ids
    \/ \E p \in SubscriptionProtocols : id \in SubscriptionStreams(p)

Owned ==
    \A id \in DOMAIN bufs : ~ended /\ bufs[id].state \in {"Open", Outgoing} => HasOwner(id)

RolesInv == OutFits /\ OurRoles /\ TheirRoles /\ Owned

=============================================================================

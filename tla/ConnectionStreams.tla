------------------------- MODULE ConnectionStreams -------------------------
(***************************************************************************)
(* Steps of Connection, for any set of streams, protocols and chunks: every *)
(* open stream keeps its one use, and a subscription is reported as opened *)
(* only when our handshakes went out on its streams.                       *)
(*                                                                         *)
(* ConnectionTheorems has the theorems that they lead to.                  *)
(***************************************************************************)
EXTENDS ConnectionFacts

\* The provers, in the order in which a step that names none is given to them. SMT has more
\* than one turn because tlapm drops an obligation that it was too slow to translate.
USE Zenon, SMTT(10), SMTT(20), SMTT(30)

-----------------------------------------------------------------------------
(* Every open stream has one use: what the layer below may do *)

\* No stream becomes open or ours, and a negotiated one stays, or its end is in out.
RolesKept ==
    /\ OutFits'
    /\ \A id \in DOMAIN bufs' :
          bufs'[id].state \in {"Open", Outgoing} => id \in DOMAIN bufs /\ bufs[id].state \in {"Open", Outgoing}
    /\ \A id : Held(id) => Held(id)'

LEMMA EntryChanged ==
    ASSUME out = <<>>, OutFits', NEW x \in DOMAIN bufs, NEW c, bufs' = [bufs EXCEPT ![x] = c],
           c.state \in {"Open", Outgoing} => bufs[x].state \in {"Open", Outgoing},
           bufs[x].state \in {"Open", "ClosedByUs"} => c.state \in {"Open", "ClosedByUs"}
    PROVE  RolesKept
<1>1. DOMAIN bufs' = DOMAIN bufs /\ bufs'[x] = c /\ \A y \in DOMAIN bufs \ {x} : bufs'[y] = bufs[y]
    OBVIOUS
<1>2. ASSUME NEW id, Held(id)
      PROVE  Held(id)'
    BY <1>1, <1>2 DEF Held
<1> QED
    BY <1>1, <1>2 DEF RolesKept

LEMMA EntryRemoved ==
    ASSUME out = <<>>, OutFits', NEW x, bufs' = Without(bufs, {x}),
           x \in DOMAIN bufs /\ bufs[x].state \in {"Open", "ClosedByUs"} => out' # <<>> /\ out'[1].stream_id = x
    PROVE  RolesKept
<1>1. DOMAIN bufs' = DOMAIN bufs \ {x} /\ \A y \in DOMAIN bufs' : bufs'[y] = bufs[y]
    BY DEF Without
<1>2. ASSUME NEW id, Held(id)
      PROVE  Held(id)'
    BY <1>1, <1>2 DEF Held, Id
<1> QED
    BY <1>1, <1>2 DEF RolesKept

LEMMA EntriesSame ==
    ASSUME OutFits, UNCHANGED <<bufs, out>>
    PROVE  RolesKept
BY DEF OutFits, Id, OutputIs, RolesKept, Held

LEMMA TurnRoles ==
    ASSUME MultistreamInv, OutFits, Turn
    PROVE  RolesKept
<1>0. out = <<>>
    BY NoOutputBelow
<1>1. CASE take_buffer \/ parse_bad_length
    BY <1>1, EntriesSame DEF take_buffer, parse_bad_length
<1>2. CASE parse_nothing
  <2>1. PICK id \in DOMAIN bufs, b \in Multistream : parsing = id /\ b = bufs[id]
      BY <1>2 DEF MultistreamInv, StreamsKnown, Entries, parse_nothing
  <2>2. AfterNothing(b).state = b.state
      BY DEF AfterNothing, Multistream
  <2>3. bufs' = [bufs EXCEPT ![id] = AfterNothing(b)] /\ OutFits'
      BY <1>0, <1>2, <2>1 DEF parse_nothing, OutFits
  <2> QED
      BY <1>0, <2>1, <2>2, <2>3, EntryChanged
<1>3. ASSUME NEW states, Parse(states), states \cap {"Open", "ClosedByUs"} = {},
             \/ Abort
             \/ /\ reset_stream_immediately(parsing)
                /\ out' = <<Output(parsing, "OutgoingRejected", HEADER)>>
      PROVE  RolesKept
  <2>1. PICK id \in DOMAIN bufs : parsing = id /\ bufs[id].state \notin {"Open", "ClosedByUs"}
      BY <1>3 DEF MultistreamInv, StreamsKnown, Parse
  <2>2. bufs' = Without(bufs, {id})
      BY <1>3, <2>1 DEF Abort, reset_stream_immediately, reset_streams
  <2>3. OutFits'
      BY <1>0, <1>3, <2>1, <2>2 DEF OutFits, Abort, Output, OutputIs, Id, Without
  <2> QED
      BY <1>0, <2>1, <2>2, <2>3, EntryRemoved
<1>4. CASE parse_new_incoming /\ ~Abort
  <2>1. PICK id \in DOMAIN bufs, c \in Multistream :
            parsing = id /\ c = AfterMessage(bufs[id]) /\ bufs[id].state = "NewIncoming"
      BY <1>4, Parsed DEF parse_new_incoming
  <2> DEFINE d == [c EXCEPT !.state = "NewIncomingProtocol"]
  <2>2. Answer(d, <<HEADER>>) /\ d.state = "NewIncomingProtocol"
      BY <1>4, <2>1 DEF parse_new_incoming, Multistream
  <2> HIDE DEF d
  <2>3. bufs' = [bufs EXCEPT ![id] = d] /\ OutFits'
      BY <1>0, <2>1, <2>2 DEF Answer, OutFits
  <2> QED
      BY <1>0, <2>1, <2>2, <2>3, EntryChanged DEF Outgoing
<1>5. CASE parse_incoming_protocol /\ ~Abort
  <2>1. PICK id \in DOMAIN bufs, c \in Multistream :
            /\ parsing = id /\ c = AfterMessage(bufs[id])
            /\ bufs[id].state = "NewIncomingProtocol" /\ Msg \in Messages
      BY <1>5, Parsed DEF parse_incoming_protocol
  <2> DEFINE d == [c EXCEPT !.state = "NewIncomingProtocolWaitingForAccept", !.protocol = Msg]
  <2>2. bufs' = [bufs EXCEPT ![id] = d] /\ out' = <<Output(id, "IncomingProtocol", Msg)>>
      BY <1>5, <2>1 DEF parse_incoming_protocol, Emit
  <2>3. d.state = "NewIncomingProtocolWaitingForAccept" /\ d.protocol = Msg
      BY DEF Multistream
  <2> HIDE DEF d
  <2>4. OutFits'
      BY <2>1, <2>2, <2>3 DEF OutFits, Output, OutputIs, Id
  <2> QED
      BY <1>0, <2>1, <2>2, <2>3, <2>4, EntryChanged DEF Outgoing
<1>6. CASE parse_outgoing_header /\ ~Abort
  <2>1. PICK id \in DOMAIN bufs, b \in Multistream, c \in Multistream :
            parsing = id /\ b = bufs[id] /\ c = AfterMessage(b) /\ c.state = b.state
      BY <1>6, Parsed DEF parse_outgoing_header
  <2> DEFINE d == [c EXCEPT !.seen_header = TRUE]
  <2>2. bufs' = [bufs EXCEPT ![id] = d] /\ OutFits'
      BY <1>0, <1>6, <2>1 DEF parse_outgoing_header, OutFits
  <2>3. d.state = b.state
      BY <2>1 DEF Multistream
  <2> HIDE DEF d
  <2> QED
      BY <1>0, <2>1, <2>2, <2>3, EntryChanged
<1>7. CASE parse_outgoing_accepted
  <2>1. PICK id \in DOMAIN bufs, c \in Multistream :
            parsing = id /\ c = AfterMessage(bufs[id]) /\ bufs[id].state = Outgoing
      BY <1>7, Parsed DEF parse_outgoing_accepted, Outgoing
  <2> DEFINE d == [c EXCEPT !.state = "Open"]
  <2>2. bufs' = [bufs EXCEPT ![id] = d] /\ out' = <<Output(id, "OutgoingAccepted", Msg)>>
      BY <1>7, <2>1 DEF parse_outgoing_accepted, Emit
  <2>3. d.state = "Open"
      BY DEF Multistream
  <2> HIDE DEF d
  <2>4. OutFits'
      BY <2>1, <2>2, <2>3 DEF OutFits, Output, OutputIs, Id
  <2> QED
      BY <1>0, <2>1, <2>2, <2>3, <2>4, EntryChanged
<1>8. CASE parse_outgoing_try_next
  <2>1. PICK id \in DOMAIN bufs, b \in Multistream, c \in Multistream :
            parsing = id /\ b = bufs[id] /\ c = AfterMessage(b) /\ c.state = b.state
      BY <1>8, Parsed DEF parse_outgoing_try_next
  <2> DEFINE d == [c EXCEPT !.protocol = Head(b.rest), !.rest = Tail(@)]
  <2>2. bufs' = [bufs EXCEPT ![id] = d] /\ OutFits'
      BY <1>0, <1>8, <2>1 DEF parse_outgoing_try_next, Answer, OutFits
  <2>3. d.state = b.state
      BY <2>1 DEF Multistream
  <2> HIDE DEF d
  <2> QED
      BY <1>0, <2>1, <2>2, <2>3, EntryChanged
<1>9. CASE parse_data
  <2>1. PICK id \in DOMAIN bufs, b \in Multistream, c \in Multistream :
            /\ parsing = id /\ b = bufs[id] /\ c = AfterMessage(b)
            /\ c.state = b.state /\ b.state \in {"Open", "ClosedByUs"}
      BY <1>9, Parsed DEF parse_data
  <2>2. bufs' = [bufs EXCEPT ![id] = c] /\ out' = <<Output(id, "Data", Msg)>>
      BY <1>9, <2>1 DEF parse_data, Emit
  <2>3. OutFits'
      BY <2>1, <2>2 DEF OutFits, Output, OutputIs, Id
  <2> QED
      BY <1>0, <2>1, <2>2, <2>3, EntryChanged
<1>10. CASE \/ parse_waiting_for_accept \/ parse_outgoing_rejected
            \/ Abort /\ (parse_new_incoming \/ parse_incoming_protocol \/ parse_outgoing_header)
  <2>1. /\ \E states : Parse(states) /\ states \cap {"Open", "ClosedByUs"} = {}
        /\ \/ Abort
           \/ /\ reset_stream_immediately(parsing)
              /\ out' = <<Output(parsing, "OutgoingRejected", HEADER)>>
      BY <1>10 DEF parse_waiting_for_accept, parse_outgoing_rejected, parse_new_incoming,
             parse_incoming_protocol, parse_outgoing_header
  <2> QED
      BY <1>3, <2>1
<1> QED
    BY <1>1, <1>2, <1>4, <1>5, <1>6, <1>7, <1>8, <1>9, <1>10 DEF Turn

LEMMA RemoteRoles ==
    ASSUME MultistreamInv, OutFits, Remote
    PROVE  RolesKept
<1>0. out = <<>>
    BY NoOutputBelow
<1>1. CASE recv_end \/ \E id \in StreamIds : lose(id)
    BY <1>1, EntriesSame DEF recv_end, lose
<1>2. ASSUME NEW id \in StreamIds, recv_opened(id)
      PROVE  RolesKept
  <2>1. CASE id \in DOMAIN bufs
      BY <1>2, <2>1, EntriesSame DEF recv_opened
  <2>2. CASE id \notin DOMAIN bufs
    <3>1. /\ DOMAIN bufs' = DOMAIN bufs \cup {id}
          /\ bufs'[id].state = "NewIncoming"
          /\ \A x \in DOMAIN bufs : bufs'[x] = bufs[x]
          /\ UNCHANGED out
        BY <1>2, <2>2 DEF recv_opened, Put, NewIncoming
    <3>2. OutFits' /\ \A x : Held(x) => Held(x)'
        BY <1>0, <3>1 DEF Held, OutFits
    <3> QED
        BY <3>1, <3>2 DEF RolesKept, Outgoing
  <2> QED
      BY <2>1, <2>2
<1>3. ASSUME NEW id \in StreamIds, recv_closed(id)
      PROVE  RolesKept
  <2>1. /\ bufs' = Without(bufs, {id})
        /\ \/ out' = <<>>
           \/ out' = <<Output(id, "ClosedByRemote", HEADER)>>
        /\ id \in DOMAIN bufs /\ bufs[id].state \in {"Open", "ClosedByUs"}
              => out' = <<Output(id, "ClosedByRemote", HEADER)>>
      BY <1>3 DEF recv_closed
  <2>2. OutFits'
      BY <2>1 DEF OutFits, Output, OutputIs, Id, Without
  <2>3. out' = <<Output(id, "ClosedByRemote", HEADER)>> => out' # <<>> /\ out'[1].stream_id = id
      BY DEF Output
  <2> QED
      BY <1>0, <2>1, <2>2, <2>3, EntryRemoved
<1>4. ASSUME NEW id \in StreamIds, NEW chunk \in Chunks, recv_data_too_large(id, chunk)
      PROVE  RolesKept
  <2>1. bufs' = Without(bufs, {id}) /\ out' = <<Output(id, "IncomingMessageTooLarge", HEADER)>>
      BY <1>4 DEF recv_data_too_large, reset_stream_immediately, reset_streams
  <2>2. OutFits' /\ out' # <<>> /\ out'[1].stream_id = id
      BY <2>1 DEF OutFits, Output, OutputIs, Id, Without
  <2> QED
      BY <1>0, <2>1, <2>2, EntryRemoved
<1>5. ASSUME NEW id \in StreamIds, NEW chunk \in Chunks, recv_data(id, chunk)
      PROVE  RolesKept
  <2>1. PICK b \in Multistream : b = bufs[id] /\ id \in DOMAIN bufs
      BY <1>5 DEF recv_data, MultistreamInv, Entries
  <2> DEFINE c == [b EXCEPT !.buffer = @ \o chunk]
  <2>2. bufs' = [bufs EXCEPT ![id] = c]
      BY <1>5, <2>1, ZenonT(40) DEF recv_data
  <2>3. c.state = b.state /\ OutFits'
      BY <1>0, <1>5 DEF Multistream, recv_data, OutFits
  <2> HIDE DEF c
  <2> QED
      BY <1>0, <2>1, <2>2, <2>3, EntryChanged
<1> QED
    BY <1>1, <1>2, <1>3, <1>4, <1>5 DEF Remote

-----------------------------------------------------------------------------
(* Every open stream has one use: what the connection does *)

\* No stream of ours is given a use.
LEMMA OurRolesFewer ==
    ASSUME Base, Next, OurRoles, DOMAIN inflight_requests' \subseteq DOMAIN inflight_requests,
           \A p \in SubscriptionProtocols : our_stream'[p].stream_id \in {our_stream[p].stream_id, 0}
    PROVE  OurRoles'
<1>1. 0 \notin StreamIds /\ DOMAIN inflight_requests \subseteq StreamIds
    BY StreamServiceConstants DEF Base, Tables
<1>2. \A id \in StreamIds : InOurTables(id)' => InOurTables(id)
    BY <1>1 DEF InOurTables
<1>3. \A id \in StreamIds : id < next_stream_id => id < next_stream_id'
    BY OlderIds
<1>4. \A id \in StreamIds : InOurTables(id)' => Ours(id) /\ id < next_stream_id'
    BY <1>2, <1>3 DEF OurRoles
<1>5. \A p \in SubscriptionProtocols : our_stream'[p].stream_id \notin DOMAIN inflight_requests'
    BY <1>1 DEF OurRoles
<1>6. \A p, q \in SubscriptionProtocols :
          our_stream'[p].stream_id = our_stream'[q].stream_id /\ our_stream'[p].stream_id # 0 => p = q
    BY DEF OurRoles
<1> QED
    BY <1>4, <1>5, <1>6 DEF OurRoles

\* A stream is opened for a request or for a subscription.
LEMMA OurRolesMore ==
    ASSUME Base, Next, OurRoles, OpenStream,
           \/ /\ DOMAIN inflight_requests' = DOMAIN inflight_requests \cup {next_stream_id}
              /\ UNCHANGED our_stream
           \/ \E p \in SubscriptionProtocols :
                 /\ our_stream' = [our_stream EXCEPT ![p] = Handshake(next_stream_id)]
                 /\ UNCHANGED inflight_requests
    PROVE  OurRoles'
<1>0. PICK n \in StreamIds : n = next_stream_id /\ Ours(n) /\ n # 0 /\ n \in Nat
    BY StreamServiceConstants DEF OpenStream, Base, MultistreamInv, Types, ServiceType
<1>1. /\ \A id \in StreamIds : id < n => id < next_stream_id'
      /\ n < next_stream_id'
    BY <1>0, OlderIds DEF OpenStream
<1>2. ~InOurTables(n)
    BY <1>0 DEF OurRoles
<1>3. CASE /\ DOMAIN inflight_requests' = DOMAIN inflight_requests \cup {n}
           /\ UNCHANGED our_stream
  <2>1. \A id \in StreamIds : InOurTables(id)' => InOurTables(id) \/ id = n
      BY <1>3 DEF InOurTables
  <2> QED
      BY <1>0, <1>1, <1>2, <1>3, <2>1 DEF OurRoles, InOurTables
<1>4. ASSUME NEW p \in SubscriptionProtocols, our_stream' = [our_stream EXCEPT ![p] = Handshake(n)],
             UNCHANGED inflight_requests
      PROVE  OurRoles'
  <2>1. our_stream'[p].stream_id = n /\ \A q \in SubscriptionProtocols \ {p} : our_stream'[q] = our_stream[q]
    <3>1. our_stream \in SubscriptionTables
        BY DEF Base, Tables
    <3>2. our_stream'[p] = Handshake(n) /\ \A q \in SubscriptionProtocols \ {p} : our_stream'[q] = our_stream[q]
        BY <1>4, <3>1 DEF SubscriptionTables
    <3> QED
        BY <3>2, EntryIds, ZenonT(40)
  <2>2. \A id \in StreamIds : InOurTables(id)' => InOurTables(id) \/ id = n
      BY <1>4, <2>1 DEF InOurTables
  <2>3. \A id \in StreamIds : InOurTables(id)' => Ours(id) /\ id < next_stream_id'
      BY <1>0, <1>1, <2>2 DEF OurRoles
  <2>4. \A q \in SubscriptionProtocols : our_stream'[q].stream_id \notin DOMAIN inflight_requests'
      BY <1>2, <1>4, <2>1 DEF OurRoles, InOurTables
  <2>5. \A q, r \in SubscriptionProtocols :
            our_stream'[q].stream_id = our_stream'[r].stream_id /\ our_stream'[q].stream_id # 0 => q = r
      BY <1>2, <2>1 DEF OurRoles, InOurTables
  <2> QED
      BY <2>3, <2>4, <2>5 DEF OurRoles
<1> QED
    BY <1>0, <1>3, <1>4

LEMMA TheirRolesFewer ==
    ASSUME Base, TheirRoles, DOMAIN incoming_requests' \subseteq DOMAIN incoming_requests,
           \A p \in SubscriptionProtocols : their_stream'[p].stream_id \in {their_stream[p].stream_id, 0},
           \A id \in StreamIds : InTheirTables(id) /\ InTheirTables(id)' => Held(id)'
    PROVE  TheirRoles'
<1>1. 0 \notin StreamIds /\ DOMAIN incoming_requests \subseteq StreamIds
    BY StreamServiceConstants DEF Base, Tables
<1>2. \A id \in StreamIds : InTheirTables(id)' => InTheirTables(id)
    BY <1>1 DEF InTheirTables
<1>3. \A id \in StreamIds : InTheirTables(id)' => ~Ours(id) /\ Held(id)'
    BY <1>2 DEF TheirRoles
<1>4. \A p \in SubscriptionProtocols : their_stream'[p].stream_id \notin DOMAIN incoming_requests'
    BY <1>1 DEF TheirRoles
<1>5. \A p, q \in SubscriptionProtocols :
          their_stream'[p].stream_id = their_stream'[q].stream_id /\ their_stream'[p].stream_id # 0 => p = q
    BY DEF TheirRoles
<1> QED
    BY <1>3, <1>4, <1>5 DEF TheirRoles

\* A stream of the remote is accepted, for a request or for a subscription.
LEMMA TheirRolesMore ==
    ASSUME Base, TheirRoles, NEW id \in StreamIds, ~Ours(id), ~InTheirTables(id),
           \/ DOMAIN incoming_requests' = DOMAIN incoming_requests \cup {id} /\ UNCHANGED their_stream
           \/ \E p \in SubscriptionProtocols :
                 /\ their_stream' = [their_stream EXCEPT ![p] = Handshake(id)]
                 /\ UNCHANGED incoming_requests,
           \A x \in StreamIds : InTheirTables(x) \/ x = id => Held(x)'
    PROVE  TheirRoles'
<1>1. CASE DOMAIN incoming_requests' = DOMAIN incoming_requests \cup {id} /\ UNCHANGED their_stream
  <2>1. \A x \in StreamIds : InTheirTables(x)' => InTheirTables(x) \/ x = id
      BY <1>1 DEF InTheirTables
  <2>2. \A x \in StreamIds : InTheirTables(x)' => ~Ours(x) /\ Held(x)'
      BY <2>1 DEF TheirRoles
  <2>3. \A p \in SubscriptionProtocols : their_stream[p].stream_id \notin DOMAIN incoming_requests'
      BY <1>1 DEF TheirRoles, InTheirTables
  <2> QED
      BY <1>1, <2>2, <2>3 DEF TheirRoles
<1>2. ASSUME NEW p \in SubscriptionProtocols, their_stream' = [their_stream EXCEPT ![p] = Handshake(id)],
             UNCHANGED incoming_requests
      PROVE  TheirRoles'
  <2>1. /\ their_stream'[p].stream_id = id
        /\ \A q \in SubscriptionProtocols \ {p} : their_stream'[q] = their_stream[q]
    <3>1. their_stream \in SubscriptionTables
        BY DEF Base, Tables
    <3>2. /\ their_stream'[p] = Handshake(id)
          /\ \A q \in SubscriptionProtocols \ {p} : their_stream'[q] = their_stream[q]
        BY <1>2, <3>1 DEF SubscriptionTables
    <3> QED
        BY <3>2, EntryIds, ZenonT(40)
  <2>2. \A x \in StreamIds : InTheirTables(x)' => InTheirTables(x) \/ x = id
      BY <1>2, <2>1 DEF InTheirTables
  <2>3. \A x \in StreamIds : InTheirTables(x)' => ~Ours(x) /\ Held(x)'
      BY <2>2 DEF TheirRoles
  <2>4. \A q \in SubscriptionProtocols : their_stream'[q].stream_id \notin DOMAIN incoming_requests'
      BY <1>2, <2>1 DEF TheirRoles, InTheirTables
  <2>5. \A q, r \in SubscriptionProtocols :
            their_stream'[q].stream_id = their_stream'[r].stream_id /\ their_stream'[q].stream_id # 0 => q = r
      BY <2>1 DEF TheirRoles, InTheirTables
  <2> QED
      BY <2>3, <2>4, <2>5 DEF TheirRoles
<1> QED
    BY <1>1, <1>2

\* What is open has its owner still, or has one now.
LEMMA OwnedStep ==
    ASSUME Owned, ended => ended',
           \A id \in DOMAIN bufs' :
              bufs'[id].state \in {"Open", Outgoing} =>
                  \/ HasOwner(id)'
                  \/ /\ id \in DOMAIN bufs /\ bufs[id].state \in {"Open", Outgoing}
                     /\ HasOwner(id) => HasOwner(id)'
    PROVE  Owned'
BY DEF Owned

LEMMA SameOwners ==
    ASSUME UNCHANGED <<our_stream, their_stream>>,
           DOMAIN inflight_requests \subseteq DOMAIN inflight_requests',
           DOMAIN incoming_requests \subseteq DOMAIN incoming_requests',
           response_ids \subseteq response_ids'
    PROVE  \A id : HasOwner(id) => HasOwner(id)'
BY DEF HasOwner, SubscriptionStreams

\* What next() and the layer below do leaves every stream its use.
LEMMA LoopKeepsRoles ==
    ASSUME Base, RolesInv, next \/ next_emit \/ next_await \/ yamux_next \/ drop_next \/ \E p \in Timed : sleep_ends(p)
    PROVE  RolesInv'
<1>0. Next
    BY DEF Next, LoopHead
<1>1. KeepTables /\ response_ids \subseteq response_ids'
    BY DEF next, next_emit, next_await, yamux_next, drop_next, sleep_ends, Give, Goto
<1>2. RolesKept
  <2>1. CASE yamux_next
      BY <2>1, TurnRoles, RemoteRoles DEF yamux_next, RolesInv, Base
  <2>2. CASE UNCHANGED mvars
      BY <2>2, EntriesSame DEF mvars, RolesInv
  <2> QED
      BY <2>1, <2>2 DEF next, next_emit, next_await, drop_next, sleep_ends
<1>3. OurRoles'
    BY <1>0, <1>1, OurRolesFewer DEF KeepTables, RolesInv
<1>4. TheirRoles'
  <2>1. \A id \in StreamIds : InTheirTables(id) => Held(id)'
      BY <1>2 DEF RolesInv, TheirRoles, RolesKept
  <2> QED
      BY <1>1, <2>1, TheirRolesFewer DEF KeepTables, RolesInv
<1>5. Owned'
    BY <1>0, <1>1, <1>2, EndedStays, OwnedStep, SameOwners DEF KeepTables, RolesInv, RolesKept
<1> QED
    BY <1>2, <1>3, <1>4, <1>5 DEF RolesInv, RolesKept

\* A step that gives no stream a use.
LEMMA RolesFewer ==
    ASSUME Base, RolesInv, Next, out' = <<>>,
           DOMAIN inflight_requests' \subseteq DOMAIN inflight_requests,
           DOMAIN incoming_requests' \subseteq DOMAIN incoming_requests,
           \A p \in SubscriptionProtocols :
              /\ our_stream'[p].stream_id \in {our_stream[p].stream_id, 0}
              /\ their_stream'[p].stream_id \in {their_stream[p].stream_id, 0},
           \A id \in StreamIds : InTheirTables(id) /\ InTheirTables(id)' =>
              id \in DOMAIN bufs' /\ bufs'[id].state \in {"Open", "ClosedByUs"},
           \A id \in DOMAIN bufs' : bufs'[id].state \in {"Open", Outgoing} =>
              /\ id \in DOMAIN bufs /\ bufs[id].state \in {"Open", Outgoing}
              /\ HasOwner(id) => HasOwner(id)'
    PROVE  RolesInv'
<1>1. OutFits'
    BY DEF OutFits
<1>2. OurRoles'
    BY OurRolesFewer DEF RolesInv
<1>3. \A id \in StreamIds : InTheirTables(id) /\ InTheirTables(id)' => Held(id)'
    BY DEF Held
<1>4. TheirRoles'
    BY <1>3, TheirRolesFewer DEF RolesInv
<1>5. Owned'
    BY EndedStays, OwnedStep DEF RolesInv
<1> QED
    BY <1>1, <1>2, <1>4, <1>5 DEF RolesInv

\* Streams that nobody uses any more are reset.
LEMMA RolesAfterReset ==
    ASSUME Base, RolesInv, Next, out' = <<>>, NEW ids, reset_streams(ids),
           DOMAIN inflight_requests' \subseteq DOMAIN inflight_requests,
           DOMAIN incoming_requests' \subseteq DOMAIN incoming_requests,
           \A p \in SubscriptionProtocols :
              /\ our_stream'[p].stream_id \in {our_stream[p].stream_id, 0}
              /\ their_stream'[p].stream_id \in {their_stream[p].stream_id, 0},
           \A id \in StreamIds : InTheirTables(id) /\ InTheirTables(id)' =>
              id \notin ids /\ (out = <<>> \/ id # Id \/ OutputIs({"IncomingProtocol", "Data", "OutgoingAccepted"})),
           \A id \in DOMAIN bufs \ ids : HasOwner(id) => HasOwner(id)'
    PROVE  RolesInv'
<1>1. DOMAIN bufs' = DOMAIN bufs \ ids /\ \A id \in DOMAIN bufs' : bufs'[id] = bufs[id]
    BY DEF reset_streams, Without
<1>2. \A id \in StreamIds : InTheirTables(id) /\ InTheirTables(id)' =>
          id \in DOMAIN bufs /\ bufs[id].state \in {"Open", "ClosedByUs"}
    BY HeldMeansKnown DEF RolesInv, TheirRoles
<1> QED
    BY <1>1, <1>2, RolesFewer

\* The tables stay as they are, and so do the streams' states.
LEMMA RolesSame ==
    ASSUME Base, RolesInv, Next, out' = <<>>, UNCHANGED bufs, KeepTables, response_ids \subseteq response_ids',
           \A id \in StreamIds : InTheirTables(id) =>
              out = <<>> \/ id # Id \/ OutputIs({"IncomingProtocol", "Data", "OutgoingAccepted"})
    PROVE  RolesInv'
<1>1. \A id : HasOwner(id) => HasOwner(id)'
    BY SameOwners DEF KeepTables
<1>2. \A id \in StreamIds : InTheirTables(id) =>
          id \in DOMAIN bufs /\ bufs[id].state \in {"Open", "ClosedByUs"}
    BY HeldMeansKnown DEF RolesInv, TheirRoles
<1> QED
    BY <1>1, <1>2, RolesFewer DEF KeepTables

LEMMA RolesAfterClose ==
    ASSUME Base, RolesInv, Next, out' = <<>>, NEW id, close_stream(id),
           DOMAIN inflight_requests' = DOMAIN inflight_requests,
           UNCHANGED <<incoming_requests, our_stream, their_stream>>, response_ids \subseteq response_ids',
           \A x \in StreamIds : InTheirTables(x) =>
              out = <<>> \/ x # Id \/ OutputIs({"IncomingProtocol", "Data", "OutgoingAccepted"})
    PROVE  RolesInv'
<1>1. \A x : HasOwner(x) => HasOwner(x)'
    BY SameOwners
<1>2. \A x \in StreamIds : InTheirTables(x) =>
          x \in DOMAIN bufs /\ bufs[x].state \in {"Open", "ClosedByUs"}
    BY HeldMeansKnown DEF RolesInv, TheirRoles
<1> QED
    BY <1>1, <1>2, ClosedStates, RolesFewer DEF Outgoing

\* A stream is opened and given its use at once.
LEMMA RolesAfterOpen ==
    ASSUME Base, RolesInv, Next, out = <<>>, out' = <<>>, NEW protocols, open_stream(protocols, MaxSize),
           \/ /\ DOMAIN inflight_requests' = DOMAIN inflight_requests \cup {next_stream_id}
              /\ UNCHANGED our_stream
           \/ \E p \in SubscriptionProtocols :
                 /\ our_stream[p] = Closed
                 /\ our_stream' = [our_stream EXCEPT ![p] = Handshake(next_stream_id)]
                 /\ UNCHANGED inflight_requests,
           UNCHANGED <<incoming_requests, their_stream, response_ids>>
    PROVE  RolesInv'
<1>0. PICK n \in StreamIds : n = next_stream_id /\ Ours(n) /\ n # 0
    BY StreamServiceConstants DEF open_stream, OpenStream, Base, MultistreamInv, Types, ServiceType
<1>1. DOMAIN bufs' = DOMAIN bufs \cup {n} /\ \A x \in DOMAIN bufs \ {n} : bufs'[x] = bufs[x]
    BY <1>0 DEF open_stream, Put
<1>2. OurRoles'
    BY OurRolesMore, ZenonT(40) DEF RolesInv, open_stream
<1>3. \A id \in StreamIds : InTheirTables(id) => Held(id)'
  <2>1. \A id \in StreamIds : InTheirTables(id) => id \in DOMAIN bufs /\ bufs[id].state \in {"Open", "ClosedByUs"} /\ id # n
      BY <1>0, HeldMeansKnown DEF RolesInv, TheirRoles
  <2> QED
      BY <1>1, <2>1 DEF Held
<1>4. TheirRoles'
    BY <1>3, TheirRolesFewer DEF RolesInv
<1>5. HasOwner(n)' /\ \A id : HasOwner(id) => HasOwner(id)'
  <2>1. CASE DOMAIN inflight_requests' = DOMAIN inflight_requests \cup {n} /\ UNCHANGED our_stream
      BY <2>1, SameOwners DEF HasOwner
  <2>2. ASSUME NEW p \in SubscriptionProtocols, our_stream[p] = Closed,
               our_stream' = [our_stream EXCEPT ![p] = Handshake(n)], UNCHANGED inflight_requests
        PROVE  HasOwner(n)' /\ \A id : HasOwner(id) => HasOwner(id)'
    <3>1. our_stream'[p] = Handshake(n) /\ \A q \in SubscriptionProtocols \ {p} : our_stream'[q] = our_stream[q]
        BY <2>2 DEF SubscriptionTables, Base, Tables
    <3>2. our_stream'[p].stream_id = n /\ our_stream[p].stream_id = 0
        BY <2>2, <3>1, EntryIds, ZenonT(40)
    <3>3. n \in SubscriptionStreams(p)'
        BY <1>0, <3>2 DEF SubscriptionStreams
    <3>4. \A q \in SubscriptionProtocols : SubscriptionStreams(q) \subseteq SubscriptionStreams(q)'
        BY <3>1, <3>2 DEF SubscriptionStreams
    <3> QED
        BY <2>2, <3>3, <3>4 DEF HasOwner
  <2> QED
      BY <1>0, <2>1, <2>2
<1>6. Owned'
    BY <1>1, <1>5, EndedStays DEF RolesInv, Owned
<1> QED
    BY <1>2, <1>4, <1>6 DEF RolesInv, OutFits

\* A subscription is over: both its streams are reset.
LEMMA RolesAfterCancel ==
    ASSUME Base, RolesInv, Next, out' = <<>>, NEW p \in SubscriptionProtocols, cancel_subscription_silently(p),
           UNCHANGED <<inflight_requests, incoming_requests>>, response_ids \subseteq response_ids',
           out = <<>> \/ Id \in SubscriptionStreams(p) \/ OutputIs({"IncomingProtocol", "Data", "OutgoingAccepted"})
    PROVE  RolesInv'
<1>1. /\ our_stream'[p].stream_id = 0 /\ their_stream'[p].stream_id = 0
      /\ \A q \in SubscriptionProtocols \ {p} : our_stream'[q] = our_stream[q] /\ their_stream'[q] = their_stream[q]
  <2>1. our_stream'[p] = Closed /\ their_stream'[p] = Closed
      BY DEF cancel_subscription_silently, Base, Tables, SubscriptionTables
  <2>2. \A q \in SubscriptionProtocols \ {p} : our_stream'[q] = our_stream[q] /\ their_stream'[q] = their_stream[q]
      BY DEF cancel_subscription_silently, Base, Tables, SubscriptionTables
  <2> QED
      BY <2>1, <2>2, EntryIds, ZenonT(40)
<1>2. reset_streams(SubscriptionStreams(p))
    BY DEF cancel_subscription_silently, SubscriptionStreams
<1>3. \A id \in DOMAIN bufs \ SubscriptionStreams(p) : HasOwner(id) => HasOwner(id)'
  <2>1. \A q \in SubscriptionProtocols \ {p} : SubscriptionStreams(q)' = SubscriptionStreams(q)
      BY <1>1 DEF SubscriptionStreams
  <2> QED
      BY <2>1 DEF HasOwner
<1>4. ASSUME NEW id \in StreamIds, InTheirTables(id), InTheirTables(id)'
      PROVE  id \notin SubscriptionStreams(p)
  <2>1. id # 0 /\ ~Ours(id)
      BY <1>4, StreamServiceConstants DEF RolesInv, TheirRoles
  <2>2. id # our_stream[p].stream_id
    <3>1. our_stream[p].stream_id = id => InOurTables(id)
        BY DEF InOurTables
    <3> QED
        BY <2>1, <3>1 DEF RolesInv, OurRoles
  <2>3. id # their_stream[p].stream_id
    <3>1. CASE id \in DOMAIN incoming_requests
        BY <3>1 DEF RolesInv, TheirRoles
    <3>2. ASSUME NEW q \in SubscriptionProtocols, id = their_stream'[q].stream_id
          PROVE  id # their_stream[p].stream_id
      <4>1. q # p /\ their_stream[q].stream_id = id
          BY <1>1, <2>1, <3>2
      <4> QED
          BY <2>1, <4>1 DEF RolesInv, TheirRoles
    <3> QED
        BY <1>4, <3>1, <3>2 DEF InTheirTables
  <2> QED
      BY <2>2, <2>3 DEF SubscriptionStreams
<1>5. \A q \in SubscriptionProtocols :
          /\ our_stream'[q].stream_id \in {our_stream[q].stream_id, 0}
          /\ their_stream'[q].stream_id \in {their_stream[q].stream_id, 0}
    BY <1>1
<1>6. \A id \in StreamIds : InTheirTables(id) /\ InTheirTables(id)' =>
          /\ id \notin SubscriptionStreams(p)
          /\ out = <<>> \/ id # Id \/ OutputIs({"IncomingProtocol", "Data", "OutgoingAccepted"})
    BY <1>4
<1> QED
    BY <1>2, <1>3, <1>5, <1>6, RolesAfterReset

\* What the user calls leaves every stream one use.
LEMMA CallsKeepRoles ==
    ASSUME Base, RolesInv, Calls
    PROVE  RolesInv'
<1>0. Next
    BY DEF Next
<1>1. ASSUME NEW p \in RequestNames, request(p)
      PROVE  RolesInv'
  <2>1. UserCalls /\ out = <<>> /\ out' = <<>>
      BY <1>1, UserBetweenTurns DEF request, UserCalls
  <2>2. DOMAIN inflight_requests' = DOMAIN inflight_requests \cup {next_stream_id}
      BY <1>1 DEF request, Put
  <2> QED
      BY <1>0, <1>1, <2>1, <2>2, RolesAfterOpen DEF request, UserCalls
<1>2. ASSUME NEW p \in SubscriptionProtocols, subscribe(p)
      PROVE  RolesInv'
  <2>1. UserCalls /\ out = <<>> /\ out' = <<>>
      BY <1>2, UserBetweenTurns DEF subscribe, UserCalls
  <2> QED
      BY <1>0, <1>2, <2>1, RolesAfterOpen DEF subscribe, UserCalls
<1>3. ASSUME NEW id \in StreamIds, cancel_request(id)
      PROVE  RolesInv'
  <2>1. out = <<>> /\ out' = <<>>
      BY <1>3, UserBetweenTurns DEF cancel_request, UserCalls
  <2>2. /\ id \in DOMAIN inflight_requests
        /\ DOMAIN inflight_requests' = DOMAIN inflight_requests \ {id}
        /\ reset_streams({id})
        /\ UNCHANGED <<incoming_requests, our_stream, their_stream, response_ids>>
      BY <1>3 DEF cancel_request, UserCalls, Without, reset_stream_immediately
  <2>3. Ours(id)
      BY <2>2 DEF RolesInv, OurRoles, InOurTables
  <2>4. \A x \in StreamIds : InTheirTables(x) => x \notin {id}
      BY <2>3 DEF RolesInv, TheirRoles
  <2>5. \A x \in DOMAIN bufs \ {id} : HasOwner(x) => HasOwner(x)'
      BY <2>2 DEF HasOwner, SubscriptionStreams
  <2> QED
      BY <1>0, <2>1, <2>2, <2>4, <2>5, RolesAfterReset
<1>4. ASSUME NEW id \in StreamIds, respond(id)
      PROVE  RolesInv'
  <2>1. out = <<>> /\ out' = <<>>
      BY <1>4, UserBetweenTurns DEF respond, UserCalls
  <2> QED
      BY <1>0, <1>4, <2>1, RolesAfterClose DEF respond, UserCalls
<1>5. ASSUME NEW p \in SubscriptionProtocols, send_notification(p)
      PROVE  RolesInv'
  <2>1. out = <<>> /\ out' = <<>>
      BY <1>5, UserBetweenTurns DEF send_notification, UserCalls
  <2> QED
      BY <1>0, <1>5, <2>1, RolesSame DEF send_notification, UserCalls, KeepTables
<1>6. ASSUME NEW p \in SubscriptionProtocols, cancel_subscription(p)
      PROVE  RolesInv'
  <2>1. out = <<>> /\ out' = <<>>
      BY <1>6, UserBetweenTurns DEF cancel_subscription, UserCalls
  <2> QED
      BY <1>0, <1>6, <2>1, RolesAfterCancel DEF cancel_subscription, UserCalls
<1> QED
    BY <1>1, <1>2, <1>3, <1>4, <1>5, <1>6 DEF Calls

LEMMA TimeoutKeepsRoles ==
    ASSUME Base, RolesInv, handle_request_timeouts
    PROVE  RolesInv'
<1>0. Next
    BY DEF Next, LoopHead
<1>1. PICK id \in DOMAIN inflight_requests :
          /\ inflight_requests' = Without(inflight_requests, {id})
          /\ reset_streams({id})
          /\ Give(Response(id, "Timeout"))
    BY FirstTimedOut
<1>2. DOMAIN inflight_requests' = DOMAIN inflight_requests \ {id} /\ response_ids' = response_ids
    BY <1>1 DEF Without, Give, Response
<1>3. out = <<>> /\ out' = <<>> /\ UNCHANGED <<incoming_requests, our_stream, their_stream>>
    BY DEF handle_request_timeouts, Base, Placed
<1>4. id \in StreamIds /\ Ours(id)
    BY DEF RolesInv, OurRoles, InOurTables, Base, Tables
<1>5. \A x \in StreamIds : InTheirTables(x) => x \notin {id}
    BY <1>4 DEF RolesInv, TheirRoles
<1>6. \A x \in DOMAIN bufs \ {id} : HasOwner(x) => HasOwner(x)'
    BY <1>2, <1>3 DEF HasOwner, SubscriptionStreams
<1> QED
    BY <1>0, <1>1, <1>2, <1>3, <1>5, <1>6, RolesAfterReset

LEMMA TheirRolesAccepted ==
    ASSUME Base, RolesInv, out # <<>>, OutputIs({"IncomingProtocol"}), NEW id \in StreamIds, id = Id,
           id \in DOMAIN bufs', bufs'[id].state = "Open",
           \A x \in DOMAIN bufs \ {id} : ~Ours(x) => x \in DOMAIN bufs' /\ bufs'[x] = bufs[x],
           \/ DOMAIN incoming_requests' = DOMAIN incoming_requests \cup {id} /\ UNCHANGED their_stream
           \/ \E p \in SubscriptionProtocols :
                 /\ their_stream' = [their_stream EXCEPT ![p] = Handshake(id)]
                 /\ UNCHANGED incoming_requests
    PROVE  TheirRoles'
<1>1. ~Ours(id) /\ ~InTheirTables(id)
    BY ProposedIsNew
<1>2. \A x \in StreamIds : InTheirTables(x) \/ x = id => Held(x)'
  <2>1. \A x \in StreamIds : InTheirTables(x) \/ x = id => x \in DOMAIN bufs' /\ bufs'[x].state \in {"Open", "ClosedByUs"}
      BY ProposedIsNew DEF RolesInv, TheirRoles
  <2> QED
      BY <2>1 DEF Held
<1> QED
    BY <1>1, <1>2, TheirRolesMore, ZenonT(40) DEF RolesInv

\* accept_protocol and reject_protocol relabel one entry.
LEMMA RepliedEntries ==
    ASSUME accept_protocol(Id, MaxSize) \/ reject_protocol(Id)
    PROVE  DOMAIN bufs' = DOMAIN bufs /\ \A x \in DOMAIN bufs \ {Id} : bufs'[x] = bufs[x]
<1>1. CASE accept_protocol(Id, MaxSize)
    BY <1>1 DEF accept_protocol, Waiting
<1>2. CASE reject_protocol(Id)
    BY <1>2 DEF reject_protocol, Waiting
<1> QED
    BY <1>1, <1>2

\* The answer does not go out: nobody takes the stream, and the connection ends.
LEMMA RolesAfterFailedReply ==
    ASSUME Base, RolesInv, Next, Handles, OutputIs({"IncomingProtocol"}),
           accept_protocol(Id, MaxSize) \/ reject_protocol(Id), Finish
    PROVE  RolesInv'
<1>1. Id \in StreamIds /\ out # <<>> /\ out' = <<>>
    BY HandlesBetweenTurns DEF Handles
<1>2. KeepTables /\ UNCHANGED response_ids /\ ended'
    BY DEF Finish, End, Goto
<1>3. \A x \in StreamIds : InTheirTables(x) =>
          x # Id /\ x \in DOMAIN bufs /\ bufs[x].state \in {"Open", "ClosedByUs"}
    BY <1>1, ProposedIsNew
<1>4. \A x \in StreamIds : InTheirTables(x) => Held(x)'
    BY <1>3, RepliedEntries DEF Held
<1>5. OurRoles'
    BY <1>2, OurRolesFewer DEF KeepTables, RolesInv
<1>6. TheirRoles'
    BY <1>2, <1>4, TheirRolesFewer DEF KeepTables, RolesInv
<1>7. Owned'
    BY <1>2 DEF Owned
<1> QED
    BY <1>1, <1>5, <1>6, <1>7 DEF RolesInv, OutFits

\* An output for a request, or for nobody.
LEMMA RequestOutputKeepsRoles ==
    ASSUME Base, RolesInv,
           on_request_accepted \/ on_request_over \/ on_incoming_request \/ on_request_proposed
           \/ on_unknown_protocol \/ on_unknown_stream
    PROVE  RolesInv'
<1>0. Next /\ Handles
    BY DEF Next, OnOutput, on_request_accepted, on_request_over, on_incoming_request, on_request_proposed,
           on_unknown_protocol, on_unknown_stream
<1>1. PICK id \in StreamIds : id = Id /\ out # <<>> /\ out' = <<>>
    BY <1>0, HandlesBetweenTurns DEF Handles
<1>2. ForRequest => \A x \in StreamIds : InTheirTables(x) => x # Id
    BY <1>1, TheirsOrOurs DEF ForRequest, InOurTables
<1>3. CASE on_request_accepted
  <2>1. CASE CanSend(Id)
    <3>1. /\ close_stream(id)
          /\ DOMAIN inflight_requests' = DOMAIN inflight_requests
          /\ UNCHANGED <<incoming_requests, our_stream, their_stream, response_ids>>
        BY <1>1, <1>3, <2>1 DEF on_request_accepted, Goto
    <3> QED
        BY <1>0, <1>1, <1>2, <1>3, <3>1, RolesAfterClose DEF on_request_accepted
  <2>2. CASE ~CanSend(Id)
      BY <1>0, <1>1, <1>2, <1>3, <2>2, RolesSame DEF on_request_accepted, Fail, Finish, Goto
  <2> QED
      BY <2>1, <2>2
<1>4. CASE on_request_over
  <2>1. PICK ids \in {{}, {id}} :
            reset_streams(ids) /\ (ids = {} => OutputIs({"OutgoingRejected", "IncomingMessageTooLarge"}))
      BY <1>1, <1>4 DEF on_request_over, RequestResult, OutputIs
  <2>2. /\ ForRequest
        /\ DOMAIN inflight_requests' = DOMAIN inflight_requests \ {id}
        /\ UNCHANGED <<incoming_requests, our_stream, their_stream>>
        /\ UNCHANGED response_ids
      BY <1>1, <1>4 DEF on_request_over, Without, Give, Response
  <2>3. ids = {} => id \notin DOMAIN bufs
      BY <1>1, <2>1 DEF RolesInv, OutFits, OutputIs
  <2>4. \A x \in DOMAIN bufs \ ids : HasOwner(x) => HasOwner(x)'
      BY <2>1, <2>2, <2>3 DEF HasOwner, SubscriptionStreams
  <2> QED
      BY <1>0, <1>1, <1>2, <2>1, <2>2, <2>4, RolesAfterReset
<1>5. CASE on_incoming_request
  <2>1. /\ id \in DOMAIN incoming_requests
        /\ DOMAIN incoming_requests' = DOMAIN incoming_requests \ {id}
        /\ UNCHANGED <<inflight_requests, our_stream, their_stream>>
      BY <1>1, <1>5 DEF on_incoming_request, ForIncomingRequest, Without
  <2>2. \A x \in StreamIds : InTheirTables(x)' => x # id
      BY <2>1 DEF InTheirTables, RolesInv, TheirRoles
  <2>3. \A x \in StreamIds : InTheirTables(x) /\ x # id => x \in DOMAIN bufs /\ bufs[x].state \in {"Open", "ClosedByUs"}
      BY <1>1, HeldMeansKnown DEF RolesInv, TheirRoles
  <2>4. CASE UNCHANGED bufs /\ response_ids' = response_ids \cup {id}
    <3>1. \A x : HasOwner(x) => HasOwner(x)'
        BY <2>1, <2>4 DEF HasOwner, SubscriptionStreams
    <3> QED
        BY <1>0, <1>1, <2>1, <2>2, <2>3, <2>4, <3>1, RolesFewer
  <2>5. CASE reset_streams({id}) /\ UNCHANGED response_ids
    <3>1. \A x \in DOMAIN bufs \ {id} : HasOwner(x) => HasOwner(x)'
        BY <2>1, <2>5 DEF HasOwner, SubscriptionStreams
    <3> QED
        BY <1>0, <1>1, <2>1, <2>2, <2>5, <3>1, RolesAfterReset
  <2> QED
      BY <1>1, <1>5, <2>4, <2>5 DEF on_incoming_request, Give, Request, KeepStreams, reset_stream_immediately, Goto
<1>6. CASE on_request_proposed
  <2>0. OutputIs({"IncomingProtocol"})
      BY <1>6 DEF on_request_proposed, WantedRequest
  <2>1. CASE CanReply(Id)
    <3>1. /\ DOMAIN bufs' = DOMAIN bufs /\ bufs'[id].state = "Open"
          /\ \A x \in DOMAIN bufs \ {id} : bufs'[x] = bufs[x]
      <4>1. PICK b \in Multistream : b = bufs[id] /\ id \in DOMAIN bufs
          BY <1>1, <2>1 DEF CanReply, Waiting, Base, MultistreamInv, Entries
      <4> DEFINE c == [b EXCEPT !.state = "Open", !.max_buffer_size = MaxSize]
      <4>2. bufs' = [bufs EXCEPT ![id] = c]
          BY <1>1, <1>6, <2>1, <4>1, ZenonT(40) DEF on_request_proposed, accept_protocol, CanReply
      <4>3. c.state = "Open"
          BY DEF Multistream
      <4> HIDE DEF c
      <4> QED
          BY <4>1, <4>2, <4>3
    <3>2. /\ DOMAIN incoming_requests' = DOMAIN incoming_requests \cup {id}
          /\ UNCHANGED <<inflight_requests, our_stream, their_stream, response_ids>>
        BY <1>1, <1>6, <2>1 DEF on_request_proposed, Put, Goto
    <3>3. OurRoles'
        BY <1>0, <3>2, OurRolesFewer DEF RolesInv
    <3>4. id \in DOMAIN bufs
        BY <1>1, <2>1 DEF CanReply, Waiting
    <3>5. TheirRoles'
        BY <1>1, <2>0, <3>1, <3>2, <3>4, TheirRolesAccepted
    <3>6. Owned'
      <4>1. HasOwner(id)' /\ \A x : HasOwner(x) => HasOwner(x)'
          BY <3>2, SameOwners DEF HasOwner
      <4> QED
          BY <1>0, <3>1, <4>1, EndedStays DEF RolesInv, Owned
    <3> QED
        BY <1>1, <3>3, <3>5, <3>6 DEF RolesInv, OutFits
  <2>2. CASE ~CanReply(Id)
      BY <1>0, <1>6, <2>0, <2>2, RolesAfterFailedReply DEF on_request_proposed
  <2> QED
      BY <2>1, <2>2
<1>7. CASE on_unknown_protocol
  <2>0. OutputIs({"IncomingProtocol"})
      BY <1>7 DEF on_unknown_protocol
  <2>1. CASE CanReply(Id)
    <3>1. /\ DOMAIN bufs' = DOMAIN bufs /\ bufs'[id].state = "NewIncomingProtocol"
          /\ \A x \in DOMAIN bufs \ {id} : bufs'[x] = bufs[x]
      <4>1. PICK b \in Multistream : b = bufs[id] /\ id \in DOMAIN bufs
          BY <1>1, <2>1 DEF CanReply, Waiting, Base, MultistreamInv, Entries
      <4> DEFINE c == [b EXCEPT !.state = "NewIncomingProtocol"]
      <4>2. bufs' = [bufs EXCEPT ![id] = c]
          BY <1>1, <1>7, <2>1, <4>1, ZenonT(40) DEF on_unknown_protocol, reject_protocol, CanReply
      <4>3. c.state = "NewIncomingProtocol"
          BY DEF Multistream
      <4> HIDE DEF c
      <4> QED
          BY <4>1, <4>2, <4>3
    <3>2. KeepTables /\ UNCHANGED response_ids
        BY <1>7, <2>1 DEF on_unknown_protocol, Goto
    <3>3. \A x : HasOwner(x) => HasOwner(x)'
        BY <3>2, SameOwners DEF KeepTables
    <3>4. \A x \in StreamIds : InTheirTables(x) => x # id /\ x \in DOMAIN bufs /\ bufs[x].state \in {"Open", "ClosedByUs"}
        BY <1>1, <2>0, ProposedIsNew
    <3> QED
        BY <1>0, <1>1, <3>1, <3>2, <3>3, <3>4, RolesFewer DEF KeepTables, Outgoing
  <2>2. CASE ~CanReply(Id)
      BY <1>0, <1>7, <2>0, <2>2, RolesAfterFailedReply DEF on_unknown_protocol
  <2> QED
      BY <2>1, <2>2
<1>8. CASE on_unknown_stream
  <2>1. PICK ids \in {{}, {id}} : reset_streams(ids)
      BY <1>1, <1>8 DEF on_unknown_stream
  <2>2. KeepTables /\ UNCHANGED response_ids
      BY <1>8 DEF on_unknown_stream, Goto
  <2>3. \A x \in StreamIds : InTheirTables(x) => x # id
      BY <1>1, <1>8 DEF on_unknown_stream, ForNobodyYet, ForTheirs, ForIncomingRequest, InTheirTables
  <2>4. \A x : HasOwner(x) => HasOwner(x)'
      BY <2>2, SameOwners DEF KeepTables
  <2> QED
      BY <1>0, <1>1, <2>1, <2>2, <2>3, <2>4, RolesAfterReset DEF KeepTables
<1> QED
    BY <1>3, <1>4, <1>5, <1>6, <1>7, <1>8

\* A stream of a subscription changes its state, and stays its stream.
LEMMA RolesAfterHandshake ==
    ASSUME Base, RolesInv, Next, out' = <<>>, UNCHANGED bufs, NEW p \in SubscriptionProtocols,
           NEW id \in StreamIds,
           \/ /\ our_stream' = [our_stream EXCEPT ![p] = Open(id)] /\ UNCHANGED their_stream
              /\ id = our_stream[p].stream_id
           \/ /\ their_stream' = [their_stream EXCEPT ![p] = Open(id)] /\ UNCHANGED our_stream
              /\ id = their_stream[p].stream_id,
           UNCHANGED <<inflight_requests, incoming_requests>>, response_ids \subseteq response_ids',
           OutputIs({"Data"})
    PROVE  RolesInv'
<1>1. \A q \in SubscriptionProtocols :
          our_stream'[q].stream_id = our_stream[q].stream_id /\ their_stream'[q].stream_id = their_stream[q].stream_id
  <2>1. CASE our_stream' = [our_stream EXCEPT ![p] = Open(id)] /\ UNCHANGED their_stream /\ id = our_stream[p].stream_id
    <3>1. our_stream'[p] = Open(id) /\ \A q \in SubscriptionProtocols \ {p} : our_stream'[q] = our_stream[q]
        BY <2>1 DEF Base, Tables, SubscriptionTables
    <3>2. our_stream'[p].stream_id = id
        BY <3>1, EntryIds, ZenonT(40)
    <3> QED
        BY <2>1, <3>1, <3>2
  <2>2. CASE their_stream' = [their_stream EXCEPT ![p] = Open(id)] /\ UNCHANGED our_stream /\ id = their_stream[p].stream_id
    <3>1. their_stream'[p] = Open(id) /\ \A q \in SubscriptionProtocols \ {p} : their_stream'[q] = their_stream[q]
        BY <2>2 DEF Base, Tables, SubscriptionTables
    <3>2. their_stream'[p].stream_id = id
        BY <3>1, EntryIds, ZenonT(40)
    <3> QED
        BY <2>2, <3>1, <3>2
  <2> QED
      BY <2>1, <2>2
<1>2. \A x : HasOwner(x) => HasOwner(x)'
    BY <1>1 DEF HasOwner, SubscriptionStreams
<1>3. \A x \in StreamIds : InTheirTables(x) => x \in DOMAIN bufs /\ bufs[x].state \in {"Open", "ClosedByUs"}
  <2>1. OutputIs({"IncomingProtocol", "Data", "OutgoingAccepted"})
      BY DEF OutputIs
  <2> QED
      BY <2>1, HeldMeansKnown DEF RolesInv, TheirRoles
<1> QED
    BY <1>1, <1>2, <1>3, RolesFewer

LEMMA ProposedKeepsRoles ==
    ASSUME Base, RolesInv, NEW p \in SubscriptionProtocols, on_subscription_proposed(p)
    PROVE  RolesInv'
<1>0. Next /\ Handles
    BY DEF Next, OnOutput, on_subscription_proposed
<1>1. PICK id \in StreamIds : id = Id /\ out # <<>> /\ out' = <<>>
    BY <1>0, HandlesBetweenTurns DEF Handles
<1>2. OutputIs({"IncomingProtocol"}) /\ their_stream[p] = Closed
    BY <1>1, ProposedOnNew DEF on_subscription_proposed
<1>3. CASE CanReply(Id)
  <2>1. /\ DOMAIN bufs' = DOMAIN bufs /\ bufs'[id].state = "Open"
        /\ \A x \in DOMAIN bufs \ {id} : bufs'[x] = bufs[x]
    <3>1. PICK b \in Multistream : b = bufs[id] /\ id \in DOMAIN bufs
        BY <1>1, <1>3 DEF CanReply, Waiting, Base, MultistreamInv, Entries
    <3> DEFINE c == [b EXCEPT !.state = "Open", !.max_buffer_size = MaxSize]
    <3>2. bufs' = [bufs EXCEPT ![id] = c]
        BY <1>1, <1>3, <3>1, ZenonT(40) DEF on_subscription_proposed, accept_protocol, CanReply
    <3>3. c.state = "Open"
        BY DEF Multistream
    <3> HIDE DEF c
    <3> QED
        BY <3>1, <3>2, <3>3
  <2>2. /\ their_stream' = [their_stream EXCEPT ![p] = Handshake(id)]
        /\ UNCHANGED <<inflight_requests, incoming_requests, our_stream, response_ids>>
      BY <1>1, <1>3 DEF on_subscription_proposed, Goto
  <2>3. OurRoles'
      BY <1>0, <2>2, OurRolesFewer DEF RolesInv
  <2>4. id \in DOMAIN bufs
      BY <1>1, <1>3 DEF CanReply, Waiting
  <2>5. TheirRoles'
      BY <1>1, <1>2, <2>1, <2>2, <2>4, TheirRolesAccepted
  <2>6. HasOwner(id)' /\ \A x : HasOwner(x) => HasOwner(x)'
    <3>1. /\ their_stream'[p] = Handshake(id)
          /\ \A q \in SubscriptionProtocols \ {p} : their_stream'[q] = their_stream[q]
        BY <2>2 DEF Base, Tables, SubscriptionTables
    <3>2. their_stream'[p].stream_id = id /\ their_stream[p].stream_id = 0
        BY <1>2, <3>1, EntryIds, ZenonT(40)
    <3>3. id \in SubscriptionStreams(p)' /\ \A q \in SubscriptionProtocols : SubscriptionStreams(q) \subseteq SubscriptionStreams(q)'
        BY <2>2, <3>1, <3>2, StreamServiceConstants DEF SubscriptionStreams
    <3> QED
        BY <2>2, <3>3 DEF HasOwner
  <2>7. Owned'
      BY <1>0, <2>1, <2>6, EndedStays DEF RolesInv, Owned
  <2> QED
      BY <1>1, <2>3, <2>5, <2>7 DEF RolesInv, OutFits
<1>4. CASE ~CanReply(Id)
    BY <1>0, <1>2, <1>4, RolesAfterFailedReply DEF on_subscription_proposed
<1> QED
    BY <1>3, <1>4

LEMMA OpenedByRemoteKeepsRoles ==
    ASSUME Base, RolesInv, NEW p \in SubscriptionProtocols, on_subscription_opened_by_remote(p)
    PROVE  RolesInv'
<1>0. Next /\ Handles
    BY DEF Next, OnOutput, on_subscription_opened_by_remote
<1>1. PICK id \in StreamIds : id = Id /\ out # <<>> /\ out' = <<>>
    BY <1>0, HandlesBetweenTurns DEF Handles
<1>2. OutputIs({"IncomingProtocol"}) /\ their_stream[p] = Closed /\ our_stream[p] = Closed
    BY <1>1, ProposedOnNew DEF on_subscription_opened_by_remote
<1>3. CASE CanReply(Id)
  <2>0. PICK n \in StreamIds : n = next_stream_id /\ Ours(n) /\ n # 0 /\ OpenStream
      BY <1>3, StreamServiceConstants
         DEF on_subscription_opened_by_remote, OpenStream, Base, MultistreamInv, Types, ServiceType
  <2>1. /\ id \in DOMAIN bufs /\ id # n
        /\ DOMAIN bufs' = DOMAIN bufs \cup {n} /\ bufs'[id].state = "Open"
        /\ \A x \in DOMAIN bufs \ {id, n} : bufs'[x] = bufs[x]
    <3>1. PICK b \in Multistream : b = bufs[id] /\ id \in DOMAIN bufs
        BY <1>1, <1>3 DEF CanReply, Waiting, Base, MultistreamInv, Entries
    <3> DEFINE c == [b EXCEPT !.state = "Open", !.max_buffer_size = MaxSize]
    <3>2. bufs' = Put([bufs EXCEPT ![id] = c], n, NewOutgoing(<<p>>, MaxSize))
        BY <1>1, <1>3, <2>0, <3>1, ZenonT(40) DEF on_subscription_opened_by_remote
    <3>3. c.state = "Open"
        BY DEF Multistream
    <3> HIDE DEF c
    <3>4. id # n
        BY <1>1, <1>2, <2>0, ProposedIsNew
    <3> QED
        BY <3>1, <3>2, <3>3, <3>4 DEF Put
  <2>2. /\ their_stream' = [their_stream EXCEPT ![p] = Handshake(id)]
        /\ our_stream' = [our_stream EXCEPT ![p] = Handshake(n)]
        /\ UNCHANGED <<inflight_requests, incoming_requests, response_ids>>
      BY <1>1, <1>3, <2>0 DEF on_subscription_opened_by_remote, Goto
  <2>3. OurRoles'
      BY <1>0, <2>0, <2>2, OurRolesMore, ZenonT(40) DEF RolesInv
  <2>4. \A x \in DOMAIN bufs \ {id} : ~Ours(x) => x \in DOMAIN bufs' /\ bufs'[x] = bufs[x]
      BY <2>0, <2>1
  <2>5. TheirRoles'
      BY <1>1, <1>2, <2>1, <2>2, <2>4, TheirRolesAccepted
  <2>6. HasOwner(id)' /\ HasOwner(n)' /\ \A x : HasOwner(x) => HasOwner(x)'
    <3>1. /\ their_stream'[p] = Handshake(id) /\ our_stream'[p] = Handshake(n)
          /\ \A q \in SubscriptionProtocols \ {p} : their_stream'[q] = their_stream[q] /\ our_stream'[q] = our_stream[q]
        BY <2>2 DEF Base, Tables, SubscriptionTables
    <3>2. /\ their_stream'[p].stream_id = id /\ their_stream[p].stream_id = 0
          /\ our_stream'[p].stream_id = n /\ our_stream[p].stream_id = 0
        BY <1>2, <3>1, EntryIds, ZenonT(40)
    <3>3. {id, n} \subseteq SubscriptionStreams(p)' /\ \A q \in SubscriptionProtocols : SubscriptionStreams(q) \subseteq SubscriptionStreams(q)'
        BY <2>0, <3>1, <3>2, StreamServiceConstants DEF SubscriptionStreams
    <3> QED
        BY <2>2, <3>3 DEF HasOwner
  <2>7. Owned'
      BY <1>0, <2>1, <2>6, EndedStays DEF RolesInv, Owned
  <2> QED
      BY <1>1, <2>3, <2>5, <2>7 DEF RolesInv, OutFits
<1>4. CASE ~CanReply(Id)
    BY <1>0, <1>2, <1>4, RolesAfterFailedReply DEF on_subscription_opened_by_remote
<1> QED
    BY <1>3, <1>4

LEMMA SubscriptionOutputKeepsRoles ==
    ASSUME Base, RolesInv, NEW p \in SubscriptionProtocols, OnSubscriptionOutput(p)
    PROVE  RolesInv'
<1>0. Next /\ Handles
    BY DEF Next, OnOutput, OnSubscriptionOutput, on_our_stream_accepted, on_our_handshake, on_our_stream_over,
           on_subscription_unwanted, on_subscription_proposed, on_subscription_opened_by_remote,
           on_their_handshake, on_notification, on_their_stream_over
<1>1. PICK id \in StreamIds : id = Id /\ out # <<>> /\ out' = <<>> /\ id # 0
    BY <1>0, HandlesBetweenTurns, StreamServiceConstants DEF Handles
<1>2. ForOurs(p) => id = our_stream[p].stream_id /\ \A x \in StreamIds : InTheirTables(x) => x # Id
    BY <1>1, TheirsOrOurs DEF ForOurs, InOurTables
<1>3. \A m : Give(Notification(p, m)) => UNCHANGED response_ids
    BY DEF Give, Notification
<1>4. CASE on_our_stream_accepted(p)
    BY <1>0, <1>1, <1>2, <1>4, RolesSame DEF on_our_stream_accepted, SendHandshake, Fail, Finish, Goto
<1>5. CASE on_our_handshake(p)
  <2>1. UNCHANGED response_ids /\ OutputIs({"Data"}) /\ UNCHANGED bufs
      BY <1>3, <1>5 DEF on_our_handshake, OpenedIf, Goto, ValidHandshake, KeepStreams
  <2> QED
      BY <1>0, <1>1, <1>2, <1>5, <2>1, RolesAfterHandshake DEF on_our_handshake
<1>6. CASE on_our_stream_over(p)
  <2>1. UNCHANGED response_ids /\ Id \in SubscriptionStreams(p)
      BY <1>1, <1>2, <1>3, <1>6 DEF on_our_stream_over, SubscriptionOver, SubscriptionStreams
  <2> QED
      BY <1>0, <1>1, <1>6, <2>1, RolesAfterCancel DEF on_our_stream_over, SubscriptionOver
<1>7. CASE on_subscription_unwanted(p)
  <2>1. OutputIs({"IncomingProtocol"})
      BY <1>1, <1>7, ProposedOnNew DEF on_subscription_unwanted
  <2>2. KeepTables /\ UNCHANGED response_ids /\ reset_streams({id})
      BY <1>1, <1>7 DEF on_subscription_unwanted, Goto, reset_stream_immediately
  <2>3. \A x \in StreamIds : InTheirTables(x) => x # id
      BY <1>1, <2>1, ProposedIsNew
  <2>4. \A x : HasOwner(x) => HasOwner(x)'
      BY <2>2, SameOwners DEF KeepTables
  <2> QED
      BY <1>0, <1>1, <2>2, <2>3, <2>4, RolesAfterReset DEF KeepTables
<1>8. CASE on_subscription_proposed(p)
    BY <1>8, ProposedKeepsRoles
<1>9. CASE on_subscription_opened_by_remote(p)
    BY <1>9, OpenedByRemoteKeepsRoles
<1>10. CASE on_their_handshake(p)
  <2>1. OutputIs({"Data"}) /\ id = their_stream[p].stream_id
      BY <1>1, <1>10 DEF on_their_handshake, ValidHandshake, ForTheirs, OutputIs
  <2>2. CASE CanSend(Id)
    <3>1. UNCHANGED response_ids /\ UNCHANGED bufs
        BY <1>3, <1>10, <2>2 DEF on_their_handshake, OpenedIf, Goto, SendHandshake
    <3> QED
        BY <1>0, <1>1, <1>10, <2>1, <2>2, <3>1, RolesAfterHandshake DEF on_their_handshake
  <2>3. CASE ~CanSend(Id)
    <3>1. OutputIs({"IncomingProtocol", "Data", "OutgoingAccepted"})
        BY <2>1 DEF OutputIs
    <3> QED
        BY <1>0, <1>1, <1>10, <2>3, <3>1, RolesSame DEF on_their_handshake, Fail, Finish, Goto
  <2> QED
      BY <2>2, <2>3
<1>11. CASE on_notification(p)
  <2>1. OutputIs({"IncomingProtocol", "Data", "OutgoingAccepted"})
      BY <1>11 DEF on_notification, OutputIs
  <2> QED
      BY <1>0, <1>1, <1>3, <1>11, <2>1, RolesSame DEF on_notification, KeepStreams
<1>12. CASE on_their_stream_over(p)
  <2>1. UNCHANGED response_ids
      BY <1>3, <1>12 DEF on_their_stream_over, SubscriptionOver
  <2>2. Id \in SubscriptionStreams(p) \/ OutputIs({"IncomingProtocol", "Data", "OutgoingAccepted"})
      BY <1>1, <1>12 DEF on_their_stream_over, ForTheirs, SubscriptionStreams, OutputIs
  <2> QED
      BY <1>0, <1>1, <1>12, <2>1, <2>2, RolesAfterCancel DEF on_their_stream_over, SubscriptionOver
<1> QED
    BY <1>4, <1>5, <1>6, <1>7, <1>8, <1>9, <1>10, <1>11, <1>12 DEF OnSubscriptionOutput

LEMMA InitRoles ==
    ASSUME Init
    PROVE  RolesInv
<1>1. /\ DOMAIN inflight_requests = {} /\ DOMAIN incoming_requests = {} /\ DOMAIN bufs = {} /\ out = <<>>
      /\ \A p \in SubscriptionProtocols : our_stream[p] = Closed /\ their_stream[p] = Closed
    BY DEF Init, MultistreamInit
<1>2. \A p \in SubscriptionProtocols : our_stream[p].stream_id = 0 /\ their_stream[p].stream_id = 0
    BY <1>1, EntryIds
<1>3. 0 \notin StreamIds
    BY StreamServiceConstants
<1>4. \A id \in StreamIds : ~InOurTables(id) /\ ~InTheirTables(id)
    BY <1>1, <1>2, <1>3 DEF InOurTables, InTheirTables
<1>5. OutFits /\ Owned
    BY <1>1 DEF OutFits, Owned
<1> QED
    BY <1>1, <1>2, <1>4, <1>5 DEF RolesInv, OurRoles, TheirRoles

\* The tables are disjoint because the two sides number their streams apart.
LEMMA RolesMeanOwned ==
    ASSUME Base, RolesInv
    PROVE  OpenStreamsOwned
<1>0. /\ DOMAIN inflight_requests \subseteq StreamIds /\ DOMAIN incoming_requests \subseteq StreamIds
      /\ \A p \in SubscriptionProtocols : SubscriptionStreams(p) \subseteq StreamIds
    BY DEF Base, Tables, SubscriptionTables, SubscriptionStreams
<1>1. \A id \in StreamIds : ~(InOurTables(id) /\ InTheirTables(id))
    BY DEF RolesInv, OurRoles, TheirRoles
<1>2. DOMAIN inflight_requests \cap DOMAIN incoming_requests = {}
    BY <1>0, <1>1 DEF InOurTables, InTheirTables
<1>3. ASSUME NEW p \in SubscriptionProtocols
      PROVE  /\ SubscriptionStreams(p) \cap (DOMAIN inflight_requests \cup DOMAIN incoming_requests) = {}
             /\ our_stream[p].stream_id # 0 => our_stream[p].stream_id # their_stream[p].stream_id
             /\ \A q \in SubscriptionProtocols \ {p} : SubscriptionStreams(p) \cap SubscriptionStreams(q) = {}
  <2>1. SubscriptionStreams(p) \cap (DOMAIN inflight_requests \cup DOMAIN incoming_requests) = {}
    <3> SUFFICES ASSUME NEW id \in StreamIds, id \in SubscriptionStreams(p),
                        id \in DOMAIN inflight_requests \cup DOMAIN incoming_requests
                 PROVE  FALSE
        BY <1>0
    <3>1. CASE id = our_stream[p].stream_id
        BY <1>1, <3>1 DEF InOurTables, InTheirTables, RolesInv, OurRoles
    <3>2. CASE id = their_stream[p].stream_id
        BY <1>1, <3>2 DEF InOurTables, InTheirTables, RolesInv, TheirRoles
    <3> QED
        BY <3>1, <3>2 DEF SubscriptionStreams
  <2>2. our_stream[p].stream_id # 0 => our_stream[p].stream_id # their_stream[p].stream_id
      BY <1>0, <1>1 DEF InOurTables, InTheirTables, SubscriptionStreams
  <2>3. ASSUME NEW q \in SubscriptionProtocols \ {p}
        PROVE  SubscriptionStreams(p) \cap SubscriptionStreams(q) = {}
    <3> SUFFICES ASSUME NEW id \in StreamIds, id \in SubscriptionStreams(p), id \in SubscriptionStreams(q)
                 PROVE  FALSE
        BY <1>0
    <3>1. id # 0 /\ id \in {our_stream[p].stream_id, their_stream[p].stream_id}
                 /\ id \in {our_stream[q].stream_id, their_stream[q].stream_id}
        BY DEF SubscriptionStreams
    <3>2. ~(id = our_stream[p].stream_id /\ id = our_stream[q].stream_id)
        BY <2>3, <3>1 DEF RolesInv, OurRoles
    <3>3. ~(id = their_stream[p].stream_id /\ id = their_stream[q].stream_id)
        BY <2>3, <3>1 DEF RolesInv, TheirRoles
    <3> QED
        BY <1>1, <3>1, <3>2, <3>3 DEF InOurTables, InTheirTables
  <2> QED
      BY <2>1, <2>2, <2>3
<1>4. RolesDisjoint
    BY <1>2, <1>3 DEF RolesDisjoint
<1> QED
    BY <1>4 DEF OpenStreamsOwned, RolesInv, Owned, HasOwner, Outgoing

-----------------------------------------------------------------------------
(* A subscription is reported when our handshake went out on both its streams *)

\* What is yet to be told, and what has been.
Told ==
    /\ at # "Out" => returned = <<>>
    /\ next_buf \in Seq(UserMessages)
    /\ \A i \in DOMAIN next_buf : next_buf[i].kind # "Request" /\ next_buf[i].res # "Opened"
    /\ \A id \in response_ids : id \in StreamIds /\ ~Ours(id)

\* The remote has just agreed to the protocol of one of our streams.
JustAccepted(id) == out # <<>> /\ Id = id /\ OutputIs({"OutgoingAccepted"})

OurShake(p, id) ==
    /\ our_stream[p].state = "Open" => HandshakeSent(p, id)
    /\ our_stream[p].state = "Handshake" /\ id \in DOMAIN bufs /\ ~ended =>
          IF bufs[id].state = Outgoing \/ JustAccepted(id)
          THEN sent[id] = <<HEADER, p>> /\ bufs[id].rest = <<>>
          ELSE HandshakeSent(p, id)

TheirShake(p, id) ==
    /\ their_stream[p].state = "Open" => HandshakeSent(p, id)
    /\ their_stream[p].state = "Handshake" /\ id \in DOMAIN bufs /\ bufs[id].state = "Open" =>
          /\ sent[id] # <<>> /\ sent[id][1] = HEADER
          /\ sent[id][Len(sent[id])] = p

Handshakes ==
    \A p \in SubscriptionProtocols : \A id \in StreamIds :
        /\ our_stream[p].stream_id = id => OurShake(p, id)
        /\ their_stream[p].stream_id = id => TheirShake(p, id)

\* More may be sent on a stream, but not less.
SentGrows(id) == sent'[id] = sent[id] \/ \E more \in Seq(Messages) : sent'[id] = sent[id] \o more

LEMMA HandshakeSentStays ==
    ASSUME Base, NEW p, NEW id \in StreamIds, HandshakeSent(p, id), SentGrows(id)
    PROVE  HandshakeSent(p, id)'
<1>1. PICK s \in Seq(Messages) : s = sent[id]
    BY DEF Base, MultistreamInv, Types
<1>2. PICK i \in DOMAIN s \ {1} : s # <<>> /\ s[1] = HEADER /\ s[i] = OurHandshake /\ s[i - 1] = p
    BY <1>1 DEF HandshakeSent
<1>3. CASE sent'[id] = s
    BY <1>1, <1>2, <1>3 DEF HandshakeSent
<1>4. ASSUME NEW more \in Seq(Messages), sent'[id] = s \o more
      PROVE  HandshakeSent(p, id)'
  <2>0. s \o more \in Seq(Messages)
      OBVIOUS
  <2>1. PICK t \in Seq(Messages) : t = s \o more
      BY <2>0, ZenonT(40)
  <2>2. Len(t) = Len(s) + Len(more) /\ \A j \in 1 .. Len(s) : j \in DOMAIN t /\ t[j] = s[j]
      BY <2>1
  <2>3. i \in 2 .. Len(s) /\ i - 1 \in 1 .. Len(s) /\ 1 \in 1 .. Len(s)
      BY <1>2
  <2>4. t # <<>> /\ t[1] = HEADER /\ i \in DOMAIN t \ {1} /\ t[i] = OurHandshake /\ t[i - 1] = p
      BY <1>2, <2>2, <2>3
  <2> QED
      BY <1>4, <2>1, <2>4 DEF HandshakeSent
<1> QED
    BY <1>1, <1>3, <1>4 DEF SentGrows

\* The streams of a subscription that a step does not touch.
LEMMA HandshakesStep ==
    ASSUME Base, Handshakes, ended => ended', NEW touched,
           \A x \in StreamIds \ touched :
              /\ sent'[x] = sent[x]
              /\ x \in DOMAIN bufs' =>
                    /\ x \in DOMAIN bufs
                    /\ bufs'[x].state = bufs[x].state /\ bufs'[x].rest = bufs[x].rest
              /\ JustAccepted(x)' <=> JustAccepted(x),
           \A p \in SubscriptionProtocols : \A x \in StreamIds :
              /\ our_stream'[p].stream_id = x =>
                    (x \notin touched /\ our_stream'[p] = our_stream[p]) \/ OurShake(p, x)'
              /\ their_stream'[p].stream_id = x =>
                    (x \notin touched /\ their_stream'[p] = their_stream[p]) \/ TheirShake(p, x)'
    PROVE  Handshakes'
<1> SUFFICES ASSUME NEW p \in SubscriptionProtocols, NEW x \in StreamIds
             PROVE  /\ our_stream'[p].stream_id = x => OurShake(p, x)'
                    /\ their_stream'[p].stream_id = x => TheirShake(p, x)'
    BY DEF Handshakes
<1>1. SentGrows(x) => (HandshakeSent(p, x) => HandshakeSent(p, x)')
    BY HandshakeSentStays
<1>2. ASSUME our_stream'[p].stream_id = x, x \notin touched, our_stream'[p] = our_stream[p]
      PROVE  OurShake(p, x)'
  <2>1. OurShake(p, x) /\ SentGrows(x)
      BY <1>2 DEF Handshakes, SentGrows
  <2> QED
      BY ZenonT(40), <1>1, <1>2, <2>1 DEF OurShake
<1>3. ASSUME their_stream'[p].stream_id = x, x \notin touched, their_stream'[p] = their_stream[p]
      PROVE  TheirShake(p, x)'
  <2>1. TheirShake(p, x) /\ SentGrows(x)
      BY <1>3 DEF Handshakes, SentGrows
  <2> QED
      BY <1>1, <1>3, <2>1 DEF TheirShake
<1> QED
    BY <1>2, <1>3

LEMMA CallsKeepTold ==
    ASSUME Base, Told, Calls
    PROVE  Told'
<1>1. UserCalls
    BY DEF Calls, request, cancel_request, respond, subscribe, send_notification, cancel_subscription
<1>2. \/ UNCHANGED next_buf
      \/ \E id \in StreamIds : next_buf' = Append(next_buf, Response(id, "Cancelled"))
      \/ \E p \in SubscriptionProtocols : next_buf' = Append(next_buf, Notification(p, "Closed"))
    BY DEF Calls, request, cancel_request, respond, subscribe, send_notification, cancel_subscription
<1>3. UNCHANGED next_buf \/ \E m \in UserMessages :
          m.kind # "Request" /\ m.res # "Opened" /\ next_buf' = Append(next_buf, m)
    BY ZenonT(40), <1>2, ResponseMessage, NotificationMessage DEF Results, Response, Notification
<1>4. /\ next_buf' \in Seq(UserMessages)
      /\ \A i \in DOMAIN next_buf' : next_buf'[i].kind # "Request" /\ next_buf'[i].res # "Opened"
    BY <1>3 DEF Told
<1> QED
    BY <1>1, <1>4 DEF Told, UserCalls

LEMMA LoopKeepsTold ==
    ASSUME Base, Told,
           next \/ LoopHead \/ yamux_next \/ drop_next \/ \E p \in Timed : sleep_ends(p)
    PROVE  Told'
<1>1. CASE handle_request_timeouts
  <2>1. PICK id : Give(Response(id, "Timeout"))
      BY <1>1, FirstTimedOut
  <2>2. at' = "Out" /\ UNCHANGED <<next_buf, response_ids>>
      BY <1>1, <2>1 DEF handle_request_timeouts, Give, Response
  <2> QED
      BY <2>2 DEF Told
<1>2. CASE next_emit
  <2>1. next_buf \in Seq(UserMessages) /\ next_buf # <<>> /\ next_buf' = Tail(next_buf) /\ at' = "Out"
      BY <1>2 DEF next_emit, Told, Give
  <2>2. \A i \in DOMAIN next_buf' : i + 1 \in DOMAIN next_buf /\ next_buf'[i] = next_buf[i + 1]
      BY <2>1
  <2>3. Head(next_buf).kind # "Request"
      BY <2>1 DEF Told
  <2>4. UNCHANGED response_ids
      BY <1>2, <2>3 DEF next_emit, Give
  <2> QED
      BY <2>1, <2>2, <2>4 DEF Told
<1>3. CASE next
    BY <1>3 DEF next, Told
<1>4. CASE next_await \/ yamux_next \/ drop_next
    BY <1>4 DEF next_await, yamux_next, drop_next, Goto, Told
<1>5. ASSUME NEW p \in Timed, sleep_ends(p)
      PROVE  Told'
    BY <1>5 DEF sleep_ends, Goto, Told
<1> QED
    BY <1>1, <1>2, <1>3, <1>4, <1>5 DEF LoopHead

LEMMA OutputKeepsTold ==
    ASSUME Base, RolesInv, Told, OnOutput
    PROVE  Told'
<1>1. CASE Handles /\ \E place : Goto(place)
    BY <1>1 DEF Handles, Goto, Told
<1>2. ASSUME NEW m, Handles, Give(m), m.kind # "Request"
      PROVE  Told'
    BY <1>2 DEF Handles, Give, Told
<1>3. CASE on_incoming_request
  <2>1. Handles /\ Id \in StreamIds /\ ~Ours(Id)
    <3>1. Handles /\ Id \in DOMAIN incoming_requests /\ Id \in StreamIds
        BY <1>3, HandlesBetweenTurns DEF on_incoming_request, ForIncomingRequest
    <3> QED
        BY <3>1 DEF RolesInv, TheirRoles, InTheirTables
  <2>2. CASE Give(Request(Id, IncomingRequest))
    <3>1. response_ids' = response_ids \cup {Id} /\ at' = "Out"
        BY <2>2 DEF Give, Request
    <3> QED
        BY <2>1, <3>1 DEF Handles, Told
  <2> QED
      BY <1>1, <1>3, <2>1, <2>2 DEF on_incoming_request
<1>4. CASE on_request_over
  <2>1. PICK res : Give(Response(Id, res))
      BY <1>4 DEF on_request_over
  <2>2. Handles /\ Response(Id, res).kind # "Request"
      BY <1>4 DEF on_request_over, Response
  <2> QED
      BY <1>2, <2>1, <2>2
<1>5. CASE on_request_accepted \/ on_request_proposed \/ on_unknown_protocol \/ on_unknown_stream
    BY <1>1, <1>5 DEF on_request_accepted, on_request_proposed, on_unknown_protocol, on_unknown_stream,
                    Fail, Finish
<1>6. ASSUME NEW p \in SubscriptionProtocols, OnSubscriptionOutput(p)
      PROVE  Told'
  <2>1. \A note : Notification(p, note).kind # "Request"
      BY DEF Notification
  <2>2. Handles /\ ((\E place : Goto(place)) \/ \E note : Give(Notification(p, note)))
      BY <1>6 DEF OnSubscriptionOutput, on_our_stream_accepted, on_our_handshake, on_our_stream_over,
             on_subscription_unwanted, on_subscription_proposed, on_subscription_opened_by_remote,
             on_their_handshake, on_notification, on_their_stream_over, Fail, Finish, OpenedIf,
             SubscriptionOver
  <2> QED
      BY <1>1, <1>2, <2>1, <2>2
<1> QED
    BY <1>3, <1>4, <1>5, <1>6 DEF OnOutput, OnSubscriptionOutput

KeepSubscriptions == UNCHANGED <<our_stream, their_stream>>

\* A step on a stream that no subscription has.
LEMMA OtherHandshakes ==
    ASSUME Base, RolesInv, Handshakes, KeepSubscriptions, ended => ended',
           NEW id \in StreamIds, ~Ours(id), ~Held(id),
           \A x \in StreamIds : ~JustAccepted(x) /\ ~JustAccepted(x)',
           \A x \in StreamIds \ {id} :
              /\ sent'[x] = sent[x]
              /\ x \in DOMAIN bufs' => x \in DOMAIN bufs /\ bufs'[x] = bufs[x]
    PROVE  Handshakes'
<1>1. \A x \in StreamIds : InOurTables(x) \/ InTheirTables(x) => x # id
    BY DEF RolesInv, OurRoles, TheirRoles
<1>2. \A p \in SubscriptionProtocols : \A x \in StreamIds :
          /\ our_stream'[p].stream_id = x => x \notin {id} /\ our_stream'[p] = our_stream[p]
          /\ their_stream'[p].stream_id = x => x \notin {id} /\ their_stream'[p] = their_stream[p]
    BY <1>1 DEF KeepSubscriptions, InOurTables, InTheirTables
<1> QED
    BY <1>2, HandshakesStep

\* Nothing happens but that entries are read, and some are removed with the
\* subscriptions that have them; or the connection ends.
LEMMA FewerHandshakes ==
    ASSUME Base, Handshakes, ended => ended', UNCHANGED sent,
           \A x \in DOMAIN bufs' :
              x \in DOMAIN bufs /\ bufs'[x].state = bufs[x].state /\ bufs'[x].rest = bufs[x].rest,
           \A p \in SubscriptionProtocols :
              /\ our_stream'[p] = our_stream[p] \/ our_stream'[p].stream_id = 0
              /\ their_stream'[p] = their_stream[p] \/ their_stream'[p].stream_id = 0,
           \A p \in SubscriptionProtocols : \A x \in StreamIds :
              our_stream'[p].stream_id = x => ended' \/ (JustAccepted(x)' <=> JustAccepted(x))
    PROVE  Handshakes'
<1> SUFFICES ASSUME NEW p \in SubscriptionProtocols, NEW x \in StreamIds
             PROVE  /\ our_stream'[p].stream_id = x => OurShake(p, x)'
                    /\ their_stream'[p].stream_id = x => TheirShake(p, x)'
    BY DEF Handshakes
<1>1. (HandshakeSent(p, x) => HandshakeSent(p, x)') /\ x # 0
    BY StreamServiceConstants DEF HandshakeSent
<1>2. ASSUME our_stream'[p].stream_id = x
      PROVE  OurShake(p, x)'
  <2>1. OurShake(p, x) /\ our_stream'[p] = our_stream[p]
      BY <1>1, <1>2 DEF Handshakes
  <2>2. ended' \/ (JustAccepted(x)' <=> JustAccepted(x))
      BY <1>2
  <2> QED
      BY <1>1, <2>1, <2>2 DEF OurShake
<1>3. ASSUME their_stream'[p].stream_id = x
      PROVE  TheirShake(p, x)'
  <2>1. TheirShake(p, x) /\ their_stream'[p] = their_stream[p]
      BY <1>1, <1>3 DEF Handshakes
  <2> QED
      BY <1>1, <2>1 DEF TheirShake
<1> QED
    BY <1>2, <1>3

LEMMA SameHandshakes ==
    ASSUME Base, Handshakes, KeepSubscriptions, ended => ended', UNCHANGED sent,
           \A x \in DOMAIN bufs' :
              x \in DOMAIN bufs /\ bufs'[x].state = bufs[x].state /\ bufs'[x].rest = bufs[x].rest,
           \A x \in StreamIds : JustAccepted(x)' <=> JustAccepted(x)
    PROVE  Handshakes'
<1>1. \A p \in SubscriptionProtocols : our_stream'[p] = our_stream[p] /\ their_stream'[p] = their_stream[p]
    BY DEF KeepSubscriptions
<1> QED
    BY <1>1, FewerHandshakes

LEMMA NotAccepted ==
    ASSUME NEW x, \/ out' = <<>>
                  \/ \E id, state, message : out' = <<Output(id, state, message)>> /\ state # "OutgoingAccepted"
    PROVE  ~JustAccepted(x)'
BY DEF JustAccepted, OutputIs, Output

LEMMA TurnHandshakes ==
    ASSUME Base, RolesInv, Handshakes, KeepSubscriptions, Turn
    PROVE  Handshakes'
<1>0. out = <<>> /\ \A x \in StreamIds : ~JustAccepted(x)
    BY NoOutputBelow DEF Base, JustAccepted
<1>1. CASE take_buffer \/ parse_bad_length
  <2>1. \A x \in StreamIds : ~JustAccepted(x)'
      BY <1>0, <1>1, NotAccepted DEF take_buffer, parse_bad_length
  <2> QED
      BY <1>0, <1>1, <2>1, SameHandshakes DEF take_buffer, parse_bad_length, KeepService, service, End
<1>2. ASSUME NEW id \in DOMAIN bufs, NEW c, bufs' = [bufs EXCEPT ![id] = c], UNCHANGED <<sent, ended>>,
             c.state = bufs[id].state, c.rest = bufs[id].rest, \A x \in StreamIds : ~JustAccepted(x)'
      PROVE  Handshakes'
  <2>1. \A x \in DOMAIN bufs' :
            x \in DOMAIN bufs /\ bufs'[x].state = bufs[x].state /\ bufs'[x].rest = bufs[x].rest
      BY <1>2
  <2> QED
      BY <1>0, <1>2, <2>1, SameHandshakes
<1>3. CASE parse_nothing
  <2>1. PICK id \in DOMAIN bufs, b \in Multistream : parsing = id /\ b = bufs[id]
      BY <1>3 DEF Base, MultistreamInv, StreamsKnown, Entries, parse_nothing
  <2>2. AfterNothing(b).state = b.state /\ AfterNothing(b).rest = b.rest
      BY DEF AfterNothing, Multistream
  <2>3. bufs' = [bufs EXCEPT ![id] = AfterNothing(b)] /\ UNCHANGED <<sent, ended, out>>
      BY <1>3, <2>1 DEF parse_nothing, KeepService, service
  <2>4. \A x \in StreamIds : ~JustAccepted(x)'
      BY <1>0, <2>3, NotAccepted
  <2> QED
      BY <1>2, <2>1, <2>2, <2>3, <2>4
<1>4. CASE Abort \/ parse_outgoing_rejected
  <2>1. /\ bufs' = Without(bufs, {parsing}) /\ UNCHANGED <<sent, ended>>
        /\ out' = <<>> \/ out' = <<Output(parsing, "OutgoingRejected", HEADER)>>
      BY <1>0, <1>4 DEF Abort, parse_outgoing_rejected, reset_stream_immediately, reset_streams
  <2>2. \A x \in StreamIds : ~JustAccepted(x)'
      BY <2>1, NotAccepted
  <2>3. \A x \in DOMAIN bufs' : x \in DOMAIN bufs /\ bufs'[x] = bufs[x]
      BY <2>1 DEF Without
  <2> QED
      BY <1>0, <2>1, <2>2, <2>3, SameHandshakes
<1>5. ASSUME NEW id \in DOMAIN bufs, NEW c, bufs[id].state \in IncomingStates, bufs' = [bufs EXCEPT ![id] = c],
             ended => ended', \A x \in StreamIds \ {id} : sent'[x] = sent[x], \A x \in StreamIds : ~JustAccepted(x)'
      PROVE  Handshakes'
  <2>1. id \in StreamIds /\ ~Ours(id) /\ ~Held(id)
      BY <1>5 DEF Base, MultistreamInv, Types, Entries, Negotiating, Held, IncomingStates
  <2>2. \A x \in StreamIds \ {id} : x \in DOMAIN bufs' => x \in DOMAIN bufs /\ bufs'[x] = bufs[x]
      BY <1>5
  <2> QED
      BY <1>0, <1>5, <2>1, <2>2, OtherHandshakes
<1>6. CASE parse_new_incoming /\ ~Abort
  <2>1. PICK id \in DOMAIN bufs : parsing = id /\ bufs[id].state \in IncomingStates /\ id \in StreamIds
      BY <1>6, Parsed DEF parse_new_incoming, Base, IncomingStates
  <2>2. PICK c : Answer(c, <<HEADER>>)
      BY <1>6 DEF parse_new_incoming
  <2>3. \A x \in StreamIds \ {id} : sent'[x] = sent[x]
      BY <2>1, <2>2 DEF Answer, SendOn, Base, MultistreamInv, Types
  <2>4. bufs' = [bufs EXCEPT ![id] = c] /\ out' = <<>> /\ (ended => ended')
      BY <1>0, <2>1, <2>2 DEF Answer, KeepService, service, End
  <2>5. \A x \in StreamIds : ~JustAccepted(x)'
      BY <2>4, NotAccepted
  <2> QED
      BY <1>5, <2>1, <2>3, <2>4, <2>5
<1>7. CASE parse_incoming_protocol /\ ~Abort
  <2>1. PICK id \in DOMAIN bufs : parsing = id /\ bufs[id].state \in IncomingStates /\ id \in StreamIds
      BY <1>7, Parsed DEF parse_incoming_protocol, Base, IncomingStates
  <2>2. PICK c : Emit(c, "IncomingProtocol")
      BY <1>7 DEF parse_incoming_protocol
  <2>3. bufs' = [bufs EXCEPT ![id] = c] /\ UNCHANGED <<sent, ended>> /\ out' = <<Output(id, "IncomingProtocol", Msg)>>
      BY <2>1, <2>2 DEF Emit, KeepService, service
  <2>4. \A x \in StreamIds : ~JustAccepted(x)'
      BY <2>3, NotAccepted
  <2> QED
      BY <1>5, <2>1, <2>3, <2>4
<1>8. CASE parse_outgoing_header /\ ~Abort
  <2>1. PICK id \in DOMAIN bufs, b \in Multistream, c \in Multistream :
            parsing = id /\ b = bufs[id] /\ c = AfterMessage(b) /\ c.state = b.state /\ c.rest = b.rest
      BY <1>8, Parsed DEF parse_outgoing_header, Base
  <2> DEFINE d == [c EXCEPT !.seen_header = TRUE]
  <2>2. bufs' = [bufs EXCEPT ![id] = d] /\ UNCHANGED <<sent, ended, out>>
      BY <1>8, <2>1 DEF parse_outgoing_header, KeepService, service
  <2>3. d.state = b.state /\ d.rest = b.rest
      BY <2>1 DEF Multistream
  <2> HIDE DEF d
  <2>4. \A x \in StreamIds : ~JustAccepted(x)'
      BY <1>0, <2>2, NotAccepted
  <2> QED
      BY <1>2, <2>1, <2>2, <2>3, <2>4
<1>9. CASE parse_data
  <2>1. PICK id \in DOMAIN bufs, b \in Multistream, c \in Multistream :
            parsing = id /\ b = bufs[id] /\ c = AfterMessage(b) /\ c.state = b.state /\ c.rest = b.rest
      BY <1>9, Parsed DEF parse_data, Base
  <2>2. bufs' = [bufs EXCEPT ![id] = c] /\ UNCHANGED <<sent, ended>> /\ out' = <<Output(id, "Data", Msg)>>
      BY <1>9, <2>1 DEF parse_data, Emit, KeepService, service
  <2>3. \A x \in StreamIds : ~JustAccepted(x)'
      BY <2>2, NotAccepted
  <2> QED
      BY <1>2, <2>1, <2>2, <2>3
<1>10. ASSUME NEW id \in StreamIds, Ours(id), ended => ended',
              \A x \in StreamIds \ {id} :
                 /\ sent'[x] = sent[x]
                 /\ x \in DOMAIN bufs' => x \in DOMAIN bufs /\ bufs'[x] = bufs[x]
                 /\ ~JustAccepted(x)',
              \A p \in SubscriptionProtocols : our_stream[p].stream_id = id => OurShake(p, id)'
       PROVE  Handshakes'
  <2>1. \A x \in StreamIds : InTheirTables(x) => x # id
      BY <1>10 DEF RolesInv, TheirRoles
  <2>2. \A p \in SubscriptionProtocols : \A x \in StreamIds :
            /\ our_stream'[p].stream_id = x => (x \notin {id} /\ our_stream'[p] = our_stream[p]) \/ OurShake(p, x)'
            /\ their_stream'[p].stream_id = x => x \notin {id} /\ their_stream'[p] = their_stream[p]
      BY <1>10, <2>1 DEF KeepSubscriptions, InTheirTables
  <2> QED
      BY <1>0, <1>10, <2>2, HandshakesStep
<1>11. CASE parse_outgoing_accepted
  <2>1. PICK id \in DOMAIN bufs, c \in Multistream :
            /\ parsing = id /\ c = AfterMessage(bufs[id]) /\ bufs[id].state = Outgoing /\ id \in StreamIds /\ Ours(id)
            /\ c.rest = bufs[id].rest /\ ~ended
    <3>1. ~ended
        BY <1>11 DEF parse_outgoing_accepted, Parse, Base, MultistreamInv, Turns
    <3> QED
        BY <1>11, <3>1, Parsed DEF parse_outgoing_accepted, Outgoing, Base
  <2> DEFINE d == [c EXCEPT !.state = "Open"]
  <2>2. bufs' = [bufs EXCEPT ![id] = d] /\ UNCHANGED <<sent, ended>> /\ out' = <<Output(id, "OutgoingAccepted", Msg)>>
      BY <1>11, <2>1 DEF parse_outgoing_accepted, Emit, KeepService, service
  <2>3. d.rest = bufs[id].rest
      BY <2>1 DEF Multistream
  <2> HIDE DEF d
  <2>4. /\ JustAccepted(id)' /\ \A x \in StreamIds \ {id} : ~JustAccepted(x)'
        /\ bufs'[id].rest = bufs[id].rest
        /\ \A x \in DOMAIN bufs \ {id} : bufs'[x] = bufs[x]
      BY <2>2, <2>3 DEF JustAccepted, Id, OutputIs, Output
  <2>5. ASSUME NEW p \in SubscriptionProtocols, our_stream[p].stream_id = id
        PROVE  OurShake(p, id)'
    <3>1. OurShake(p, id) /\ our_stream'[p] = our_stream[p]
        BY <2>1, <2>5 DEF Handshakes, KeepSubscriptions
    <3>2. HandshakeSent(p, id) => HandshakeSent(p, id)'
        BY <2>2 DEF HandshakeSent
    <3> QED
        BY <2>1, <2>2, <2>4, <3>1, <3>2 DEF OurShake
  <2> QED
      BY <1>10, <2>1, <2>2, <2>4, <2>5
<1>12. CASE parse_outgoing_try_next
  <2>1. PICK id \in DOMAIN bufs, b \in Multistream, c \in Multistream :
            parsing = id /\ b = bufs[id] /\ c = AfterMessage(b) /\ b.state = Outgoing
            /\ id \in StreamIds /\ Ours(id) /\ b.rest # <<>> /\ ~ended
      BY <1>12, Parsed DEF parse_outgoing_try_next, Outgoing, Base, MultistreamInv, Turns, Parse
  <2>2. PICK d : Answer(d, <<Head(b.rest)>>)
      BY <1>12, <2>1 DEF parse_outgoing_try_next
  <2>3. <<Head(b.rest)>> \in Seq(Messages)
    <3>1. Head(b.rest) \in Messages
        BY <2>1 DEF Multistream, Messages
    <3> QED
        BY <3>1
  <2>4. SentGrows(id) /\ \A x \in StreamIds \ {id} : sent'[x] = sent[x]
    <3>1. CASE UNCHANGED sent
        BY <3>1 DEF SentGrows
    <3>2. CASE SendOn(id, <<Head(b.rest)>>)
        BY <2>1, <2>3, <3>2, SendType DEF SentGrows, Base, MultistreamInv, Types
    <3> QED
        BY <2>1, <2>2, <3>1, <3>2 DEF Answer
  <2>5. /\ bufs' = [bufs EXCEPT ![id] = d] /\ out' = <<>> /\ (ended => ended')
      BY <1>0, <2>1, <2>2 DEF Answer, KeepService, service, End
  <2>6. \A x \in StreamIds : ~JustAccepted(x)'
      BY <2>5, NotAccepted
  <2>7. ASSUME NEW p \in SubscriptionProtocols, our_stream[p].stream_id = id
        PROVE  OurShake(p, id)'
    <3>1. OurShake(p, id) /\ our_stream'[p] = our_stream[p]
        BY <2>1, <2>7 DEF Handshakes, KeepSubscriptions
    <3>2. our_stream[p].state # "Handshake"
        BY <2>1, <3>1 DEF OurShake
    <3>3. HandshakeSent(p, id) => HandshakeSent(p, id)'
        BY <2>1, <2>4, HandshakeSentStays
    <3> QED
        BY <3>1, <3>2, <3>3 DEF OurShake
  <2>8. \A x \in StreamIds \ {id} : x \in DOMAIN bufs' => x \in DOMAIN bufs /\ bufs'[x] = bufs[x]
      BY <2>5
  <2> QED
      BY <1>10, <2>1, <2>4, <2>5, <2>6, <2>7, <2>8
<1> QED
    BY <1>1, <1>3, <1>4, <1>6, <1>7, <1>8, <1>9, <1>11, <1>12 DEF Turn, parse_waiting_for_accept

LEMMA RemoteHandshakes ==
    ASSUME Base, RolesInv, Handshakes, KeepSubscriptions, Remote, RemoteReopensOnlyClosed
    PROVE  Handshakes'
<1>0. out = <<>> /\ \A x \in StreamIds : ~JustAccepted(x)
    BY NoOutputBelow DEF Base, JustAccepted
<1>1. CASE recv_end \/ \E id \in StreamIds : lose(id)
  <2>1. \A x \in StreamIds : ~JustAccepted(x)'
      BY <1>0, <1>1, NotAccepted DEF recv_end, lose
  <2> QED
      BY <1>0, <1>1, <2>1, SameHandshakes DEF recv_end, End, lose, Lose
<1>2. ASSUME NEW id \in StreamIds, recv_opened(id)
      PROVE  Handshakes'
  <2>1. id \notin DOMAIN bufs /\ ~Ours(id)
    <3>1. ~present[id] /\ present'[id] /\ ~Ours(id)
        BY <1>2 DEF recv_opened, HandOpened, Base, MultistreamInv, Types, ServiceType
    <3> QED
        BY <3>1 DEF RemoteReopensOnlyClosed
  <2>2. ~Held(id) /\ out' = <<>>
      BY <1>0, <1>2, <2>1 DEF Held, recv_opened
  <2>3. \A x \in StreamIds \ {id} : sent'[x] = sent[x] /\ (x \in DOMAIN bufs' => x \in DOMAIN bufs /\ bufs'[x] = bufs[x])
      BY <1>2, <2>1 DEF recv_opened, Put, Base, MultistreamInv, Types
  <2>4. \A x \in StreamIds : ~JustAccepted(x)'
      BY <2>2, NotAccepted
  <2>5. UNCHANGED ended
      BY <1>2 DEF recv_opened, HandOpened
  <2> QED
      BY <1>0, <2>1, <2>2, <2>3, <2>4, <2>5, OtherHandshakes
<1>3. ASSUME NEW id \in StreamIds,
             recv_closed(id) \/ \E chunk \in Chunks : recv_data_too_large(id, chunk)
      PROVE  Handshakes'
  <2>1. /\ bufs' = Without(bufs, {id}) /\ UNCHANGED <<sent, ended>>
        /\ \/ out' = <<>>
           \/ out' = <<Output(id, "ClosedByRemote", HEADER)>>
           \/ out' = <<Output(id, "IncomingMessageTooLarge", HEADER)>>
      BY <1>3 DEF recv_closed, HandClosed, recv_data_too_large, reset_stream_immediately, reset_streams
  <2>2. \A x \in StreamIds : ~JustAccepted(x)'
      BY <2>1, NotAccepted
  <2>3. \A x \in DOMAIN bufs' : x \in DOMAIN bufs /\ bufs'[x] = bufs[x]
      BY <2>1 DEF Without
  <2> QED
      BY <1>0, <2>1, <2>2, <2>3, SameHandshakes
<1>4. ASSUME NEW id \in StreamIds, NEW chunk \in Chunks, recv_data(id, chunk)
      PROVE  Handshakes'
  <2>1. PICK b \in Multistream : b = bufs[id] /\ id \in DOMAIN bufs
      BY <1>4 DEF recv_data, Base, MultistreamInv, Entries
  <2> DEFINE c == [b EXCEPT !.buffer = @ \o chunk]
  <2>2. bufs' = [bufs EXCEPT ![id] = c]
      BY <1>4, <2>1, ZenonT(40) DEF recv_data
  <2>3. c.state = b.state /\ c.rest = b.rest
      BY DEF Multistream
  <2> HIDE DEF c
  <2>4. UNCHANGED <<sent, ended>> /\ out' = <<>>
      BY <1>0, <1>4 DEF recv_data, HandData
  <2>5. \A x \in StreamIds : ~JustAccepted(x)'
      BY <2>4, NotAccepted
  <2>6. \A x \in DOMAIN bufs' :
            x \in DOMAIN bufs /\ bufs'[x].state = bufs[x].state /\ bufs'[x].rest = bufs[x].rest
      BY <2>1, <2>2, <2>3
  <2> QED
      BY <1>0, <2>4, <2>5, <2>6, SameHandshakes
<1> QED
    BY <1>1, <1>2, <1>3, <1>4 DEF Remote

\* A subscription is over.
LEMMA CancelledHandshakes ==
    ASSUME Base, Handshakes, NEW p \in SubscriptionProtocols, cancel_subscription_silently(p), UNCHANGED sent,
           \A q \in SubscriptionProtocols \ {p} : \A x \in StreamIds :
              our_stream[q].stream_id = x => (JustAccepted(x)' <=> JustAccepted(x))
    PROVE  Handshakes'
<1>1. our_stream'[p] = Closed /\ their_stream'[p] = Closed
    BY DEF cancel_subscription_silently, Base, Tables, SubscriptionTables
<1>2. \A q \in SubscriptionProtocols \ {p} : our_stream'[q] = our_stream[q] /\ their_stream'[q] = their_stream[q]
    BY DEF cancel_subscription_silently, Base, Tables, SubscriptionTables
<1>3. our_stream'[p].stream_id = 0 /\ their_stream'[p].stream_id = 0 /\ 0 \notin StreamIds
    BY <1>1, EntryIds, StreamServiceConstants
<1>4. UNCHANGED ended /\ \A x \in DOMAIN bufs' : x \in DOMAIN bufs /\ bufs'[x] = bufs[x]
    BY DEF cancel_subscription_silently, reset_streams, Without
<1> QED
    BY <1>2, <1>3, <1>4, FewerHandshakes

LEMMA CallsKeepHandshakes ==
    ASSUME Base, RolesInv, Told, Handshakes, Calls
    PROVE  Handshakes'
<1>0. UserCalls /\ out = <<>> /\ out' = <<>>
  <2>1. UserCalls
      BY DEF Calls, request, cancel_request, respond, subscribe, send_notification, cancel_subscription
  <2> QED
      BY <2>1, UserBetweenTurns DEF UserCalls
<1>1. \A x \in StreamIds : ~JustAccepted(x) /\ ~JustAccepted(x)'
    BY <1>0, NotAccepted DEF JustAccepted
<1>2. ASSUME NEW p \in Protocols, open_stream(<<p>>, MaxSize), UNCHANGED their_stream,
             \/ UNCHANGED our_stream
             \/ p \in SubscriptionProtocols /\ our_stream' = [our_stream EXCEPT ![p] = Handshake(next_stream_id)]
      PROVE  Handshakes'
  <2>1. PICK n \in StreamIds : n = next_stream_id /\ Ours(n) /\ n \in Nat
      BY <1>2, StreamServiceConstants DEF open_stream, OpenStream, Base, MultistreamInv, Types, ServiceType
  <2>2. /\ \A x \in StreamIds \ {n} : sent'[x] = sent[x] /\ (x \in DOMAIN bufs' => x \in DOMAIN bufs /\ bufs'[x] = bufs[x])
        /\ sent'[n] = <<HEADER, p>> /\ bufs'[n] = NewOutgoing(<<p>>, MaxSize)
        /\ UNCHANGED ended
      BY <1>2, <2>1 DEF open_stream, OpenStream, Put, Base, MultistreamInv, Types
  <2>3. bufs'[n].state = Outgoing /\ bufs'[n].rest = <<>>
      BY <2>2 DEF NewOutgoing, Outgoing
  <2>4. \A x \in StreamIds : InOurTables(x) \/ InTheirTables(x) => x # n
      BY <2>1 DEF RolesInv, OurRoles, TheirRoles
  <2>5. ASSUME NEW q \in SubscriptionProtocols, NEW x \in StreamIds, our_stream'[q].stream_id = x
        PROVE  (x \notin {n} /\ our_stream'[q] = our_stream[q]) \/ OurShake(q, x)'
    <3>1. CASE our_stream'[q] = our_stream[q]
        BY <2>4, <2>5, <3>1 DEF InOurTables
    <3>2. CASE our_stream'[q] # our_stream[q]
      <4>1. q = p /\ our_stream'[q] = Handshake(n)
          BY <1>2, <2>1, <3>2 DEF Base, Tables, SubscriptionTables
      <4>2. our_stream'[q].state = "Handshake" /\ our_stream'[q].stream_id = n
          BY <4>1 DEF Handshake
      <4> QED
          BY <2>2, <2>3, <2>5, <4>1, <4>2 DEF OurShake
    <3> QED
        BY <3>1, <3>2
  <2>6. ASSUME NEW q \in SubscriptionProtocols, NEW x \in StreamIds, their_stream'[q].stream_id = x
        PROVE  x \notin {n} /\ their_stream'[q] = their_stream[q]
      BY <1>2, <2>4, <2>6 DEF InTheirTables
  <2> QED
      BY <1>1, <2>2, <2>5, <2>6, HandshakesStep
<1>3. ASSUME NEW p \in RequestNames, request(p)
      PROVE  Handshakes'
    BY <1>2, <1>3, ConnectionTypes DEF request
<1>4. ASSUME NEW p \in SubscriptionProtocols, subscribe(p)
      PROVE  Handshakes'
    BY <1>2, <1>4, ConnectionTypes DEF subscribe
<1>5. ASSUME NEW id \in StreamIds, cancel_request(id)
      PROVE  Handshakes'
  <2>1. /\ KeepSubscriptions /\ UNCHANGED <<sent, ended>>
        /\ \A x \in DOMAIN bufs' : x \in DOMAIN bufs /\ bufs'[x] = bufs[x]
      BY <1>5 DEF cancel_request, reset_stream_immediately, reset_streams, Without, KeepSubscriptions
  <2> QED
      BY <1>1, <2>1, SameHandshakes
<1>6. ASSUME NEW id \in StreamIds, respond(id)
      PROVE  Handshakes'
  <2>1. SentGrows(id) /\ \A x \in StreamIds \ {id} : sent'[x] = sent[x]
    <3>1. <<ResponsePayload>> \in Seq(Messages)
        BY ConnectionTypes
    <3>2. CASE UNCHANGED sent
        BY <3>2 DEF SentGrows
    <3>3. CASE SendOn(id, <<ResponsePayload>>)
        BY <3>1, <3>3, SendType DEF SentGrows, Base, MultistreamInv, Types
    <3> QED
        BY <1>6, <3>2, <3>3 DEF respond
  <2>2. /\ \A x \in DOMAIN bufs' \ {id} : x \in DOMAIN bufs /\ bufs'[x] = bufs[x]
        /\ id \in DOMAIN bufs' => bufs'[id].state = "ClosedByUs"
        /\ UNCHANGED <<ended, our_stream, their_stream>>
    <3>1. close_stream(id)
        BY <1>6 DEF respond
    <3>2. id \in DOMAIN bufs' => bufs'[id].state = "ClosedByUs"
        BY <3>1, ClosedStates
    <3> QED
        BY <1>6, <3>1, <3>2 DEF respond, close_stream, Close, KeepService, service
  <2>3. ~Ours(id)
      BY <1>6 DEF respond, Told
  <2>4. ASSUME NEW q \in SubscriptionProtocols, NEW x \in StreamIds, our_stream'[q].stream_id = x
        PROVE  x \notin {id} /\ our_stream'[q] = our_stream[q]
      BY <2>2, <2>3, <2>4 DEF RolesInv, OurRoles, InOurTables
  <2>5. ASSUME NEW q \in SubscriptionProtocols, NEW x \in StreamIds, their_stream'[q].stream_id = x
        PROVE  (x \notin {id} /\ their_stream'[q] = their_stream[q]) \/ TheirShake(q, x)'
    <3>1. CASE x # id
        BY <2>2, <3>1
    <3>2. CASE x = id
      <4>1. TheirShake(q, x) /\ their_stream'[q] = their_stream[q]
          BY <2>2, <2>5 DEF Handshakes
      <4>2. HandshakeSent(q, x) => HandshakeSent(q, x)'
          BY <2>1, <3>2, HandshakeSentStays
      <4> QED
          BY <2>2, <3>2, <4>1, <4>2 DEF TheirShake
    <3> QED
        BY <3>1, <3>2
  <2> QED
      BY <1>1, <2>1, <2>2, <2>4, <2>5, HandshakesStep
<1>7. ASSUME NEW p \in SubscriptionProtocols, send_notification(p)
      PROVE  Handshakes'
  <2>1. PICK id \in StreamIds : id = our_stream[p].stream_id /\ our_stream[p].state = "Open" /\ Ours(id)
    <3>1. CanSend(our_stream[p].stream_id)
        BY <1>7 DEF send_notification, send_data
    <3>2. our_stream[p].stream_id \in StreamIds
        BY <3>1 DEF CanSend, Base, MultistreamInv, Types
    <3> QED
        BY <1>7, <3>2 DEF send_notification, RolesInv, OurRoles, InOurTables
  <2>2. SentGrows(id) /\ \A x \in StreamIds \ {id} : sent'[x] = sent[x]
    <3>1. <<NotificationPayload>> \in Seq(Messages) /\ SendOn(id, <<NotificationPayload>>)
        BY <1>7, <2>1, ConnectionTypes DEF send_notification, send_data
    <3> QED
        BY <3>1, SendType DEF SentGrows, Base, MultistreamInv, Types
  <2>3. UNCHANGED <<ended, bufs, our_stream, their_stream>>
      BY <1>7 DEF send_notification, KeepService, service
  <2>4. ASSUME NEW q \in SubscriptionProtocols, NEW x \in StreamIds, our_stream'[q].stream_id = x
        PROVE  (x \notin {id} /\ our_stream'[q] = our_stream[q]) \/ OurShake(q, x)'
    <3>1. CASE x # id
        BY <2>3, <3>1
    <3>2. CASE x = id
      <4>1. OurShake(q, x) /\ our_stream'[q] = our_stream[q]
          BY <2>3, <2>4 DEF Handshakes
      <4>2. q = p
          BY <2>1, <2>3, <2>4, <3>2, StreamServiceConstants DEF RolesInv, OurRoles
      <4>3. HandshakeSent(q, x) => HandshakeSent(q, x)'
          BY <2>2, <3>2, HandshakeSentStays
      <4> QED
          BY <2>1, <4>1, <4>2, <4>3 DEF OurShake
    <3> QED
        BY <3>1, <3>2
  <2>5. ASSUME NEW q \in SubscriptionProtocols, NEW x \in StreamIds, their_stream'[q].stream_id = x
        PROVE  x \notin {id} /\ their_stream'[q] = their_stream[q]
      BY <2>1, <2>3, <2>5 DEF RolesInv, TheirRoles, InTheirTables
  <2> QED
      BY <1>1, <2>2, <2>3, <2>4, <2>5, HandshakesStep
<1>8. ASSUME NEW p \in SubscriptionProtocols, cancel_subscription(p)
      PROVE  Handshakes'
    BY <1>1, <1>8, CancelledHandshakes DEF cancel_subscription
<1> QED
    BY <1>3, <1>4, <1>5, <1>6, <1>7, <1>8 DEF Calls

LEMMA LoopKeepsHandshakes ==
    ASSUME Base, RolesInv, Handshakes, RemoteReopensOnlyClosed,
           next \/ LoopHead \/ yamux_next \/ drop_next \/ \E p \in Timed : sleep_ends(p)
    PROVE  Handshakes'
<1>1. CASE handle_request_timeouts
  <2>1. \E ids : reset_streams(ids)
      BY <1>1, FirstTimedOut
  <2>2. UNCHANGED <<sent, out>> /\ KeepSubscriptions
      BY <1>1 DEF handle_request_timeouts, KeepSubscriptions
  <2>3. UNCHANGED ended /\ \A x \in DOMAIN bufs' : x \in DOMAIN bufs /\ bufs'[x] = bufs[x]
      BY <2>1 DEF reset_streams, Without
  <2>4. \A x \in StreamIds : JustAccepted(x)' <=> JustAccepted(x)
      BY <2>2 DEF JustAccepted, Id, OutputIs
  <2> QED
      BY <2>2, <2>3, <2>4, SameHandshakes
<1>2. CASE yamux_next
    BY <1>2, TurnHandshakes, RemoteHandshakes DEF yamux_next, KeepTables, KeepSubscriptions
<1>3. CASE UNCHANGED mvars /\ KeepTables
  <2>1. UNCHANGED <<sent, out, bufs, ended>> /\ KeepSubscriptions
      BY <1>3 DEF mvars, service, KeepTables, KeepSubscriptions
  <2>2. \A x \in StreamIds : JustAccepted(x)' <=> JustAccepted(x)
      BY <2>1 DEF JustAccepted, Id, OutputIs
  <2> QED
      BY <2>1, <2>2, SameHandshakes
<1> QED
    BY <1>1, <1>2, <1>3 DEF next, LoopHead, next_emit, next_await, drop_next, sleep_ends

\* An output is handled, and nothing sent: that the remote has just accepted a
\* stream of a subscription may not be passed over.
LEMMA HandledHandshakes ==
    ASSUME Base, Handshakes, Handles, KeepSubscriptions, UNCHANGED sent, ended => ended',
           \A x \in DOMAIN bufs' : x \in DOMAIN bufs /\ bufs'[x] = bufs[x],
           \/ ended'
           \/ ~OutputIs({"OutgoingAccepted"})
           \/ \A p \in SubscriptionProtocols : our_stream[p].stream_id # Id
    PROVE  Handshakes'
<1>1. \A x : ~JustAccepted(x)'
    BY NotAccepted DEF Handles
<1>2. \A p \in SubscriptionProtocols :
          /\ our_stream'[p] = our_stream[p] /\ their_stream'[p] = their_stream[p]
          /\ \A x \in StreamIds : our_stream'[p].stream_id = x => ended' \/ ~JustAccepted(x)
    BY DEF KeepSubscriptions, JustAccepted
<1> QED
    BY <1>1, <1>2, FewerHandshakes

LEMMA FailedHandshakes ==
    ASSUME Base, Handshakes, Handles, Fail
    PROVE  Handshakes'
<1>1. KeepSubscriptions /\ UNCHANGED <<sent, bufs>> /\ ended'
    BY DEF Fail, Finish, End, KeepTables, KeepSubscriptions
<1> QED
    BY <1>1, HandledHandshakes

\* A stream that is proposed to us is answered, and no subscription has it.
LEMMA AnsweredHandshakes ==
    ASSUME Base, RolesInv, Handshakes, Handles, OutputIs({"IncomingProtocol"}), KeepSubscriptions,
           NEW id \in StreamIds, id = Id, ended => ended',
           \A x \in StreamIds \ {id} :
              /\ sent'[x] = sent[x]
              /\ x \in DOMAIN bufs' => x \in DOMAIN bufs /\ bufs'[x] = bufs[x]
    PROVE  Handshakes'
<1>1. \A x \in StreamIds : ~JustAccepted(x) /\ ~JustAccepted(x)'
    BY NotAccepted DEF Handles, JustAccepted, OutputIs
<1>2. /\ id \in DOMAIN bufs /\ bufs[id].state = "NewIncomingProtocolWaitingForAccept"
      /\ ~Ours(id)
    BY ProposedIsNew DEF Handles
<1>3. ~Held(id)
    BY <1>2 DEF Held
<1> QED
    BY <1>1, <1>2, <1>3, OtherHandshakes

\* What accept_protocol and reject_protocol change.
LEMMA ReplyTouchesOne ==
    ASSUME Base, NEW id \in StreamIds, id = Id, accept_protocol(id, MaxSize) \/ reject_protocol(id)
    PROVE  \A x \in StreamIds \ {id} :
               sent'[x] = sent[x] /\ (x \in DOMAIN bufs' => x \in DOMAIN bufs /\ bufs'[x] = bufs[x])
<1>1. sent \in [StreamIds -> Seq(Messages)]
    BY DEF Base, MultistreamInv, Types
<1>2. \A m : Reply(id, m) => \A x \in StreamIds \ {id} : sent'[x] = sent[x]
    BY <1>1 DEF Reply, SendOn
<1>3. \A x \in StreamIds \ {id} : sent'[x] = sent[x]
    BY <1>2 DEF accept_protocol, reject_protocol
<1> QED
    BY <1>3, RepliedEntries

\* The answer does not go out, and the connection ends.
LEMMA FailedReplyHandshakes ==
    ASSUME Base, RolesInv, Handshakes, Handles, OutputIs({"IncomingProtocol"}),
           accept_protocol(Id, MaxSize) \/ reject_protocol(Id), Finish
    PROVE  Handshakes'
<1>1. Id \in StreamIds
    BY HandlesBetweenTurns
<1>2. KeepSubscriptions /\ (ended => ended')
    BY DEF Finish, End, KeepTables, KeepSubscriptions
<1> QED
    BY <1>1, <1>2, ReplyTouchesOne, AnsweredHandshakes

LEMMA RequestOutputKeepsHandshakes ==
    ASSUME Base, RolesInv, Handshakes,
           on_request_accepted \/ on_request_over \/ on_incoming_request \/ on_request_proposed
           \/ on_unknown_protocol \/ on_unknown_stream
    PROVE  Handshakes'
<1>0. Handles
    BY DEF on_request_accepted, on_request_over, on_incoming_request, on_request_proposed,
           on_unknown_protocol, on_unknown_stream
<1>1. PICK id \in StreamIds : id = Id /\ out # <<>> /\ out' = <<>>
    BY <1>0, HandlesBetweenTurns DEF Handles
<1>2. CASE Fail
    BY <1>0, <1>2, FailedHandshakes
<1>3. ASSUME ForRequest
      PROVE  \A p \in SubscriptionProtocols : our_stream[p].stream_id # Id /\ their_stream[p].stream_id # Id
  <2>1. InOurTables(id) /\ \A p \in SubscriptionProtocols : our_stream[p].stream_id # Id
      BY <1>1, <1>3 DEF ForRequest, InOurTables, RolesInv, OurRoles
  <2>2. \A x \in StreamIds : InTheirTables(x) => x # id
      BY <2>1, TheirsOrOurs
  <2> QED
      BY <1>1, <2>1, <2>2 DEF InTheirTables
<1>4. CASE on_request_accepted /\ CanSend(Id)
  <2>1. \A x \in StreamIds \ {id} : sent'[x] = sent[x]
    <3>1. <<RequestPayload>> \in Seq(Messages) /\ SendOn(id, <<RequestPayload>>)
        BY <1>1, <1>4, ConnectionTypes DEF on_request_accepted, send_data
    <3> QED
        BY <3>1, SendType DEF Base, MultistreamInv, Types
  <2>2. /\ \A x \in DOMAIN bufs' \ {id} : x \in DOMAIN bufs /\ bufs'[x] = bufs[x]
        /\ UNCHANGED <<ended, our_stream, their_stream>>
      BY <1>1, <1>4 DEF on_request_accepted, close_stream, Close, KeepService, service
  <2>3. \A p \in SubscriptionProtocols : our_stream[p].stream_id # id /\ their_stream[p].stream_id # id
      BY <1>1, <1>3, <1>4 DEF on_request_accepted
  <2>4. \A x \in StreamIds \ {id} : ~JustAccepted(x) /\ ~JustAccepted(x)'
      BY <1>1, NotAccepted DEF JustAccepted
  <2>5. ASSUME NEW q \in SubscriptionProtocols, NEW x \in StreamIds
        PROVE  /\ our_stream'[q].stream_id = x => x \notin {id} /\ our_stream'[q] = our_stream[q]
               /\ their_stream'[q].stream_id = x => x \notin {id} /\ their_stream'[q] = their_stream[q]
      BY <2>2, <2>3
  <2> QED
      BY <2>1, <2>2, <2>4, <2>5, HandshakesStep
<1>5. CASE on_request_over
  <2>1. UNCHANGED <<sent, ended>> /\ KeepSubscriptions /\ \A x \in DOMAIN bufs' : x \in DOMAIN bufs /\ bufs'[x] = bufs[x]
      BY <1>5 DEF on_request_over, reset_streams, Without, KeepSubscriptions
  <2>2. \A p \in SubscriptionProtocols : our_stream[p].stream_id # Id
      BY <1>3, <1>5 DEF on_request_over
  <2> QED
      BY <1>0, <2>1, <2>2, HandledHandshakes
<1>6. CASE on_incoming_request
  <2>1. UNCHANGED <<sent, ended>> /\ KeepSubscriptions /\ \A x \in DOMAIN bufs' : x \in DOMAIN bufs /\ bufs'[x] = bufs[x]
      BY <1>6 DEF on_incoming_request, KeepStreams, KeepService, service, reset_stream_immediately, reset_streams,
                  Without, KeepSubscriptions
  <2>2. ~Ours(id)
      BY <1>1, <1>6 DEF on_incoming_request, ForIncomingRequest, InTheirTables, RolesInv, TheirRoles
  <2>3. \A p \in SubscriptionProtocols : our_stream[p].stream_id # id
      BY <2>2 DEF InOurTables, RolesInv, OurRoles
  <2> QED
      BY <1>0, <1>1, <2>1, <2>3, HandledHandshakes
<1>7. CASE on_request_proposed
  <2>1. OutputIs({"IncomingProtocol"}) /\ accept_protocol(id, MaxSize)
      BY <1>1, <1>7 DEF on_request_proposed, WantedRequest
  <2>2. CASE CanReply(Id)
    <3>1. KeepSubscriptions /\ UNCHANGED ended
        BY <1>7, <2>2 DEF on_request_proposed, KeepSubscriptions, KeepService, service
    <3> QED
        BY <1>0, <1>1, <2>1, <3>1, ReplyTouchesOne, AnsweredHandshakes
  <2>3. CASE ~CanReply(Id)
      BY <1>0, <1>1, <1>7, <2>1, <2>3, FailedReplyHandshakes DEF on_request_proposed
  <2> QED
      BY <2>2, <2>3
<1>8. CASE on_unknown_protocol
  <2>1. OutputIs({"IncomingProtocol"}) /\ reject_protocol(id)
      BY <1>1, <1>8 DEF on_unknown_protocol
  <2>2. CASE CanReply(Id)
    <3>1. KeepSubscriptions /\ UNCHANGED ended
        BY <1>8, <2>2 DEF on_unknown_protocol, KeepTables, KeepSubscriptions, KeepService, service
    <3> QED
        BY <1>0, <1>1, <2>1, <3>1, ReplyTouchesOne, AnsweredHandshakes
  <2>3. CASE ~CanReply(Id)
      BY <1>0, <1>1, <1>8, <2>1, <2>3, FailedReplyHandshakes DEF on_unknown_protocol
  <2> QED
      BY <2>2, <2>3
<1>9. CASE on_unknown_stream
  <2>1. UNCHANGED <<sent, ended>> /\ KeepSubscriptions /\ \A x \in DOMAIN bufs' : x \in DOMAIN bufs /\ bufs'[x] = bufs[x]
      BY <1>9 DEF on_unknown_stream, KeepTables, reset_streams, Without, KeepSubscriptions
  <2>2. \A p \in SubscriptionProtocols : our_stream[p].stream_id # Id
      BY <1>9 DEF on_unknown_stream, ForNobodyYet, ForOurs
  <2> QED
      BY <1>0, <2>1, <2>2, HandledHandshakes
<1> QED
    BY <1>2, <1>4, <1>5, <1>6, <1>7, <1>8, <1>9 DEF on_request_accepted

\* Our handshake goes out right after the protocol was agreed.
LEMMA HandshakeFollows ==
    ASSUME Base, NEW p, NEW id \in StreamIds, SendOn(id, <<OurHandshake>>),
           sent[id] # <<>>, sent[id][1] = HEADER, sent[id][Len(sent[id])] = p
    PROVE  HandshakeSent(p, id)'
<1>0. OurHandshake \in Messages /\ sent \in [StreamIds -> Seq(Messages)]
    BY ConnectionTypes DEF Base, MultistreamInv, Types
<1>1. PICK s \in Seq(Messages) : s = sent[id]
    BY <1>0
<1>2. s \o <<OurHandshake>> \in Seq(Messages)
    BY <1>0
<1>3. PICK t \in Seq(Messages) : t = s \o <<OurHandshake>>
    BY <1>2, ZenonT(40)
<1>4. Len(t) = Len(s) + 1 /\ t[Len(t)] = OurHandshake /\ \A j \in 1 .. Len(s) : t[j] = s[j]
    BY <1>0, <1>3
<1>5. Len(s) \in 1 .. Len(s) /\ 1 \in 1 .. Len(s)
    BY <1>1
<1>6. t # <<>> /\ t[1] = HEADER /\ Len(t) \in DOMAIN t \ {1} /\ t[Len(t) - 1] = p
    BY <1>1, <1>4, <1>5
<1>7. sent'[id] = t
    BY <1>0, <1>1, <1>3 DEF SendOn
<1> QED
    BY <1>4, <1>6, <1>7 DEF HandshakeSent

\* One stream of a subscription changes, with its entry in the tables; no
\* other subscription has that stream.
LEMMA OneSubscription ==
    ASSUME Base, RolesInv, Handshakes, Handles, NEW p \in SubscriptionProtocols,
           NEW id \in StreamIds, id = Id, UNCHANGED <<bufs, ended>>,
           \A x \in StreamIds \ {id} : sent'[x] = sent[x],
           \/ /\ our_stream[p].stream_id = id /\ our_stream'[p].stream_id = id /\ OurShake(p, id)'
              /\ \A q \in SubscriptionProtocols \ {p} : our_stream'[q] = our_stream[q]
              /\ UNCHANGED their_stream
           \/ /\ their_stream[p].stream_id = id /\ their_stream'[p].stream_id = id /\ TheirShake(p, id)'
              /\ \A q \in SubscriptionProtocols \ {p} : their_stream'[q] = their_stream[q]
              /\ UNCHANGED our_stream
    PROVE  Handshakes'
<1>1. \A x \in StreamIds \ {id} : ~JustAccepted(x) /\ ~JustAccepted(x)'
    BY NotAccepted DEF JustAccepted, Handles
<1>2. id # 0
    BY StreamServiceConstants
<1>3. ASSUME NEW q \in SubscriptionProtocols, NEW x \in StreamIds
      PROVE  /\ our_stream'[q].stream_id = x =>
                   (x \notin {id} /\ our_stream'[q] = our_stream[q]) \/ OurShake(q, x)'
             /\ their_stream'[q].stream_id = x =>
                   (x \notin {id} /\ their_stream'[q] = their_stream[q]) \/ TheirShake(q, x)'
  <2>1. CASE our_stream[p].stream_id = id /\ our_stream'[p].stream_id = id /\ OurShake(p, id)' /\ UNCHANGED their_stream
             /\ \A r \in SubscriptionProtocols \ {p} : our_stream'[r] = our_stream[r]
    <3>1. their_stream[q].stream_id # id
        BY <2>1, TheirsOrOurs DEF InOurTables, InTheirTables
    <3>2. our_stream[q].stream_id = id => q = p
        BY <1>2, <2>1 DEF RolesInv, OurRoles
    <3> QED
        BY <2>1, <3>1, <3>2
  <2>2. CASE their_stream[p].stream_id = id /\ their_stream'[p].stream_id = id /\ TheirShake(p, id)' /\ UNCHANGED our_stream
             /\ \A r \in SubscriptionProtocols \ {p} : their_stream'[r] = their_stream[r]
    <3>1. our_stream[q].stream_id # id
        BY <2>2, TheirsOrOurs DEF InOurTables, InTheirTables
    <3>2. their_stream[q].stream_id = id => q = p
        BY <1>2, <2>2 DEF RolesInv, TheirRoles
    <3> QED
        BY <2>2, <3>1, <3>2
  <2> QED
      BY <2>1, <2>2
<1> QED
    BY <1>1, <1>3, HandshakesStep

LEMMA OurOutputKeepsHandshakes ==
    ASSUME Base, RolesInv, Handshakes, NEW p \in SubscriptionProtocols,
           on_our_stream_accepted(p) \/ on_our_handshake(p) \/ on_our_stream_over(p)
    PROVE  Handshakes'
<1>0. Handles /\ our_stream[p].stream_id = Id
    BY DEF on_our_stream_accepted, on_our_handshake, on_our_stream_over, ForOurs
<1>1. PICK id \in StreamIds : id = Id /\ out # <<>> /\ out' = <<>> /\ ~ended
    BY <1>0, HandlesBetweenTurns DEF Handles
<1>2. OurShake(p, id)
    BY <1>0, <1>1 DEF Handshakes
<1>3. CASE on_our_stream_accepted(p) /\ CanSend(Id)
  <2>1. /\ SendOn(id, <<OurHandshake>>) /\ UNCHANGED <<bufs, ended, our_stream, their_stream>>
        /\ our_stream[p].state = "Handshake" /\ JustAccepted(id) /\ id \in DOMAIN bufs /\ bufs[id].state = "Open"
      BY <1>1, <1>3 DEF on_our_stream_accepted, SendHandshake, send_data, KeepService, service, KeepTables,
                        JustAccepted, CanSend
  <2>2. sent[id] = <<HEADER, p>>
      BY <1>1, <1>2, <2>1 DEF OurShake
  <2>3. sent[id] # <<>> /\ sent[id][1] = HEADER /\ sent[id][Len(sent[id])] = p
      BY <2>2
  <2>4. HandshakeSent(p, id)'
      BY <2>1, <2>3, HandshakeFollows
  <2>5. OurShake(p, id)'
    <3>1. ~JustAccepted(id)'
        BY <1>1, NotAccepted
    <3> QED
        BY <2>1, <2>4, <3>1 DEF OurShake, Outgoing
  <2>6. \A x \in StreamIds \ {id} : sent'[x] = sent[x]
      BY <2>1 DEF SendOn, Base, MultistreamInv, Types
  <2> QED
      BY <1>0, <1>1, <2>1, <2>5, <2>6, OneSubscription
<1>4. CASE on_our_stream_accepted(p) /\ Fail
    BY <1>0, <1>4, FailedHandshakes
<1>5. CASE on_our_handshake(p)
  <2>1. /\ our_stream[p].state = "Handshake" /\ OutputIs({"Data"})
        /\ our_stream' = [our_stream EXCEPT ![p] = Open(id)] /\ UNCHANGED <<their_stream, bufs, sent, ended>>
      BY <1>1, <1>5 DEF on_our_handshake, ValidHandshake, KeepStreams, KeepService, service
  <2>2. id \in DOMAIN bufs /\ bufs[id].state \in {"Open", "ClosedByUs"}
    <3>1. OutputIs({"Data", "OutgoingAccepted"})
        BY <2>1 DEF OutputIs
    <3> QED
        BY <1>1, <3>1 DEF RolesInv, OutFits
  <2>3. HandshakeSent(p, id)
    <3>1. ~JustAccepted(id)
        BY <2>1 DEF JustAccepted, OutputIs
    <3> QED
        BY <1>1, <1>2, <2>1, <2>2, <3>1 DEF OurShake, Outgoing
  <2>4. our_stream'[p] = Open(id) /\ \A q \in SubscriptionProtocols \ {p} : our_stream'[q] = our_stream[q]
      BY <2>1 DEF Base, Tables, SubscriptionTables
  <2>5. our_stream'[p].stream_id = id /\ our_stream'[p].state = "Open"
      BY <2>4, EntryIds, ZenonT(40)
  <2>6. OurShake(p, id)'
      BY <2>1, <2>3, <2>5 DEF OurShake, HandshakeSent
  <2> QED
      BY <1>0, <1>1, <2>1, <2>4, <2>5, <2>6, OneSubscription
<1>6. CASE on_our_stream_over(p)
  <2>1. cancel_subscription_silently(p) /\ UNCHANGED sent
      BY <1>6 DEF on_our_stream_over, SubscriptionOver
  <2>2. \A q \in SubscriptionProtocols \ {p} : our_stream[q].stream_id # id
      BY <1>0, <1>1, StreamServiceConstants DEF RolesInv, OurRoles
  <2>3. \A x \in StreamIds \ {id} : ~JustAccepted(x) /\ ~JustAccepted(x)'
      BY <1>1, NotAccepted DEF JustAccepted
  <2> QED
      BY <2>1, <2>2, <2>3, CancelledHandshakes
<1> QED
    BY <1>3, <1>4, <1>5, <1>6 DEF on_our_stream_accepted

\* A proposal is accepted: the stream was nobody's, and all that was sent on it
\* is the negotiation, which ends with the name of the protocol.
LEMMA ProposalAnswered ==
    ASSUME Base, RolesInv, Negotiated, Handles, NEW p \in SubscriptionProtocols,
           NEW id \in StreamIds, id = Id, OutputIs({"IncomingProtocol"}),
           their_stream' = [their_stream EXCEPT ![p] = Handshake(id)],
           sent'[id] = sent[id] \o <<p>>
    PROVE  /\ TheirShake(p, id)' /\ their_stream'[p].stream_id = id
           /\ \A q \in SubscriptionProtocols \ {p} : their_stream'[q] = their_stream[q]
           /\ ~Ours(id) /\ id \in DOMAIN bufs
           /\ \A q \in SubscriptionProtocols : our_stream[q].stream_id # id /\ their_stream[q].stream_id # id
           /\ \A x \in StreamIds : ~JustAccepted(x) /\ ~JustAccepted(x)'
<1>1. /\ id \in DOMAIN bufs /\ bufs[id].state = "NewIncomingProtocolWaitingForAccept"
      /\ ~Ours(id) /\ \A x \in StreamIds : InTheirTables(x) => x # id
    BY ProposedIsNew DEF Handles
<1>2. \A q \in SubscriptionProtocols : our_stream[q].stream_id # id /\ their_stream[q].stream_id # id
    BY <1>1 DEF InOurTables, InTheirTables, RolesInv, OurRoles
<1>3. \A x \in StreamIds : ~JustAccepted(x) /\ ~JustAccepted(x)'
    BY NotAccepted DEF Handles, JustAccepted, OutputIs
<1>4. their_stream'[p] = Handshake(id) /\ \A q \in SubscriptionProtocols \ {p} : their_stream'[q] = their_stream[q]
    BY DEF Base, Tables, SubscriptionTables
<1>5. their_stream'[p].stream_id = id /\ their_stream'[p].state = "Handshake"
    BY <1>4, EntryIds
<1>6. PICK s \in Seq(Messages) : s = sent[id] /\ s # <<>> /\ s[1] = HEADER
  <2>1. ~ended /\ NegotiatedStream(id)
      BY <1>1, HandlesBetweenTurns DEF Negotiated
  <2>2. sent[id] \in Seq(Messages)
      BY DEF Base, MultistreamInv, Types
  <2> QED
      BY <1>1, <2>1, <2>2 DEF NegotiatedStream
<1>7. p \in Messages
    BY ConnectionTypes DEF Messages
<1>8. sent'[id] # <<>> /\ sent'[id][1] = HEADER /\ sent'[id][Len(sent'[id])] = p
  <2>1. s \o <<p>> \in Seq(Messages)
      BY <1>7
  <2>2. PICK t \in Seq(Messages) : t = s \o <<p>>
      BY <2>1, ZenonT(40)
  <2>3. t # <<>> /\ t[1] = HEADER /\ t[Len(t)] = p
      BY <1>6, <1>7, <2>2
  <2> QED
      BY <1>6, <2>2, <2>3
<1>9. TheirShake(p, id)'
    BY <1>5, <1>8 DEF TheirShake
<1> QED
    BY <1>1, <1>2, <1>3, <1>4, <1>5, <1>9

LEMMA ProposedKeepsHandshakes ==
    ASSUME Base, RolesInv, Negotiated, Handshakes, NEW p \in SubscriptionProtocols,
           on_subscription_proposed(p), CanReply(Id)
    PROVE  Handshakes'
<1>0. Handles
    BY DEF on_subscription_proposed
<1>1. PICK id \in StreamIds : id = Id
    BY <1>0, HandlesBetweenTurns
<1>2. OutputIs({"IncomingProtocol"}) /\ out[1].message = p
    BY <1>1, ProposedOnNew DEF on_subscription_proposed
<1>3. /\ their_stream' = [their_stream EXCEPT ![p] = Handshake(id)] /\ UNCHANGED <<our_stream, ended>>
      /\ accept_protocol(id, MaxSize)
    BY <1>1 DEF on_subscription_proposed, KeepService, service
<1>4. sent'[id] = sent[id] \o <<p>>
  <2>1. bufs[id].protocol = p
      BY <1>0, <1>1, <1>2 DEF RolesInv, OutFits, Handles
  <2> QED
      BY <1>1, <1>3, <2>1 DEF accept_protocol, Reply, CanReply, SendOn, Base, MultistreamInv, Types
<1>5. \A x \in StreamIds \ {id} :
          sent'[x] = sent[x] /\ (x \in DOMAIN bufs' => x \in DOMAIN bufs /\ bufs'[x] = bufs[x])
    BY <1>1, <1>3, ReplyTouchesOne
<1>6. /\ TheirShake(p, id)' /\ their_stream'[p].stream_id = id
      /\ \A q \in SubscriptionProtocols \ {p} : their_stream'[q] = their_stream[q]
      /\ \A q \in SubscriptionProtocols : our_stream[q].stream_id # id /\ their_stream[q].stream_id # id
      /\ \A x \in StreamIds : ~JustAccepted(x) /\ ~JustAccepted(x)'
    BY ZenonT(40), <1>0, <1>1, <1>2, <1>3, <1>4, ProposalAnswered
<1>7. ASSUME NEW q \in SubscriptionProtocols, NEW x \in StreamIds
      PROVE  /\ our_stream'[q].stream_id = x => x \notin {id} /\ our_stream'[q] = our_stream[q]
             /\ their_stream'[q].stream_id = x =>
                   (x \notin {id} /\ their_stream'[q] = their_stream[q]) \/ TheirShake(q, x)'
    BY <1>3, <1>6
<1> QED
    BY ZenonT(40), <1>3, <1>5, <1>6, <1>7, HandshakesStep

LEMMA OpenedByRemoteKeepsHandshakes ==
    ASSUME Base, RolesInv, Negotiated, Handshakes, NEW p \in SubscriptionProtocols,
           on_subscription_opened_by_remote(p), CanReply(Id)
    PROVE  Handshakes'
<1>0. Handles
    BY DEF on_subscription_opened_by_remote
<1>1. PICK id \in StreamIds : id = Id
    BY <1>0, HandlesBetweenTurns
<1>2. PICK n \in StreamIds : n = next_stream_id /\ Ours(n)
    BY DEF on_subscription_opened_by_remote, OpenStream, Base, MultistreamInv, Types, ServiceType
<1>3. OutputIs({"IncomingProtocol"})
    BY <1>1, ProposedOnNew DEF on_subscription_opened_by_remote
<1>4. id # n
    BY <1>0, <1>1, <1>2, <1>3, ProposedIsNew DEF Handles
<1>5. /\ their_stream' = [their_stream EXCEPT ![p] = Handshake(id)]
      /\ our_stream' = [our_stream EXCEPT ![p] = Handshake(n)] /\ UNCHANGED ended
      /\ sent' = [sent EXCEPT ![id] = Append(@, p), ![n] = <<HEADER, p>>]
      /\ bufs' = Put([bufs EXCEPT ![id].state = "Open", ![id].max_buffer_size = MaxSize],
                     n, NewOutgoing(<<p>>, MaxSize))
    BY <1>1, <1>2 DEF on_subscription_opened_by_remote, OpenStream
<1>6. /\ sent'[id] = Append(sent[id], p) /\ sent'[n] = <<HEADER, p>>
      /\ \A x \in StreamIds \ {id, n} : sent'[x] = sent[x]
    BY <1>4, <1>5 DEF Base, MultistreamInv, Types
<1>7. sent'[id] = sent[id] \o <<p>>
  <2>1. sent[id] \in Seq(Messages) /\ p \in Messages
      BY ConnectionTypes DEF Base, MultistreamInv, Types, Messages
  <2> QED
      BY <1>6, <2>1
<1>8. /\ bufs'[n] = NewOutgoing(<<p>>, MaxSize)
      /\ \A x \in DOMAIN bufs' \ {id, n} : x \in DOMAIN bufs /\ bufs'[x] = bufs[x]
    BY <1>5, ZenonT(40) DEF Put
<1>9. bufs'[n].state = Outgoing /\ bufs'[n].rest = <<>>
    BY <1>8 DEF NewOutgoing, Outgoing
<1>10. /\ TheirShake(p, id)' /\ their_stream'[p].stream_id = id
       /\ \A q \in SubscriptionProtocols \ {p} : their_stream'[q] = their_stream[q]
       /\ \A q \in SubscriptionProtocols : our_stream[q].stream_id # id /\ their_stream[q].stream_id # id
       /\ \A x \in StreamIds : ~JustAccepted(x) /\ ~JustAccepted(x)'
    BY ZenonT(40), <1>0, <1>1, <1>3, <1>5, <1>7, ProposalAnswered
<1>11. our_stream'[p] = Handshake(n) /\ \A q \in SubscriptionProtocols \ {p} : our_stream'[q] = our_stream[q]
    BY <1>5 DEF Base, Tables, SubscriptionTables
<1>12. our_stream'[p].stream_id = n /\ our_stream'[p].state = "Handshake"
    BY <1>11, EntryIds, ZenonT(40)
<1>13. OurShake(p, n)'
    BY <1>6, <1>9, <1>12 DEF OurShake
<1>14. \A q \in SubscriptionProtocols : our_stream[q].stream_id # n /\ their_stream[q].stream_id # n
  <2>1. n \in Nat
      BY StreamServiceConstants
  <2> QED
      BY <1>2, <2>1 DEF InOurTables, InTheirTables, RolesInv, OurRoles, TheirRoles
<1>15. ASSUME NEW q \in SubscriptionProtocols, NEW x \in StreamIds
       PROVE  /\ our_stream'[q].stream_id = x =>
                    (x \notin {id, n} /\ our_stream'[q] = our_stream[q]) \/ OurShake(q, x)'
              /\ their_stream'[q].stream_id = x =>
                    (x \notin {id, n} /\ their_stream'[q] = their_stream[q]) \/ TheirShake(q, x)'
    BY <1>10, <1>11, <1>12, <1>13, <1>14
<1>16. \A x \in StreamIds \ {id, n} :
          sent'[x] = sent[x] /\ (x \in DOMAIN bufs' => x \in DOMAIN bufs /\ bufs'[x] = bufs[x])
    BY <1>6, <1>8
<1> QED
    BY ZenonT(40), <1>5, <1>10, <1>15, <1>16, HandshakesStep

LEMMA TheirOutputKeepsHandshakes ==
    ASSUME Base, RolesInv, Negotiated, Handshakes, NEW p \in SubscriptionProtocols,
           \/ on_subscription_unwanted(p) \/ on_subscription_proposed(p) \/ on_subscription_opened_by_remote(p)
           \/ on_their_handshake(p) \/ on_notification(p) \/ on_their_stream_over(p)
    PROVE  Handshakes'
<1>0. Handles /\ ForTheirs(p)
    BY DEF on_subscription_unwanted, on_subscription_proposed, on_subscription_opened_by_remote,
           on_their_handshake, on_notification, on_their_stream_over
<1>1. PICK id \in StreamIds : id = Id /\ out # <<>> /\ out' = <<>> /\ ~ended
    BY <1>0, HandlesBetweenTurns DEF Handles
<1>2. \A q \in SubscriptionProtocols : our_stream[q].stream_id # id
    BY <1>0, <1>1 DEF ForTheirs, ForOurs
<1>3. CASE Fail
    BY <1>0, <1>3, FailedHandshakes
<1>4. CASE on_subscription_unwanted(p) \/ on_notification(p)
  <2>1. UNCHANGED <<sent, ended>> /\ KeepSubscriptions /\ \A x \in DOMAIN bufs' : x \in DOMAIN bufs /\ bufs'[x] = bufs[x]
      BY <1>4 DEF on_subscription_unwanted, on_notification, KeepStreams, KeepService, service, KeepTables,
                  reset_stream_immediately, reset_streams, Without, KeepSubscriptions
  <2> QED
      BY <1>0, <1>1, <1>2, <2>1, HandledHandshakes
<1>5. CASE on_their_handshake(p) /\ CanSend(Id)
  <2>1. /\ SendOn(id, <<OurHandshake>>) /\ UNCHANGED <<bufs, ended, our_stream>>
        /\ their_stream' = [their_stream EXCEPT ![p] = Open(id)]
        /\ their_stream[p].state = "Handshake" /\ OutputIs({"Data"})
        /\ id \in DOMAIN bufs /\ bufs[id].state = "Open"
      BY <1>1, <1>5 DEF on_their_handshake, ValidHandshake, SendHandshake, send_data, KeepService, service, CanSend
  <2>2. their_stream[p].stream_id = id
      BY <1>0, <1>1, <2>1 DEF ForTheirs, OutputIs
  <2>3. TheirShake(p, id)
      BY <2>2 DEF Handshakes
  <2>4. sent[id] # <<>> /\ sent[id][1] = HEADER /\ sent[id][Len(sent[id])] = p
      BY <2>1, <2>3 DEF TheirShake
  <2>5. HandshakeSent(p, id)'
      BY <2>1, <2>4, HandshakeFollows
  <2>6. their_stream'[p] = Open(id) /\ \A q \in SubscriptionProtocols \ {p} : their_stream'[q] = their_stream[q]
      BY <2>1 DEF Base, Tables, SubscriptionTables
  <2>7. their_stream'[p].stream_id = id /\ their_stream'[p].state = "Open"
      BY <2>6, EntryIds, ZenonT(40)
  <2>8. TheirShake(p, id)'
      BY <2>5, <2>7 DEF TheirShake
  <2>9. \A x \in StreamIds \ {id} : sent'[x] = sent[x]
      BY <2>1 DEF SendOn, Base, MultistreamInv, Types
  <2> QED
      BY <1>0, <1>1, <2>1, <2>2, <2>6, <2>7, <2>8, <2>9, OneSubscription
<1>6. CASE on_their_stream_over(p)
  <2>1. cancel_subscription_silently(p) /\ UNCHANGED sent
      BY <1>6 DEF on_their_stream_over, SubscriptionOver
  <2>2. \A x \in StreamIds \ {id} : ~JustAccepted(x) /\ ~JustAccepted(x)'
      BY <1>1, NotAccepted DEF JustAccepted
  <2> QED
      BY <1>2, <2>1, <2>2, CancelledHandshakes
<1>7. CASE on_subscription_proposed(p) \/ on_subscription_opened_by_remote(p)
  <2>1. CASE CanReply(Id)
      BY <1>7, <2>1, ProposedKeepsHandshakes, OpenedByRemoteKeepsHandshakes
  <2>2. CASE ~CanReply(Id)
    <3>1. OutputIs({"IncomingProtocol"})
        BY <1>1, <1>7, ProposedOnNew DEF on_subscription_proposed, on_subscription_opened_by_remote
    <3>2. accept_protocol(Id, MaxSize) /\ Finish
        BY <1>7, <2>2 DEF on_subscription_proposed, on_subscription_opened_by_remote
    <3> QED
        BY <1>0, <3>1, <3>2, FailedReplyHandshakes
  <2> QED
      BY <2>1, <2>2
<1> QED
    BY <1>3, <1>4, <1>5, <1>6, <1>7 DEF on_their_handshake

LEMMA OutputKeepsHandshakes ==
    ASSUME Base, RolesInv, Negotiated, Handshakes, OnOutput
    PROVE  Handshakes'
BY RequestOutputKeepsHandshakes, OurOutputKeepsHandshakes, TheirOutputKeepsHandshakes DEF OnOutput

\* A subscription that is open has its two streams.
OpenIds ==
    \A p \in SubscriptionProtocols :
        /\ our_stream[p].state = "Open" => our_stream[p].stream_id \in StreamIds
        /\ their_stream[p].state = "Open" => their_stream[p].stream_id \in StreamIds

LEMMA NextOpenIds ==
    ASSUME Base, OpenIds, Next
    PROVE  OpenIds'
<1>1. CASE UNCHANGED <<our_stream, their_stream>>
    BY <1>1 DEF OpenIds
<1>2. ASSUME NEW p \in SubscriptionProtocols, NEW ours, NEW theirs,
             ours # our_stream[p] /\ ours.state = "Open" => ours.stream_id \in StreamIds,
             theirs # their_stream[p] /\ theirs.state = "Open" => theirs.stream_id \in StreamIds,
             our_stream' = [our_stream EXCEPT ![p] = ours],
             their_stream' = [their_stream EXCEPT ![p] = theirs]
      PROVE  OpenIds'
  <2>1. /\ our_stream'[p] = ours /\ their_stream'[p] = theirs
        /\ \A q \in SubscriptionProtocols \ {p} : our_stream'[q] = our_stream[q] /\ their_stream'[q] = their_stream[q]
      BY <1>2 DEF Base, Tables, SubscriptionTables
  <2> QED
      BY <1>2, <2>1 DEF OpenIds
<1>3. ASSUME NEW p \in SubscriptionProtocols
      PROVE  [our_stream EXCEPT ![p] = our_stream[p]] = our_stream /\ [their_stream EXCEPT ![p] = their_stream[p]] = their_stream
    BY DEF Base, Tables, SubscriptionTables
<1>4. \A n : Handshake(n).state # "Open" /\ Closed.state # "Open" /\ Open(n).stream_id = n
    BY EntryIds
<1>5. ASSUME NEW p \in SubscriptionProtocols, subscribe(p)
      PROVE  OpenIds'
  <2>1. PICK ours : ours = Handshake(next_stream_id) /\ ours.state # "Open"
      BY <1>4
  <2>2. our_stream' = [our_stream EXCEPT ![p] = ours] /\ their_stream' = [their_stream EXCEPT ![p] = their_stream[p]]
      BY <1>3, <1>5, <2>1 DEF subscribe
  <2> QED
      BY <1>2, <2>1, <2>2
<1>6. ASSUME NEW p \in SubscriptionProtocols, cancel_subscription_silently(p)
      PROVE  OpenIds'
    BY <1>2, <1>4, <1>6 DEF cancel_subscription_silently
<1>7. CASE Calls
    BY <1>1, <1>5, <1>6, <1>7 DEF Calls, request, cancel_request, respond, send_notification, cancel_subscription
<1>8. CASE next \/ LoopHead \/ yamux_next \/ drop_next \/ \E p \in Timed : sleep_ends(p)
    BY <1>1, <1>8 DEF next, LoopHead, next_emit, handle_request_timeouts, next_await, yamux_next, drop_next, sleep_ends, KeepTables
<1>9. CASE Finish \/ Fail
    BY <1>1, <1>9 DEF Fail, Finish, KeepTables
<1>10. ASSUME NEW p \in SubscriptionProtocols, on_our_handshake(p)
       PROVE  OpenIds'
  <2>1. Id \in StreamIds
      BY <1>10, HandlesBetweenTurns DEF on_our_handshake
  <2>2. PICK ours : ours = Open(Id) /\ ours.stream_id \in StreamIds
      BY <1>4, <2>1
  <2>3. our_stream' = [our_stream EXCEPT ![p] = ours] /\ their_stream' = [their_stream EXCEPT ![p] = their_stream[p]]
      BY <1>3, <1>10, <2>2 DEF on_our_handshake
  <2> QED
      BY <1>2, <2>2, <2>3
<1>11. ASSUME NEW p \in SubscriptionProtocols, on_their_handshake(p), CanSend(Id)
       PROVE  OpenIds'
  <2>1. Id \in StreamIds
      BY <1>11, HandlesBetweenTurns DEF on_their_handshake
  <2> QED
      BY <1>2, <1>3, <1>4, <1>11, <2>1 DEF on_their_handshake
<1>12. ASSUME NEW p \in SubscriptionProtocols, on_subscription_proposed(p), CanReply(Id)
       PROVE  OpenIds'
    BY <1>2, <1>3, <1>4, <1>12 DEF on_subscription_proposed
<1>13. ASSUME NEW p \in SubscriptionProtocols, on_subscription_opened_by_remote(p), CanReply(Id)
       PROVE  OpenIds'
    BY <1>2, <1>4, <1>13 DEF on_subscription_opened_by_remote
<1>14. CASE OnOutput
  <2>1. ASSUME on_request_accepted \/ on_request_over \/ on_incoming_request \/ on_request_proposed
               \/ on_unknown_protocol \/ on_unknown_stream
        PROVE  OpenIds'
      BY <1>1, <1>9, <2>1 DEF on_request_accepted, on_request_over, on_incoming_request, on_request_proposed,
           on_unknown_protocol, on_unknown_stream, KeepTables
  <2>2. ASSUME NEW p \in SubscriptionProtocols, OnSubscriptionOutput(p)
        PROVE  OpenIds'
    <3>1. CASE on_our_stream_accepted(p) \/ on_subscription_unwanted(p) \/ on_notification(p)
        BY <1>1, <1>9, <3>1 DEF on_our_stream_accepted, on_subscription_unwanted, on_notification, KeepTables
    <3>2. CASE on_our_stream_over(p) \/ on_their_stream_over(p)
        BY <1>6, <3>2 DEF on_our_stream_over, on_their_stream_over, SubscriptionOver
    <3> QED
        BY <1>9, <1>10, <1>11, <1>12, <1>13, <2>2, <3>1, <3>2
           DEF OnSubscriptionOutput, on_subscription_proposed, on_subscription_opened_by_remote, on_their_handshake
  <2> QED
      BY <1>14, <2>1, <2>2 DEF OnOutput, OnSubscriptionOutput
<1> QED
    BY <1>7, <1>8, <1>14 DEF Next

LEMMA InitHandshakes ==
    ASSUME Init
    PROVE  Told /\ Handshakes /\ OpenIds
<1>1. Told
    BY DEF Init, Told
<1>2. ASSUME NEW p \in SubscriptionProtocols
      PROVE  our_stream[p] = Closed /\ their_stream[p] = Closed
    BY DEF Init
<1>3. Closed.stream_id = 0 /\ Closed.state # "Open" /\ 0 \notin StreamIds
    BY StreamServiceConstants DEF Closed
<1> QED
    BY <1>1, <1>2, <1>3 DEF Handshakes, OpenIds

LEMMA StepKeepsHandshakes ==
    ASSUME Base, RolesInv, Negotiated, Told, Handshakes, OpenIds,
           [Next]_vars, [RemoteReopensOnlyClosed]_vars
    PROVE  Told' /\ Handshakes' /\ OpenIds'
<1>1. CASE UNCHANGED vars
  <2>1. UNCHANGED <<at, returned, next_buf, response_ids, our_stream, their_stream, bufs, sent, out, ended>>
      BY <1>1 DEF vars, mvars, cvars, service
  <2>2. Told'
      BY <2>1 DEF Told
  <2>3. OpenIds'
      BY <2>1 DEF OpenIds
  <2>4. ASSUME NEW p \in SubscriptionProtocols, NEW id \in StreamIds
        PROVE  /\ OurShake(p, id)' <=> OurShake(p, id)
               /\ TheirShake(p, id)' <=> TheirShake(p, id)
      BY ZenonT(40), <2>1 DEF OurShake, TheirShake, HandshakeSent, JustAccepted, Id, OutputIs
  <2>5. Handshakes'
      BY ZenonT(40), <2>1, <2>4 DEF Handshakes
  <2> QED
      BY <2>2, <2>3, <2>5
<1>2. CASE Next /\ RemoteReopensOnlyClosed
  <2>1. Told'
      BY <1>2, CallsKeepTold, LoopKeepsTold, OutputKeepsTold DEF Next
  <2>2. Handshakes'
      BY <1>2, CallsKeepHandshakes, LoopKeepsHandshakes, OutputKeepsHandshakes DEF Next
  <2> QED
      BY <1>2, <2>1, <2>2, NextOpenIds
<1> QED
    BY <1>1, <1>2

\* What is returned, by the step that returns it.
LEMMA OnlyOpenedByHandshake ==
    ASSUME Base, Told, Next, at # "Out", NEW p \in SubscriptionProtocols,
           returned' = <<Notification(p, "Opened")>>
    PROVE  our_stream'[p].state = "Open" /\ their_stream'[p].state = "Open"
<1>0. returned = <<>> /\ returned' # <<>>
    BY DEF Told
<1>1. ASSUME NEW m, Give(m)
      PROVE  m.kind = "Notification" /\ m.res = "Opened" /\ m.protocol_id = p
    BY <1>1 DEF Give, Notification
<1>2. ~(\E place : Goto(place))
    BY <1>0 DEF Goto
<1>3. CASE Calls
  <2>1. UserCalls
      BY <1>3 DEF Calls, request, cancel_request, respond, subscribe, send_notification, cancel_subscription
  <2> QED
      BY <2>1 DEF UserCalls
<1>4. CASE next
    BY <1>0, <1>4 DEF next
<1>5. CASE next_emit
    BY <1>1, <1>5 DEF next_emit, Told
<1>6. CASE handle_request_timeouts
  <2>1. PICK id : Give(Response(id, "Timeout"))
      BY <1>6, FirstTimedOut
  <2>2. Response(id, "Timeout").kind = "Notification"
      BY <1>1, <2>1
  <2> QED
      BY <2>2 DEF Response
<1>7. CASE next_await \/ yamux_next \/ drop_next \/ \E q \in Timed : sleep_ends(q)
    BY <1>2, <1>7 DEF next_await, yamux_next, drop_next, sleep_ends
<1>8. CASE OnOutput
  <2>1. ~Finish /\ ~Fail
      BY <1>2 DEF Fail, Finish
  <2>2. ASSUME NEW id, NEW res
        PROVE  ~Give(Response(id, res)) /\ ~Give(Request(id, res))
      BY <1>1 DEF Response, Request
  <2>3. ASSUME NEW q, NEW res, Give(Notification(q, res))
        PROVE  q = p /\ res = "Opened"
      BY <1>1, <2>3 DEF Notification
  <2>4. CASE on_request_accepted \/ on_request_over \/ on_incoming_request \/ on_request_proposed
               \/ on_unknown_protocol \/ on_unknown_stream
      BY <1>2, <2>1, <2>2, <2>4 DEF on_request_accepted, on_request_over, on_incoming_request, on_request_proposed,
           on_unknown_protocol, on_unknown_stream
  <2>5. ASSUME NEW q \in SubscriptionProtocols, on_our_handshake(q)
        PROVE  our_stream'[p].state = "Open" /\ their_stream'[p].state = "Open"
    <3>1. their_stream[q].state = "Open" /\ Give(Notification(q, "Opened"))
        BY <1>2, <2>5 DEF on_our_handshake, OpenedIf
    <3>2. q = p
        BY <2>3, <3>1
    <3>3. our_stream'[p] = Open(Id) /\ their_stream'[p] = their_stream[p]
        BY <2>5, <3>2 DEF on_our_handshake, Base, Tables, SubscriptionTables
    <3> QED
        BY <3>1, <3>2, <3>3, EntryIds
  <2>6. ASSUME NEW q \in SubscriptionProtocols, on_their_handshake(q)
        PROVE  our_stream'[p].state = "Open" /\ their_stream'[p].state = "Open"
    <3>1. our_stream[q].state = "Open" /\ Give(Notification(q, "Opened")) /\ CanSend(Id)
        BY <1>2, <2>1, <2>6 DEF on_their_handshake, OpenedIf
    <3>2. q = p
        BY <2>3, <3>1
    <3>3. their_stream'[p] = Open(Id) /\ our_stream'[p] = our_stream[p]
        BY <2>6, <3>1, <3>2 DEF on_their_handshake, Base, Tables, SubscriptionTables
    <3> QED
        BY <3>1, <3>2, <3>3, EntryIds
  <2>7. ASSUME NEW q \in SubscriptionProtocols,
               \/ on_our_stream_accepted(q) \/ on_subscription_unwanted(q) \/ on_subscription_proposed(q)
               \/ on_subscription_opened_by_remote(q)
        PROVE  FALSE
      BY <1>2, <2>1, <2>7 DEF on_our_stream_accepted, on_subscription_unwanted, on_subscription_proposed,
           on_subscription_opened_by_remote
  <2>8. ASSUME NEW q \in SubscriptionProtocols, on_our_stream_over(q) \/ on_their_stream_over(q) \/ on_notification(q)
        PROVE  FALSE
    <3>1. OurStreamResult(our_stream[q].state) # "Opened" /\ TheirStreamResult(their_stream[q].state) # "Opened"
        BY DEF OurStreamResult, TheirStreamResult
    <3>2. \E res : res # "Opened" /\ Give(Notification(q, res))
        BY ZenonT(40), <2>8, <3>1 DEF on_our_stream_over, on_their_stream_over, on_notification, SubscriptionOver
    <3> QED
        BY ZenonT(40), <2>3, <3>2
  <2> QED
      BY <1>8, <2>4, <2>5, <2>6, <2>7, <2>8 DEF OnOutput
<1> QED
    BY <1>3, <1>4, <1>5, <1>6, <1>7, <1>8 DEF Next, LoopHead

=============================================================================

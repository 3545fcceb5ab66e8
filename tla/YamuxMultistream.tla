-------------------------- MODULE YamuxMultistream --------------------------
(***************************************************************************)
(* Protocol negotiation on Yamux streams:                                  *)
(* src/src/layers/yamux_multistream.rs, with the frame buffer of           *)
(* src/src/layers/yamux_multistream/frame_buffer.rs.                       *)
(*                                                                         *)
(* The session below is StreamService.  One turn of next_inner's loop      *)
(* takes a stream, either the one it is still reading from or the one the  *)
(* session has news of (take_buffer, recv_...), and then handles at most   *)
(* one message of its buffer (parse_...).  There is no await between the   *)
(* two, nor between an output and its handling by the layer above: while   *)
(* parsing or out is set, nothing else moves.                              *)
(*                                                                         *)
(* The bytes of a stream are tokens, named by how the frame buffer reads   *)
(* them: a message is a length prefix, LEN, and a body, each of size one,  *)
(* and a chunk may end between the two.                                    *)
(***************************************************************************)
EXTENDS StreamService, Sequences

CONSTANTS
    Protocols,                    \* protocol names
    Payloads,                     \* messages exchanged on a negotiated stream
    Chunks,                       \* what the remote may send at once
    MULTISTREAM_PROTOCOL_MAX_LEN, \* the buffer limit during negotiation
    BufferSizes,                  \* the limits that the layer above may ask for
    MaxEvents,                    \* bound: outputs of the session below
    MaxSent                       \* bound: messages sent on a stream

LEN      == "len"     \* a length prefix
BADLEN   == "badlen"  \* a prefix that the varint decoder rejects
HEADER   == "header"  \* /multistream/1.0.0
NA       == "na"      \* the protocol is refused
GARBAGE  == "garbage" \* a body that does not end in a newline, or is not UTF-8

Messages == Protocols \cup Payloads \cup {HEADER, NA, GARBAGE}

Tokens == Messages \cup {LEN, BADLEN}

\* Prefixes and bodies alternate, and nothing is read behind a bad prefix.
Alternate(tokens) ==
    \A i \in 1 .. Len(tokens) - 1 :
        tokens[i] # BADLEN /\ (tokens[i] = LEN <=> tokens[i + 1] \notin {LEN, BADLEN})

ASSUME MultistreamConstants ==
    /\ Chunks \subseteq {c \in Seq(Tokens) \ {<<>>} : Alternate(c)}
    /\ Payloads \cap (Protocols \cup {HEADER, NA, GARBAGE}) = {}
    /\ MULTISTREAM_PROTOCOL_MAX_LEN \in Nat
    /\ BufferSizes \subseteq Nat
    /\ MaxEvents \in Nat
    /\ MaxSent \in Nat

States == {"NewIncoming", "NewIncomingProtocol", "NewIncomingProtocolWaitingForAccept",
           "OutgoingProtocolWaitingForAccept", "Open", "ClosedByUs"}

Multistream == [buffer          : Seq(Tokens),
                needs           : {"Len", "Body"},
                state           : States,
                seen_header     : BOOLEAN,
                protocol        : Messages,       \* the one proposed last
                rest            : Seq(Protocols),
                max_buffer_size : Nat]

NewIncoming ==
    [buffer |-> <<>>, needs |-> "Len", state |-> "NewIncoming", seen_header |-> FALSE,
     protocol |-> HEADER, rest |-> <<>>, max_buffer_size |-> MULTISTREAM_PROTOCOL_MAX_LEN]

NewOutgoing(protocols, max) ==
    [buffer |-> <<>>, needs |-> "Len", state |-> "OutgoingProtocolWaitingForAccept",
     seen_header |-> FALSE, protocol |-> Head(protocols), rest |-> Tail(protocols),
     max_buffer_size |-> max]

OutputStates == {"IncomingProtocol", "OutgoingRejected", "OutgoingAccepted", "Data",
                 "ClosedByRemote", "IncomingMessageTooLarge"}

Output(id, state, message) == [stream_id |-> id, state |-> state, message |-> message]

VARIABLES
    bufs,                     \* BTreeMap<YamuxStreamId, Multistream>
    read_from_stream_buffer,  \* Option<YamuxStreamId>: 0 for None
    parsing,                  \* the stream whose buffer is looked at in this turn
    out,                      \* Option<Output>, handed to the layer above
    sent,                     \* history: what was sent on each stream since it was opened
    events                    \* counter that bounds the instance

mvars == <<service, bufs, read_from_stream_buffer, parsing, out, sent, events>>

MultistreamInit ==
    /\ ServiceInit
    /\ bufs = <<>>
    /\ read_from_stream_buffer = 0
    /\ parsing = 0
    /\ out = <<>>
    /\ sent = [id \in StreamIds |-> <<>>]
    /\ events = 0

Put(f, key, value) ==
    [x \in DOMAIN f \cup {key} |-> IF x = key THEN value ELSE f[x]]

Without(f, keys) == [x \in DOMAIN f \ keys |-> f[x]]

\* The loop of next_inner is at its head, where it may wait.
AtLoopHead == parsing = 0 /\ out = <<>> /\ ~ended

-----------------------------------------------------------------------------
(* Calls of the layer above *)

SendOn(id, messages) == sent' = [sent EXCEPT ![id] = @ \o messages]

open_stream(protocols, max) ==
    /\ OpenStream
    /\ bufs' = Put(bufs, next_stream_id, NewOutgoing(protocols, max))
    /\ sent' = [sent EXCEPT ![next_stream_id] = <<HEADER, Head(protocols)>>]

\* send_data succeeds on an open stream that the session still has.
CanSend(id) == id \in DOMAIN bufs /\ bufs[id].state = "Open" /\ present[id]

send_data(id, message) == CanSend(id) /\ SendOn(id, <<message>>)

\* The stream has a proposal; accept_protocol and reject_protocol do nothing and
\* fail on any other.
Waiting(id) == id \in DOMAIN bufs /\ bufs[id].state = "NewIncomingProtocolWaitingForAccept"

\* Their last step is to send the answer.  When the session has lost the stream
\* it fails, with the entry already changed.
Reply(id, message) == IF present[id] THEN SendOn(id, <<message>>) ELSE UNCHANGED sent

CanReply(id) == Waiting(id) /\ present[id]

accept_protocol(id, max) ==
    IF Waiting(id)
    THEN /\ bufs' = [bufs EXCEPT ![id].state = "Open", ![id].max_buffer_size = max]
         /\ Reply(id, bufs[id].protocol)
    ELSE UNCHANGED <<bufs, sent>>

reject_protocol(id) ==
    IF Waiting(id)
    THEN /\ bufs' = [bufs EXCEPT ![id].state = "NewIncomingProtocol"]
         /\ Reply(id, NA)
    ELSE UNCHANGED <<bufs, sent>>

close_stream(id) ==
    IF id \in DOMAIN bufs
    THEN /\ bufs' = [bufs EXCEPT ![id].state = "ClosedByUs"]
         /\ Close(id)
    ELSE UNCHANGED bufs /\ KeepService

\* reset_stream_immediately, for each of some streams
reset_streams(ids) ==
    /\ bufs' = Without(bufs, ids)
    /\ hold' = [id \in StreamIds |-> IF id \in ids THEN "none" ELSE hold[id]]
    /\ present' = [id \in StreamIds |-> present[id] /\ id \notin ids]
    /\ UNCHANGED <<next_stream_id, ended>>

reset_stream_immediately(id) == reset_streams({id})

-----------------------------------------------------------------------------
(* The first half of a turn: which stream to read from *)

take_buffer ==
    /\ AtLoopHead
    /\ read_from_stream_buffer # 0
    /\ parsing' = IF read_from_stream_buffer \in DOMAIN bufs THEN read_from_stream_buffer ELSE 0
    /\ read_from_stream_buffer' = 0
    /\ KeepService
    /\ UNCHANGED <<bufs, out, sent, events>>

\* The session below is asked only when no buffer is left to read.
Receive ==
    /\ AtLoopHead
    /\ read_from_stream_buffer = 0
    /\ events < MaxEvents
    /\ events' = events + 1
    /\ UNCHANGED read_from_stream_buffer

\* A stream that is known already keeps its entry.
recv_opened(id) ==
    /\ Receive
    /\ HandOpened(id)
    /\ bufs' = IF id \in DOMAIN bufs THEN bufs ELSE Put(bufs, id, NewIncoming)
    /\ sent' = [sent EXCEPT ![id] = <<>>]
    /\ parsing' = id
    /\ UNCHANGED out

\* The buffer ends in the middle of a message.
Mid(b) == IF b.buffer = <<>> THEN b.needs = "Body" ELSE b.buffer[Len(b.buffer)] = LEN

\* Prefixes and bodies alternate.
Continues(b, chunk) == (Head(chunk) \in {LEN, BADLEN}) = ~Mid(b)

Fits(b, chunk) == Len(b.buffer) + Len(chunk) <= b.max_buffer_size

recv_data_too_large(id, chunk) ==
    /\ Receive
    /\ hold[id] # "none"
    /\ id \in DOMAIN bufs
    /\ Continues(bufs[id], chunk)
    /\ ~Fits(bufs[id], chunk)
    /\ reset_stream_immediately(id)
    /\ out' = <<Output(id, "IncomingMessageTooLarge", HEADER)>>
    /\ UNCHANGED <<parsing, sent>>

\* The code ignores data for a stream it has no entry for.  It never comes to
\* that: see StreamsKnown.
recv_data(id, chunk) ==
    /\ Receive
    /\ HandData(id)
    /\ id \in DOMAIN bufs
    /\ Continues(bufs[id], chunk)
    /\ Fits(bufs[id], chunk)
    /\ bufs' = [bufs EXCEPT ![id].buffer = @ \o chunk]
    /\ parsing' = id
    /\ UNCHANGED <<out, sent>>

\* Mutant: the entry is removed only if somebody above knows of the stream.
recv_closed_Keeps(id) ==
    /\ Receive
    /\ HandClosed(id)
    /\ IF id \in DOMAIN bufs /\ bufs[id].state \notin {"NewIncoming", "NewIncomingProtocol"}
       THEN out' = <<Output(id, "ClosedByRemote", HEADER)>> /\ bufs' = Without(bufs, {id})
       ELSE out' = <<>> /\ UNCHANGED bufs
    /\ UNCHANGED <<parsing, sent>>

\* Nobody above knows of a stream on which no protocol was proposed.
recv_closed(id) ==
    /\ Receive
    /\ HandClosed(id)
    /\ bufs' = Without(bufs, {id})
    /\ out' = IF id \in DOMAIN bufs /\ bufs[id].state \notin {"NewIncoming", "NewIncomingProtocol"}
              THEN <<Output(id, "ClosedByRemote", HEADER)>>
              ELSE <<>>
    /\ UNCHANGED <<parsing, sent>>

\* The session ends (yamux::Error, or None).
recv_end ==
    /\ Receive
    /\ End
    /\ UNCHANGED <<bufs, parsing, out, sent>>

-----------------------------------------------------------------------------
(* The second half: MultistreamFrameBuffer::next, and the message it yields *)

HasMessage(b) ==
    \/ b.needs = "Body" /\ b.buffer # <<>>
    \/ b.needs = "Len" /\ Len(b.buffer) > 1 /\ b.buffer[1] = LEN

HasBadLength(b) == b.needs = "Len" /\ b.buffer # <<>> /\ b.buffer[1] = BADLEN

Message(b) == IF b.needs = "Body" THEN b.buffer[1] ELSE b.buffer[2]

AfterMessage(b) ==
    [b EXCEPT !.buffer = IF b.needs = "Body" THEN Tail(@) ELSE Tail(Tail(@)), !.needs = "Len"]

AfterNothing(b) ==
    IF b.buffer = <<>> THEN b ELSE [b EXCEPT !.buffer = Tail(@), !.needs = "Body"]

parse_nothing ==
    /\ parsing # 0
    /\ ~HasMessage(bufs[parsing])
    /\ ~HasBadLength(bufs[parsing])
    /\ bufs' = [bufs EXCEPT ![parsing] = AfterNothing(@)]
    /\ parsing' = 0
    /\ KeepService
    /\ UNCHANGED <<read_from_stream_buffer, out, sent, events>>

\* Err(VarintOutOfRange) ends the connection.
parse_bad_length ==
    /\ parsing # 0
    /\ HasBadLength(bufs[parsing])
    /\ End
    /\ parsing' = 0
    /\ UNCHANGED <<bufs, read_from_stream_buffer, out, sent, events>>

\* Mutant: the rest of the buffer waits for more bytes.
KeepReading_Not == read_from_stream_buffer' = 0

\* There may be more messages where this one came from.
KeepReading == read_from_stream_buffer' = parsing

Parse(states) ==
    /\ parsing # 0
    /\ HasMessage(bufs[parsing])
    /\ bufs[parsing].state \in states
    /\ KeepReading
    /\ parsing' = 0
    /\ UNCHANGED events

\* The stream breaks the protocol: it is reset, and nobody above is told.
Abort == reset_stream_immediately(parsing) /\ UNCHANGED <<out, sent>>

Msg == Message(bufs[parsing])

\* Answer on the stream; if the session has lost it, the connection ends.
Answer(b, messages) ==
    /\ bufs' = [bufs EXCEPT ![parsing] = b]
    /\ IF present[parsing]
       THEN SendOn(parsing, messages) /\ KeepService
       ELSE UNCHANGED sent /\ End
    /\ UNCHANGED out

\* Change the stream's entry, and hand out an output.
Emit(b, state) ==
    /\ bufs' = [bufs EXCEPT ![parsing] = b]
    /\ out' = <<Output(parsing, state, Msg)>>
    /\ KeepService
    /\ UNCHANGED sent

parse_new_incoming ==
    /\ Parse({"NewIncoming"})
    /\ IF Msg = HEADER
       THEN Answer([AfterMessage(bufs[parsing]) EXCEPT !.state = "NewIncomingProtocol"], <<HEADER>>)
       ELSE Abort

parse_incoming_protocol ==
    /\ Parse({"NewIncomingProtocol"})
    /\ IF Msg # GARBAGE
       THEN Emit([AfterMessage(bufs[parsing]) EXCEPT
                     !.state = "NewIncomingProtocolWaitingForAccept", !.protocol = Msg],
                 "IncomingProtocol")
       ELSE Abort

parse_waiting_for_accept ==
    /\ Parse({"NewIncomingProtocolWaitingForAccept"})
    /\ Abort

parse_outgoing_header ==
    /\ Parse({"OutgoingProtocolWaitingForAccept"})
    /\ ~bufs[parsing].seen_header
    /\ IF Msg = HEADER
       THEN /\ bufs' = [bufs EXCEPT ![parsing] = [AfterMessage(@) EXCEPT !.seen_header = TRUE]]
            /\ KeepService
            /\ UNCHANGED <<out, sent>>
       ELSE Abort

\* Mutant: whatever comes back is taken for the protocol.
Agrees_Always(b) == TRUE

Agrees(b) == Message(b) = b.protocol

parse_outgoing_accepted ==
    /\ Parse({"OutgoingProtocolWaitingForAccept"})
    /\ bufs[parsing].seen_header
    /\ Agrees(bufs[parsing])
    /\ Emit([AfterMessage(bufs[parsing]) EXCEPT !.state = "Open"], "OutgoingAccepted")

parse_outgoing_try_next ==
    LET b == bufs[parsing]
    IN /\ Parse({"OutgoingProtocolWaitingForAccept"})
       /\ b.seen_header
       /\ ~Agrees(b)
       /\ b.rest # <<>>
       /\ Answer([AfterMessage(b) EXCEPT !.protocol = Head(b.rest), !.rest = Tail(@)],
                 <<Head(b.rest)>>)

parse_outgoing_rejected ==
    /\ Parse({"OutgoingProtocolWaitingForAccept"})
    /\ bufs[parsing].seen_header
    /\ ~Agrees(bufs[parsing])
    /\ bufs[parsing].rest = <<>>
    /\ reset_stream_immediately(parsing)
    /\ out' = <<Output(parsing, "OutgoingRejected", HEADER)>>
    /\ UNCHANGED sent

parse_data ==
    /\ Parse({"Open", "ClosedByUs"})
    /\ Emit(AfterMessage(bufs[parsing]), "Data")

-----------------------------------------------------------------------------

\* A stream of the session is lost without notice.
lose(id) ==
    /\ AtLoopHead
    /\ read_from_stream_buffer = 0
    /\ Lose(id)
    /\ UNCHANGED <<bufs, read_from_stream_buffer, parsing, out, sent, events>>

Turn ==
    \/ take_buffer
    \/ parse_nothing
    \/ parse_bad_length
    \/ parse_new_incoming
    \/ parse_incoming_protocol
    \/ parse_waiting_for_accept
    \/ parse_outgoing_header
    \/ parse_outgoing_accepted
    \/ parse_outgoing_try_next
    \/ parse_outgoing_rejected
    \/ parse_data

Remote ==
    \/ recv_end
    \/ \E id \in StreamIds :
          \/ lose(id)
          \/ recv_opened(id)
          \/ recv_closed(id)
          \/ \E chunk \in Chunks :
                \/ recv_data_too_large(id, chunk)
                \/ recv_data(id, chunk)

\* Any layer above.  It calls while it handles an output or between two calls
\* of next(); an output it has not taken is gone when next() is called again.
Call(op) ==
    /\ parsing = 0
    /\ ~ended
    /\ op
    /\ UNCHANGED <<read_from_stream_buffer, parsing, out, events>>

Sequences1(S) == {<<x>> : x \in S} \cup {<<x, y>> : x, y \in S}

Above ==
    \/ /\ out # <<>>
       /\ out' = <<>>
       /\ KeepService
       /\ UNCHANGED <<bufs, read_from_stream_buffer, parsing, sent, events>>
    \/ \E protocols \in Sequences1(Protocols), max \in BufferSizes :
          Call(open_stream(protocols, max))
    \/ \E id \in DOMAIN bufs :
          \/ \E message \in Payloads :
                Call(Len(sent[id]) < MaxSent /\ send_data(id, message) /\ KeepService /\ UNCHANGED bufs)
          \/ \E max \in BufferSizes :
                Call(bufs[id].protocol \in Protocols /\ accept_protocol(id, max) /\ KeepService)
          \/ Call(reject_protocol(id) /\ KeepService)
          \/ Call(close_stream(id) /\ UNCHANGED sent)
          \/ Call(reset_stream_immediately(id) /\ UNCHANGED sent)

MultistreamSpec == MultistreamInit /\ [][Turn \/ Remote \/ Above]_mvars

-----------------------------------------------------------------------------
(* Properties *)

\* The two layers agree on which streams there are: the session below holds a
\* stream for this layer exactly when it has an entry in bufs.  So no data is
\* ignored for want of an entry (next_inner, 287-289), and no entry outlives
\* its stream, whichever of the resets, closes and silent aborts ended it; and
\* the entry that a turn reads from is still there (257-259).
StreamsKnown ==
    /\ \A id \in StreamIds : hold[id] # "none" <=> id \in DOMAIN bufs
    /\ parsing \in DOMAIN bufs \cup {0}

\* Before next_inner waits for the network, every message that has arrived in
\* full was handled (255-264, 332-345): however messages were cut into chunks,
\* and whatever calls came in while a buffer was being drained.
NoMessageStranded ==
    AtLoopHead /\ read_from_stream_buffer = 0
        => \A id \in DOMAIN bufs : ~HasMessage(bufs[id]) /\ ~HasBadLength(bufs[id])

OpensOnAgreement ==
    \A id \in DOMAIN bufs \cap DOMAIN bufs' :
        bufs[id].state # "Open" /\ bufs'[id].state = "Open" =>
            IF Ours(id)
            THEN bufs[id].seen_header /\ Message(bufs[id]) = sent[id][Len(sent[id])]
            ELSE /\ Waiting(id)
                 /\ sent'[id] = IF present[id] THEN Append(sent[id], bufs[id].protocol) ELSE sent[id]

\* A stream becomes Open only on the protocol under discussion: ours when the
\* remote repeats the protocol that we sent last, after its header (403-422);
\* theirs when we repeat the one it proposed (accept_protocol).  If the session
\* has lost the stream the entry is Open all the same (180), but nothing was
\* sent, and send_data fails.
OpenOnAgreement == [][OpensOnAgreement]_mvars

\* The remote opens a stream again only after the layer above was told that it
\* is gone: the entry of a stream that was lost without notice is kept by
\* recv_opened, with the protocol agreed before.
RemoteReopensOnlyClosed == \A id \in DOMAIN bufs : present'[id] => present[id]

\* What is sent on a stream begins with the header, and no payload is sent
\* before a protocol was: send_data "Errors if the protocol negotiation has not
\* been completed" (148-149).  It holds while RemoteReopensOnlyClosed does; a
\* stream whose kept entry is reused (277) is not negotiated again.
NegotiationFirst ==
    \A id \in DOMAIN bufs :
        \A i \in DOMAIN sent[id] :
            sent[id][i] \in Payloads =>
                sent[id][1] = HEADER /\ \E j \in 1 .. i - 1 : sent[id][j] \in Protocols

=============================================================================

------------------------------- MODULE Yamux -------------------------------
(***************************************************************************)
(* One end of a Yamux session: src/src/layers/yamux.rs.                    *)
(*                                                                         *)
(* Three actors share the session state (the Rc<RefCell<SharedState>>):    *)
(* the layer above, which queues work through the synchronous methods; the *)
(* read future read_next, which handles one frame of the remote at a time; *)
(* and the write future write_next, which drains the queues.  An actor     *)
(* gives way only at an await point, so an action is what runs between two *)
(* of them.  The one exception is the write pass, whose rounds are actions *)
(* of their own: while writer = "Pass" the RefCell is borrowed and no      *)
(* other actor moves.                                                      *)
(*                                                                         *)
(* Bytes are numbered: byte k of a stream is the k-th byte given to        *)
(* send_data (outbound) or the k-th byte accepted from the remote          *)
(* (inbound).  The history of a stream since it was created is log[id].    *)
(***************************************************************************)
EXTENDS Integers, Sequences, FiniteSets

CONSTANTS
    DEFAULT_WINDOW,   \* initial window of both directions, in bytes
    MAX_STREAMS,      \* above this, streams opened by the remote are refused
    MAX_FRAME_SIZE,   \* a longer Data frame ends the session
    MAX_SEND_SIZE,    \* the most data written for a stream in one round
    StreamIds,        \* the stream ids that occur (0 is the session itself)
    PeerFrames,       \* the frames the remote may send
    SendSizes,        \* the sizes of the buffers given to send_data
    MaxCalls,         \* bound: calls made by the layer above
    MaxFrames         \* bound: frames sent by the remote

OpenStates == {"Open", "FinByUs", "FinByThem", "Reset"}

FrameFlags == {"Syn", "Fin", "Rst"}

\* Ack is left out of the flags: no handler looks at it.
Frame == [frame_type : {"Data", "WindowUpdate", "Ping", "GoAway"},
          stream_id  : StreamIds \cup {0},
          flags      : SUBSET FrameFlags,
          length     : Nat]

ASSUME YamuxConstants ==
    /\ DEFAULT_WINDOW \in Nat
    /\ MAX_STREAMS \in Nat
    /\ MAX_FRAME_SIZE \in Nat
    /\ MAX_SEND_SIZE \in Nat \ {0}
    /\ DEFAULT_WINDOW >= MAX_FRAME_SIZE \div 2
    /\ StreamIds \subseteq Nat \ {0}
    /\ PeerFrames \subseteq Frame
    /\ SendSizes \subseteq Nat \ {0}
    /\ MaxCalls \in Nat
    /\ MaxFrames \in Nat

-----------------------------------------------------------------------------
(* Messages, streams and outputs *)

Kinds == {"Accept", "Open", "Data", "WindowUpdate", "Close", "Reset"}

\* Data is never queued without bytes: an empty Data message could not be sent.
BufferedOutboundMessage ==
    {m \in [kind : Kinds, bytes : Seq(Nat), delta : Nat] : m.kind = "Data" <=> m.bytes # <<>>}

Control(kind)       == [kind |-> kind, bytes |-> <<>>, delta |-> 0]
DataMessage(bytes)  == [kind |-> "Data", bytes |-> bytes, delta |-> 0]
UpdateMessage(d)    == [kind |-> "WindowUpdate", bytes |-> <<>>, delta |-> d]

StreamState == [send_window  : Nat,
                recv_window  : Nat,
                open_state   : OpenStates,
                outbound_buf : Seq(BufferedOutboundMessage)]

NewStream == [send_window  |-> DEFAULT_WINDOW,
              recv_window  |-> DEFAULT_WINDOW,
              open_state   |-> "Open",
              outbound_buf |-> <<>>]

Output == [stream_id : StreamIds,
           state     : {"OpenedByRemote", "Data", "ClosedByRemote"},
           len       : 0..MAX_FRAME_SIZE]

Opened(id)     == [stream_id |-> id, state |-> "OpenedByRemote", len |-> 0]
DataOut(id, n) == [stream_id |-> id, state |-> "Data", len |-> n]
Closed(id)     == [stream_id |-> id, state |-> "ClosedByRemote", len |-> 0]

\* Frames written outside of the streams' queues: pongs, and the reset of a
\* stream that was refused.
GlobalFrame == [kind : {"Pong", "Reset"}, stream_id : StreamIds \cup {0}, value : Nat]

\* What the layer above knows of a stream.
Holds == {"none", "open", "closed"}

History == [hold      : Holds,      \* the stream as the layer above sees it
            accepted  : Nat,        \* bytes taken by send_data
            dropped   : BOOLEAN,    \* queued messages were discarded
            wire      : Seq(BufferedOutboundMessage),  \* messages written
            sent      : Nat,        \* data bytes written
            credit    : Nat,        \* send window granted by the remote
            granted   : Nat,        \* receive window granted to the remote
            received  : Nat,        \* bytes accepted from the remote
            overrun   : BOOLEAN,    \* the remote exceeded its window
            fin       : BOOLEAN,    \* the remote sent Fin or Rst
            delivered : Seq(Nat)]   \* bytes handed to the layer above

NewHistory == [hold |-> "none", accepted |-> 0, dropped |-> FALSE, wire |-> <<>>,
               sent |-> 0, credit |-> 0, granted |-> 0, received |-> 0,
               overrun |-> FALSE, fin |-> FALSE, delivered |-> <<>>]

-----------------------------------------------------------------------------

VARIABLES
    streams,              \* BTreeMap<YamuxStreamId, StreamState>
    write_buf,            \* frames that belong to no stream's queue
    output_buf,           \* Option<Output>: <<>> or <<o>>
    has_pending_writes,
    pending_write_waker,  \* a waker is stored
    next_stream_id,
    inbound_buf,          \* an array; a Data frame overwrites the front of it
    finished,             \* next() returned an error or None
    writer,               \* where the write future waits
    bytes_to_write,       \* the write pass has produced bytes
    streams_to_remove,    \* streams whose reset the write pass has written
    log,                  \* history, per stream
    owed, written,        \* history: frames ever put in write_buf, and written from it
    calls, frames         \* counters that bound the instance

shared == <<streams, write_buf, output_buf, has_pending_writes, pending_write_waker>>
pass   == <<writer, bytes_to_write, streams_to_remove>>
vars   == <<shared, next_stream_id, inbound_buf, finished, pass, log, owed, written,
            calls, frames>>

\* New:    not polled yet.       Global: writing the drained write_buf.
\* Pass:   draining the streams. Bulk:   writing what the pass produced.
\* Park:   in the poll_fn at the end of the loop.
WriterStates == {"New", "Global", "Pass", "Bulk", "Park"}

-----------------------------------------------------------------------------
(* Helpers *)

Put(f, key, value) ==
    [x \in DOMAIN f \cup {key} |-> IF x = key THEN value ELSE f[x]]

Without(f, keys) == [x \in DOMAIN f \ keys |-> f[x]]

SmallerOf(a, b) == IF a < b THEN a ELSE b

SaturatingSub(a, b) == IF a < b THEN 0 ELSE a - b

PushBack(s, m) == [s EXCEPT !.outbound_buf = Append(@, m)]

Back(s) == s.outbound_buf[Len(s.outbound_buf)]

BackIs(s, kinds) == s.outbound_buf # <<>> /\ Back(s).kind \in kinds

SetFinByThem(state) == IF state \in {"Open", "FinByThem"} THEN "FinByThem" ELSE "Reset"

SetFinByUs(state) == IF state \in {"Open", "FinByUs"} THEN "FinByUs" ELSE "Reset"

FlushWrites == has_pending_writes' = TRUE /\ pending_write_waker' = FALSE

KeepWriteFlags == UNCHANGED <<has_pending_writes, pending_write_waker>>

\* The RefCell is free: no other actor is between two of its await points.
Unborrowed == writer # "Pass"

Init ==
    /\ streams = <<>>
    /\ write_buf = <<>>
    /\ output_buf = <<>>
    /\ has_pending_writes = FALSE
    /\ pending_write_waker = FALSE
    /\ next_stream_id = 1
    /\ inbound_buf = [k \in 1..MAX_FRAME_SIZE |-> 0]
    /\ finished = FALSE
    /\ writer = "New"
    /\ bytes_to_write = FALSE
    /\ streams_to_remove = {}
    /\ log = [id \in StreamIds |-> NewHistory]
    /\ owed = <<>>
    /\ written = <<>>
    /\ calls = 0
    /\ frames = 0

-----------------------------------------------------------------------------
(* Calls of the layer above.  They only queue: the futures do the I/O. *)

Call ==
    /\ Unborrowed
    /\ calls < MaxCalls
    /\ calls' = calls + 1
    /\ UNCHANGED <<write_buf, output_buf, inbound_buf, finished, pass, owed, written, frames>>

\* The multistream layer calls only on streams it holds, and it takes the Data
\* that follows an OpenedByRemote before it returns to its own caller.
MayCall(id, holds) ==
    /\ log[id].hold \in holds
    /\ \A k \in DOMAIN output_buf : output_buf[k] # DataOut(id, output_buf[k].len)

open_stream ==
    LET id    == next_stream_id
        entry == IF id \in DOMAIN streams THEN streams[id] ELSE NewStream
    IN /\ Call
       /\ id \in StreamIds
       /\ next_stream_id' = id + 2
       /\ streams' = Put(streams, id, PushBack(entry, Control("Open")))
       /\ log' = [log EXCEPT ![id] = [NewHistory EXCEPT !.hold = "open"]]
       /\ FlushWrites

NextBytes(id, n) == [k \in 1..n |-> log[id].accepted + k]

\* The queue after n more bytes: they join the Data at the back, if any.
Extended(s, bytes) ==
    IF BackIs(s, {"Data"})
    THEN [s EXCEPT !.outbound_buf[Len(s.outbound_buf)] = DataMessage(@.bytes \o bytes)]
    ELSE PushBack(s, DataMessage(bytes))

CanQueueData(id) == id \in DOMAIN streams /\ ~BackIs(streams[id], {"Close", "Reset"})

send_data(id, n) ==
    /\ Call
    /\ MayCall(id, {"open"})
    /\ CanQueueData(id)
    /\ streams' = [streams EXCEPT ![id] = Extended(@, NextBytes(id, n))]
    /\ log' = [log EXCEPT ![id].accepted = @ + n]
    /\ FlushWrites
    /\ UNCHANGED next_stream_id

\* Err(StreamNotFound): nothing is queued.
send_data_not_found(id) ==
    /\ Call
    /\ MayCall(id, {"open"})
    /\ ~CanQueueData(id)
    /\ KeepWriteFlags
    /\ UNCHANGED <<streams, log, next_stream_id>>

close_stream(id) ==
    /\ Call
    /\ MayCall(id, {"open", "closed"})
    /\ log' = [log EXCEPT ![id].hold = "closed"]
    /\ IF id \in DOMAIN streams /\ ~BackIs(streams[id], {"Close"})
       THEN /\ streams' = [streams EXCEPT ![id] = PushBack(@, Control("Close"))]
            /\ FlushWrites
       ELSE UNCHANGED streams /\ KeepWriteFlags
    /\ UNCHANGED next_stream_id

close_stream_immediately(id) ==
    /\ Call
    /\ MayCall(id, {"open", "closed"})
    /\ log' = [log EXCEPT ![id] = [@ EXCEPT !.hold = "closed", !.dropped = TRUE]]
    /\ IF id \in DOMAIN streams
       THEN /\ streams' = [streams EXCEPT ![id].open_state = SetFinByUs(@),
                                          ![id].outbound_buf = <<Control("Close")>>]
            /\ FlushWrites
       ELSE UNCHANGED streams /\ KeepWriteFlags
    /\ UNCHANGED next_stream_id

AfterReset(s) == [s EXCEPT !.open_state = "Reset", !.outbound_buf = <<Control("Reset")>>]

\* The effect on streams and on the write flags of
\* reset_stream_immediately_with_shared_state.
ResetIn(id) ==
    IF id \in DOMAIN streams
    THEN streams' = [streams EXCEPT ![id] = AfterReset(@)] /\ FlushWrites
    ELSE UNCHANGED streams /\ KeepWriteFlags

\* Also called to forget a stream that the remote has closed.
reset_stream_immediately(id) ==
    /\ Call
    /\ MayCall(id, IF log[id].fin THEN Holds ELSE {"open", "closed"})
    /\ log' = [log EXCEPT ![id] = [@ EXCEPT !.hold = "none", !.dropped = TRUE]]
    /\ ResetIn(id)
    /\ UNCHANGED next_stream_id

-----------------------------------------------------------------------------
(* The read future.  Each action is one turn of read_next's loop.  A Data   *)
(* frame's body is awaited before any shared state is looked at, so reading *)
(* header and body is one step with the handling of the frame.              *)

Reading ==
    /\ Unborrowed
    /\ ~finished
    /\ UNCHANGED <<next_stream_id, pass, calls, written>>

\* history after the layer above has been handed output o; buf is inbound_buf
Handed(h, o, buf) ==
    CASE o.state = "OpenedByRemote" -> [h EXCEPT !.hold = "open"]
      [] o.state = "Data"           -> [h EXCEPT !.delivered = @ \o SubSeq(buf, 1, o.len)]
      [] o.state = "ClosedByRemote" -> [h EXCEPT !.hold = "none"]

take_output_buf ==
    /\ Reading
    /\ output_buf # <<>>
    /\ output_buf' = <<>>
    /\ LET o == Head(output_buf)
       IN log' = [log EXCEPT ![o.stream_id] = Handed(@, o, inbound_buf)]
    /\ KeepWriteFlags
    /\ UNCHANGED <<streams, write_buf, inbound_buf, finished, owed, frames>>

\* Mutant: the kept output is not looked at first.
ReadHeader_SkipsOutput ==
    Reading /\ frames < MaxFrames /\ frames' = frames + 1

\* A frame is read only when no output is left to hand out.
ReadHeader ==
    /\ Reading
    /\ output_buf = <<>>
    /\ frames < MaxFrames
    /\ frames' = frames + 1

IsOpenNewStream(f) == f.flags \cap FrameFlags = {"Syn"}

\* `continue`: the frame changes nothing.
Ignore == UNCHANGED <<streams, write_buf, output_buf, finished, log, owed>>

\* next() returns an error, or None.
Finish ==
    /\ finished' = TRUE
    /\ UNCHANGED <<streams, write_buf, output_buf, log, owed>>

\* Mutant: the remote may open streams with ids of ours.
InvalidStreamId_ZeroOnly(id) == id = 0

InvalidStreamId(id) == id % 2 = 1 \/ id = 0

TooManyStreams == Cardinality(DOMAIN streams) >= MAX_STREAMS

\* negotiate_new_stream_request returns an error
NegotiateFails(f) ==
    /\ IsOpenNewStream(f)
    /\ \/ InvalidStreamId(f.stream_id)
       \/ ~TooManyStreams /\ f.stream_id \in DOMAIN streams

\* ... or None
NegotiateRefuses(f) ==
    IsOpenNewStream(f) /\ ~InvalidStreamId(f.stream_id) /\ TooManyStreams

\* ... or the new stream, with its Accept queued.
NegotiateAccepts(f) ==
    /\ IsOpenNewStream(f)
    /\ ~InvalidStreamId(f.stream_id)
    /\ ~TooManyStreams
    /\ f.stream_id \notin DOMAIN streams

Known(f) == ~IsOpenNewStream(f) /\ f.stream_id \in DOMAIN streams

Lookup(f) ==
    IF IsOpenNewStream(f) THEN PushBack(NewStream, Control("Accept")) ELSE streams[f.stream_id]

LookupHistory(f) == IF IsOpenNewStream(f) THEN NewHistory ELSE log[f.stream_id]

WriteGlobally(g) ==
    /\ write_buf' = Append(write_buf, g)
    /\ owed' = Append(owed, g)
    /\ FlushWrites

Refuse(f) ==
    /\ WriteGlobally([kind |-> "Reset", stream_id |-> f.stream_id, value |-> 0])
    /\ UNCHANGED <<streams, output_buf, finished, log>>

----------------------------------------------------------------------------
(* Data frames *)

Payload(f) ==
    LET base == IF f.stream_id \in DOMAIN streams THEN log[f.stream_id].received ELSE 0
    IN [k \in 1..f.length |-> base + k]

read_data_too_large(f) ==
    /\ f.frame_type = "Data"
    /\ ReadHeader
    /\ f.length > MAX_FRAME_SIZE
    /\ Finish
    /\ KeepWriteFlags
    /\ UNCHANGED inbound_buf

ReadBody(f) ==
    /\ f.frame_type = "Data"
    /\ ReadHeader
    /\ f.length <= MAX_FRAME_SIZE
    /\ inbound_buf' = [k \in 1..MAX_FRAME_SIZE |->
                         IF k <= f.length THEN Payload(f)[k] ELSE inbound_buf[k]]

read_data_negotiate_fails(f) ==
    ReadBody(f) /\ NegotiateFails(f) /\ Finish /\ FlushWrites

read_data_refuse(f) == ReadBody(f) /\ NegotiateRefuses(f) /\ Refuse(f)

\* An unknown stream, or one that is closed on both sides or reset.
read_data_ignore(f) ==
    /\ ReadBody(f)
    /\ ~IsOpenNewStream(f)
    /\ Known(f) => streams[f.stream_id].open_state = "Reset"
    /\ Ignore
    /\ KeepWriteFlags

\* Err(DataSentAfterFin)
read_data_after_fin(f) ==
    /\ ReadBody(f)
    /\ Known(f)
    /\ streams[f.stream_id].open_state = "FinByThem"
    /\ Finish
    /\ KeepWriteFlags

\* Mutant: topped up only when nothing is left.
NeedsRefill_WhenEmpty(s) == s.recv_window = 0

\* The receive window is topped up once it falls below half a frame.
NeedsRefill(s) == s.recv_window < MAX_FRAME_SIZE \div 2

RefillDelta(s) == MAX_FRAME_SIZE - s.recv_window

Refilled(s) ==
    PushBack([s EXCEPT !.recv_window = @ + RefillDelta(s)], UpdateMessage(RefillDelta(s)))

Closes(f) == f.flags \cap {"Rst", "Fin"} # {}

\* Flags are looked at in this order: Rst, then Fin, then the window.
StreamsAfterData(f, s) ==
    CASE "Rst" \in f.flags -> Without(streams, {f.stream_id})
      [] "Rst" \notin f.flags /\ "Fin" \in f.flags ->
            Put(streams, f.stream_id, [s EXCEPT !.open_state = "FinByThem"])
      [] ~Closes(f) /\ NeedsRefill(s)  -> Put(streams, f.stream_id, Refilled(s))
      [] ~Closes(f) /\ ~NeedsRefill(s) -> Put(streams, f.stream_id, s)

\* Mutant: a Fin that comes with data is not reported.
OutputAfterData_ForgetsFin(f) ==
    IF f.length = 0 /\ Closes(f) THEN <<Closed(f.stream_id)>>
    ELSE IF IsOpenNewStream(f) /\ f.length > 0 THEN <<DataOut(f.stream_id, f.length)>>
    ELSE <<>>

\* The output kept for the next turn of the loop.
OutputAfterData(f) ==
    CASE IsOpenNewStream(f) /\ f.length > 0 -> <<DataOut(f.stream_id, f.length)>>
      [] Closes(f)                          -> <<Closed(f.stream_id)>>
      [] OTHER                              -> <<>>

HistoryAfterData(f, s) ==
    LET h == LookupHistory(f)
    IN [h EXCEPT !.received = @ + f.length,
                 !.overrun  = @ \/ f.length > Lookup(f).recv_window,
                 !.granted  = IF ~Closes(f) /\ NeedsRefill(s) THEN @ + RefillDelta(s) ELSE @,
                 !.fin      = @ \/ Closes(f)]

read_data(f) ==
    LET id == f.stream_id
        s  == [Lookup(f) EXCEPT !.recv_window = SaturatingSub(@, f.length)]
        h  == HistoryAfterData(f, s)
    IN /\ ReadBody(f)
       /\ \/ NegotiateAccepts(f)
          \/ Known(f) /\ streams[id].open_state \in {"Open", "FinByUs"}
       /\ streams' = StreamsAfterData(f, s)
       /\ output_buf' = OutputAfterData(f)
       /\ log' = [log EXCEPT ![id] =
                    CASE IsOpenNewStream(f) -> Handed(h, Opened(id), inbound_buf')
                      [] ~IsOpenNewStream(f) /\ f.length > 0 ->
                            Handed(h, DataOut(id, f.length), inbound_buf')
                      [] ~IsOpenNewStream(f) /\ f.length = 0 -> h]
       /\ IF IsOpenNewStream(f) \/ (~Closes(f) /\ NeedsRefill(s))
          THEN FlushWrites
          ELSE KeepWriteFlags
       /\ UNCHANGED <<write_buf, finished, owed>>

-----------------------------------------------------------------------------
(* Window updates.  Every one of them first asks for another write pass.   *)

ReadUpdate(f) ==
    /\ f.frame_type = "WindowUpdate"
    /\ ReadHeader
    /\ FlushWrites
    /\ UNCHANGED inbound_buf

read_update_negotiate_fails(f) == ReadUpdate(f) /\ NegotiateFails(f) /\ Finish

read_update_refuse(f) == ReadUpdate(f) /\ NegotiateRefuses(f) /\ Refuse(f)

read_update_ignore(f) ==
    /\ ReadUpdate(f)
    /\ ~IsOpenNewStream(f)
    /\ Known(f) => streams[f.stream_id].open_state = "Reset"
    /\ Ignore

StreamsAfterUpdate(f) ==
    LET s == [Lookup(f) EXCEPT !.send_window = @ + f.length]
    IN CASE "Rst" \in f.flags -> Without(streams, {f.stream_id})
         [] "Rst" \notin f.flags /\ "Fin" \in f.flags ->
               Put(streams, f.stream_id, [s EXCEPT !.open_state = SetFinByThem(@)])
         [] ~Closes(f) -> Put(streams, f.stream_id, s)

read_update(f) ==
    LET id == f.stream_id
        h  == [LookupHistory(f) EXCEPT !.credit = @ + f.length, !.fin = @ \/ Closes(f)]
    IN /\ ReadUpdate(f)
       /\ \/ NegotiateAccepts(f)
          \/ Known(f) /\ streams[id].open_state # "Reset"
       /\ streams' = StreamsAfterUpdate(f)
       /\ log' = [log EXCEPT ![id] =
                    CASE IsOpenNewStream(f) -> Handed(h, Opened(id), inbound_buf)
                      [] Closes(f)          -> Handed(h, Closed(id), inbound_buf)
                      [] OTHER              -> h]
       /\ UNCHANGED <<write_buf, output_buf, finished, owed>>

-----------------------------------------------------------------------------
(* Session frames, and the ways reading can fail *)

\* A Ping or GoAway that names a stream resets that stream.
read_session_frame_on_stream(f) ==
    /\ f.frame_type \in {"Ping", "GoAway"}
    /\ ReadHeader
    /\ f.stream_id # 0
    /\ ResetIn(f.stream_id)
    /\ log' = [log EXCEPT ![f.stream_id].dropped = @ \/ f.stream_id \in DOMAIN streams]
    /\ UNCHANGED <<write_buf, output_buf, inbound_buf, finished, owed>>

read_ping(f) ==
    /\ f.frame_type = "Ping"
    /\ ReadHeader
    /\ f.stream_id = 0
    /\ WriteGlobally([kind |-> "Pong", stream_id |-> 0, value |-> f.length])
    /\ UNCHANGED <<streams, output_buf, inbound_buf, finished, log>>

\* Whatever its code, a GoAway ends the session (with an error, or with None).
read_go_away(f) ==
    /\ f.frame_type = "GoAway"
    /\ ReadHeader
    /\ f.stream_id = 0
    /\ Finish
    /\ KeepWriteFlags
    /\ UNCHANGED inbound_buf

\* The transport failed, or the header could not be decoded.
read_error ==
    /\ ReadHeader
    /\ Finish
    /\ KeepWriteFlags
    /\ UNCHANGED inbound_buf

ReadFrame(f) ==
    \/ read_data_too_large(f)
    \/ read_data_negotiate_fails(f)
    \/ read_data_refuse(f)
    \/ read_data_ignore(f)
    \/ read_data_after_fin(f)
    \/ read_data(f)
    \/ read_update_negotiate_fails(f)
    \/ read_update_refuse(f)
    \/ read_update_ignore(f)
    \/ read_update(f)
    \/ read_session_frame_on_stream(f)
    \/ read_ping(f)
    \/ read_go_away(f)

-----------------------------------------------------------------------------
(* The write future.  One iteration of write_next's loop drains write_buf, *)
(* runs a pass over the streams, writes what the pass produced and parks.  *)

\* Mutant: the loop waits for its waker also before its first turn.
Awake_OnlyWhenWoken == writer = "Park" /\ has_pending_writes

\* The loop goes round when it is first polled, or when poll_fn finds the flag.
Awake == writer = "New" \/ (writer = "Park" /\ has_pending_writes)

write_begin ==
    /\ ~finished
    /\ Awake
    /\ has_pending_writes' = FALSE
    /\ write_buf' = <<>>
    /\ written' = written \o write_buf
    /\ writer' = IF write_buf = <<>> THEN "Pass" ELSE "Global"
    /\ UNCHANGED <<streams, output_buf, pending_write_waker, next_stream_id, inbound_buf,
                   finished, bytes_to_write, streams_to_remove, log, owed, calls, frames>>

\* Mutant: write_buf is cleared after it was written, not when it is taken.
write_global_done_Clears ==
    /\ ~finished
    /\ writer = "Global"
    /\ writer' = "Pass"
    /\ write_buf' = <<>>
    /\ UNCHANGED <<streams, output_buf, has_pending_writes, pending_write_waker,
                   next_stream_id, inbound_buf, finished, bytes_to_write,
                   streams_to_remove, log, owed, written, calls, frames>>

write_global_done ==
    /\ ~finished
    /\ writer = "Global"
    /\ writer' = "Pass"
    /\ UNCHANGED <<shared, next_stream_id, inbound_buf, finished, bytes_to_write,
                   streams_to_remove, log, owed, written, calls, frames>>

\* Mutant: the send window is not looked at.
BytesToSend_NoWindow(s, m) == SmallerOf(Len(m.bytes), MAX_SEND_SIZE)

\* How much of the Data message m may be sent on stream s in this round.
BytesToSend(s, m) ==
    SmallerOf(SmallerOf(Len(m.bytes), s.send_window), MAX_SEND_SIZE)

Pending(s) == s.outbound_buf # <<>>

Starved(s) ==
    /\ Pending(s)
    /\ Head(s.outbound_buf).kind = "Data"
    /\ BytesToSend(s, Head(s.outbound_buf)) = 0

\* Mutant: a Data message that cannot be sent is dropped.
PutBack_Drops(s) == [s EXCEPT !.outbound_buf = Tail(@)]

\* A Data message that cannot be sent goes to the back of the queue.
PutBack(s) == [s EXCEPT !.outbound_buf = Append(Tail(@), Head(@))]

\* Mutant: what is left is put back even when nothing is.
AfterSend_KeepsEmpty(s, n) ==
    LET m == Head(s.outbound_buf)
    IN [s EXCEPT !.send_window  = SaturatingSub(@, n),
                 !.outbound_buf =
                    <<DataMessage(SubSeq(m.bytes, n + 1, Len(m.bytes)))>> \o Tail(@)]

\* A Data message of which n bytes were sent; the rest stays at the front.
AfterSend(s, n) ==
    LET m == Head(s.outbound_buf)
    IN [s EXCEPT !.send_window  = SaturatingSub(@, n),
                 !.outbound_buf = IF n = Len(m.bytes) THEN Tail(@)
                                  ELSE <<DataMessage(SubSeq(m.bytes, n + 1, Len(m.bytes)))>>
                                         \o Tail(@)]

\* The stream after one message has been popped from its queue ...
AfterRound(s) ==
    LET m == Head(s.outbound_buf)
    IN CASE ~Pending(s) -> s
         [] Starved(s)  -> PutBack(s)
         [] Pending(s) /\ ~Starved(s) /\ m.kind = "Data" -> AfterSend(s, BytesToSend(s, m))
         [] Pending(s) /\ m.kind = "Close" ->
               [s EXCEPT !.outbound_buf = Tail(@), !.open_state = SetFinByUs(@)]
         [] Pending(s) /\ m.kind \notin {"Data", "Close"} -> [s EXCEPT !.outbound_buf = Tail(@)]

\* ... and what was written for it.
RoundWrites(s) ==
    LET m == Head(s.outbound_buf)
    IN CASE ~Pending(s) \/ Starved(s) -> <<>>
         [] Pending(s) /\ ~Starved(s) /\ m.kind = "Data" ->
               <<DataMessage(SubSeq(m.bytes, 1, BytesToSend(s, m)))>>
         [] Pending(s) /\ m.kind # "Data" -> <<m>>

DataLen(msgs) == IF msgs = <<>> THEN 0 ELSE Len(msgs[1].bytes)

Removals ==
    {id \in DOMAIN streams :
        Pending(streams[id]) /\ Head(streams[id].outbound_buf).kind = "Reset"}

WritesSomething == \E id \in DOMAIN streams : RoundWrites(streams[id]) # <<>>

\* One round: every stream gives up one message.
write_round ==
    /\ ~finished
    /\ writer = "Pass"
    /\ WritesSomething
    /\ streams' = [id \in DOMAIN streams |-> AfterRound(streams[id])]
    /\ log' = [id \in StreamIds |->
                 IF id \in DOMAIN streams
                 THEN [log[id] EXCEPT !.wire = @ \o RoundWrites(streams[id]),
                                      !.sent = @ + DataLen(RoundWrites(streams[id]))]
                 ELSE log[id]]
    /\ streams_to_remove' = streams_to_remove \cup Removals
    /\ bytes_to_write' = TRUE
    /\ UNCHANGED <<write_buf, output_buf, has_pending_writes, pending_write_waker,
                   next_stream_id, inbound_buf, finished, writer, owed, written, calls, frames>>

\* poll_fn: without pending writes, store a waker and wait.
Park ==
    /\ writer' = "Park"
    /\ pending_write_waker' = (pending_write_waker \/ ~has_pending_writes)

\* The round that writes nothing ends the pass; what was produced is written.
write_pass_end ==
    /\ ~finished
    /\ writer = "Pass"
    /\ ~WritesSomething
    /\ streams' = Without([id \in DOMAIN streams |-> AfterRound(streams[id])], streams_to_remove)
    /\ IF bytes_to_write
       THEN writer' = "Bulk" /\ UNCHANGED pending_write_waker
       ELSE Park
    /\ bytes_to_write' = FALSE
    /\ streams_to_remove' = {}
    /\ UNCHANGED <<write_buf, output_buf, has_pending_writes, next_stream_id, inbound_buf,
                   finished, log, owed, written, calls, frames>>

\* Mutant: the flag is reset at the end of the loop.
write_bulk_done_ClearsFlag ==
    /\ ~finished
    /\ writer = "Bulk"
    /\ writer' = "Park"
    /\ has_pending_writes' = FALSE
    /\ pending_write_waker' = TRUE
    /\ UNCHANGED <<streams, write_buf, output_buf, next_stream_id, inbound_buf, finished,
                   bytes_to_write, streams_to_remove, log, owed, written, calls, frames>>

write_bulk_done ==
    /\ ~finished
    /\ writer = "Bulk"
    /\ Park
    /\ UNCHANGED <<streams, write_buf, output_buf, has_pending_writes, next_stream_id,
                   inbound_buf, finished, bytes_to_write, streams_to_remove, log, owed,
                   written, calls, frames>>

\* The transport fails a write; the error ends the session.
write_error ==
    /\ ~finished
    /\ writer \in {"Global", "Bulk"}
    /\ finished' = TRUE
    /\ UNCHANGED <<shared, next_stream_id, inbound_buf, pass, log, owed, written, calls, frames>>

-----------------------------------------------------------------------------

Calls ==
    \/ open_stream
    \/ \E id \in StreamIds :
          \/ \E n \in SendSizes : send_data(id, n)
          \/ send_data_not_found(id)
          \/ close_stream(id)
          \/ close_stream_immediately(id)
          \/ reset_stream_immediately(id)

Reads ==
    \/ take_output_buf
    \/ \E f \in PeerFrames : ReadFrame(f)
    \/ read_error

Writes ==
    \/ write_begin
    \/ write_global_done
    \/ write_round
    \/ write_pass_end
    \/ write_bulk_done

Next == Calls \/ Reads \/ Writes \/ write_error

Spec == Init /\ [][Next]_vars

\* Whoever owns the session keeps polling next(), and the transport accepts
\* what is written to it.  Nothing is assumed of the remote or of the callers.
FairSpec == Spec /\ WF_vars(take_output_buf) /\ WF_vars(Writes)

-----------------------------------------------------------------------------
(* Correctness *)

\* Every variable has its type; a queued or written Data message has bytes.
TypeOK ==
    /\ DOMAIN streams \subseteq StreamIds
    /\ \A id \in DOMAIN streams : streams[id] \in StreamState
    /\ write_buf \in Seq(GlobalFrame)
    /\ output_buf \in Seq(Output) /\ Len(output_buf) <= 1
    /\ has_pending_writes \in BOOLEAN
    /\ pending_write_waker \in BOOLEAN
    /\ next_stream_id \in Nat
    /\ inbound_buf \in [1..MAX_FRAME_SIZE -> Nat]
    /\ finished \in BOOLEAN
    /\ writer \in WriterStates
    /\ bytes_to_write \in BOOLEAN
    /\ streams_to_remove \subseteq StreamIds
    /\ log \in [StreamIds -> History]
    /\ owed \in Seq(GlobalFrame)
    /\ written \in Seq(GlobalFrame)
    /\ calls \in 0..MaxCalls
    /\ frames \in 0..MaxFrames

\* Flow control towards the remote (write_next, 745-784; WindowUpdate, 586):
\* what has been written on a stream never exceeds the initial window plus the
\* updates received, and send_window is exactly what is left of it.
SendWindowRespected ==
    \A id \in StreamIds :
        /\ log[id].sent <= DEFAULT_WINDOW + log[id].credit
        /\ id \in DOMAIN streams =>
              streams[id].send_window = DEFAULT_WINDOW + log[id].credit - log[id].sent

\* Flow control towards us (Data, 498-529): while a stream still receives,
\* recv_window is what the remote has been granted and has not used, and never
\* falls below half a frame, so a remote that keeps to its window can send.
RecvWindowKept ==
    \A id \in DOMAIN streams :
        streams[id].open_state \in {"Open", "FinByUs"} /\ ~log[id].overrun =>
            /\ streams[id].recv_window = DEFAULT_WINDOW + log[id].granted - log[id].received
            /\ streams[id].recv_window >= MAX_FRAME_SIZE \div 2

\* The pongs and refusals put in write_buf are written once each, in order
\* (write_next, 680-687): none is lost when one arrives while others are
\* being written.
GlobalFramesKept == written \o write_buf = owed

\* Can be written although a pass is over: only Data with no window left, and
\* what a queue holds besides that Data.
Stuck(s) ==
    /\ s.send_window = 0
    /\ \E k \in DOMAIN s.outbound_buf : s.outbound_buf[k].kind = "Data"

\* No lost wake-up (flush_writes, 93-98; write_next, 678 and 811-823): when the
\* write future waits without a pending request to write, everything queued
\* has been written, except on streams whose Data waits for a window update;
\* and a stored waker is never left behind once there is something to write.
ParkedMeansDrained ==
    /\ writer = "Park" /\ ~has_pending_writes =>
          /\ write_buf = <<>>
          /\ \A id \in DOMAIN streams : ~Pending(streams[id]) \/ Stuck(streams[id])
    /\ pending_write_waker => writer = "Park" /\ ~has_pending_writes

\* The bytes handed out for a stream are those the remote sent on it, each
\* once and in order (read_next, 434, 460-462 and 540-555): an output kept for
\* the next call is never overtaken by the next frame, nor its bytes replaced.
DeliveredIntact ==
    \A id \in StreamIds :
        LET kept == IF \E k \in DOMAIN output_buf : output_buf[k] = DataOut(id, output_buf[k].len)
                    THEN SubSeq(inbound_buf, 1, output_buf[1].len)
                    ELSE <<>>
        IN log[id].delivered \o kept = [k \in 1..log[id].received |-> k]

\* Whenever the remote has closed a stream (Fin or Rst on either frame type)
\* the layer above has been told, or is told next, or had reset it itself.
CloseReported ==
    \A id \in StreamIds :
        log[id].fin => log[id].hold = "none" \/ output_buf = <<Closed(id)>>

\* A message that can be written is written, or its stream goes away (write_next).
Sendable(id) ==
    id \in DOMAIN streams /\ Pending(streams[id]) /\ ~Stuck(streams[id])

EventuallyWritten ==
    /\ \A id \in StreamIds : Sendable(id) ~> (~Sendable(id) \/ finished)
    /\ (write_buf # <<>>) ~> (write_buf = <<>> \/ finished)

=============================================================================

---------------------------- MODULE YamuxProofs -----------------------------
(***************************************************************************)
(* Yamux, for every value of its constants: type correctness, both windows *)
(* of a stream, the wake-ups of the write future, what the layer above is  *)
(* handed, and that the session implements StreamService.                  *)
(***************************************************************************)
EXTENDS YamuxService, TLAPS

\* The provers, in the order in which a step that names none is given to them. SMT has more
\* than one turn because tlapm drops an obligation that it was too slow to translate.
USE Zenon, SMTT(10), SMTT(20), SMTT(30)

(* Type correctness: first the calls of the layer above and the read       *)
(* future, then the write pass, and the theorem.                           *)

LEMMA ControlType ==
    ASSUME NEW kind \in Kinds \ {"Data"}
    PROVE  Control(kind) \in BufferedOutboundMessage
BY DEF Control, BufferedOutboundMessage, Kinds

LEMMA DataMessageType ==
    ASSUME NEW bytes \in Seq(Nat), bytes # <<>>
    PROVE  DataMessage(bytes) \in BufferedOutboundMessage
BY DEF DataMessage, BufferedOutboundMessage, Kinds

LEMMA UpdateMessageType ==
    ASSUME NEW d \in Nat
    PROVE  UpdateMessage(d) \in BufferedOutboundMessage
BY DEF UpdateMessage, BufferedOutboundMessage, Kinds

LEMMA PushBackType ==
    ASSUME NEW s \in StreamState, NEW m \in BufferedOutboundMessage
    PROVE  PushBack(s, m) \in StreamState
BY DEF PushBack, StreamState

LEMMA NewStreamType == NewStream \in StreamState
BY YamuxConstants DEF NewStream, StreamState, OpenStates

LEMMA PutType ==
    ASSUME NEW f, NEW D, NEW S, NEW key \in D, NEW value \in S,
           DOMAIN f \subseteq D, \A x \in DOMAIN f : f[x] \in S
    PROVE  /\ DOMAIN Put(f, key, value) \subseteq D
           /\ \A x \in DOMAIN Put(f, key, value) : Put(f, key, value)[x] \in S
BY DEF Put

LEMMA ExtendedType ==
    ASSUME NEW s \in StreamState, NEW bytes \in Seq(Nat), bytes # <<>>
    PROVE  Extended(s, bytes) \in StreamState
<1>1. CASE BackIs(s, {"Data"})
  <2>1. s.outbound_buf \in Seq(BufferedOutboundMessage) /\ s.outbound_buf # <<>>
    BY <1>1 DEF StreamState, BackIs
  <2>2. Back(s) \in BufferedOutboundMessage
    BY <2>1 DEF Back
  <2>3. Back(s).bytes \o bytes \in Seq(Nat) /\ Back(s).bytes \o bytes # <<>>
    BY <2>2 DEF BufferedOutboundMessage
  <2> DEFINE m   == DataMessage(Back(s).bytes \o bytes)
             buf == [s.outbound_buf EXCEPT ![Len(s.outbound_buf)] = m]
  <2>4. m \in BufferedOutboundMessage
    BY <2>3, DataMessageType
  <2>5. buf \in Seq(BufferedOutboundMessage)
    <3> HIDE DEF m
    <3> QED  BY <2>1, <2>4
  <2>6. Extended(s, bytes) = [s EXCEPT !.outbound_buf = buf]
    BY <1>1 DEF Extended, Back
  <2>7. QED
    <3> HIDE DEF buf
    <3> QED  BY <2>5, <2>6 DEF StreamState
<1>2. CASE ~BackIs(s, {"Data"})
  BY <1>2, DataMessageType, PushBackType DEF Extended
<1>3. QED
  BY <1>1, <1>2

-----------------------------------------------------------------------------
(* Type correctness, one lemma per actor *)

StreamsType ==
    /\ DOMAIN streams \subseteq StreamIds
    /\ \A id \in DOMAIN streams : streams[id] \in StreamState

LogType == log \in [StreamIds -> History]

FlagsType == has_pending_writes \in BOOLEAN /\ pending_write_waker \in BOOLEAN

LEMMA NewHistoryType == NewHistory \in History
BY DEF NewHistory, History, Holds

LEMMA AcceptedType ==
    ASSUME NEW h \in History, NEW n \in Nat
    PROVE  [h EXCEPT !.accepted = @ + n] \in History
BY SMTT(30) DEF History

LEMMA LetGoType ==
    ASSUME NEW h \in History, NEW hold \in Holds
    PROVE  [h EXCEPT !.hold = hold, !.dropped = TRUE] \in History
BY DEF History

LEMMA FlagsStayTyped ==
    ASSUME FlagsType, FlushWrites \/ KeepWriteFlags
    PROVE  FlagsType'
BY DEF FlagsType, FlushWrites, KeepWriteFlags

\* A call changes only the streams, the write flags, the next id and the history.
LEMMA CallType ==
    ASSUME TypeOK, Call, StreamsType', LogType', next_stream_id' \in Nat,
           FlushWrites \/ KeepWriteFlags
    PROVE  TypeOK'
<1>1. FlagsType'
  BY FlagsStayTyped DEF TypeOK, FlagsType
<1>2. calls' \in 0..MaxCalls
  BY YamuxConstants DEF TypeOK, Call
<1>3. QED
  BY <1>1, <1>2 DEF TypeOK, Call, pass, StreamsType, LogType, FlagsType

LEMMA UpdateStream ==
    ASSUME StreamsType, NEW id, NEW s \in StreamState, streams' = [streams EXCEPT ![id] = s]
    PROVE  StreamsType'
BY DEF StreamsType

LEMMA UpdateLog ==
    ASSUME LogType, NEW id \in StreamIds, NEW h \in History, log' = [log EXCEPT ![id] = h]
    PROVE  LogType'
BY DEF LogType

LEMMA AfterResetType ==
    ASSUME NEW s \in StreamState
    PROVE  AfterReset(s) \in StreamState
<1>1. <<Control("Reset")>> \in Seq(BufferedOutboundMessage)
  BY ControlType DEF Kinds
<1>2. QED
  BY <1>1 DEF AfterReset, StreamState, OpenStates

LEMMA ResetInType ==
    ASSUME StreamsType, NEW id, ResetIn(id)
    PROVE  StreamsType' /\ (FlushWrites \/ KeepWriteFlags)
<1>1. CASE id \in DOMAIN streams
  <2>1. AfterReset(streams[id]) \in StreamState
    BY <1>1, AfterResetType DEF StreamsType
  <2>2. QED
    BY <1>1, <2>1, UpdateStream DEF ResetIn
<1>2. CASE id \notin DOMAIN streams
  BY <1>2 DEF ResetIn, StreamsType
<1>3. QED
  BY <1>1, <1>2

LEMMA CallsType == TypeOK /\ Calls => TypeOK'
<1> SUFFICES ASSUME TypeOK, Calls PROVE TypeOK'
  OBVIOUS
<1>0. StreamsType /\ LogType /\ next_stream_id \in Nat
  BY DEF TypeOK, StreamsType, LogType
<1>1. CASE open_stream
  <2> DEFINE id == next_stream_id
             entry == IF id \in DOMAIN streams THEN streams[id] ELSE NewStream
             opened == PushBack(entry, Control("Open"))
             h == [NewHistory EXCEPT !.hold = "open"]
  <2>1. opened \in StreamState
    BY <1>0, NewStreamType, ControlType, PushBackType DEF StreamsType, Kinds
  <2>2. StreamsType'
    <3>1. streams' = Put(streams, id, opened) /\ id \in StreamIds
      BY <1>1 DEF open_stream
    <3> HIDE DEF opened, id
    <3> QED  BY <1>0, <2>1, <3>1, PutType DEF StreamsType
  <2>3. h \in History
    BY NewHistoryType DEF History, Holds
  <2>4. LogType'
    BY <1>0, <1>1, <2>3, UpdateLog DEF open_stream
  <2>5. QED
    BY <1>0, <1>1, <2>2, <2>4, CallType DEF open_stream
<1>2. ASSUME NEW id \in StreamIds, NEW n \in SendSizes, send_data(id, n)
      PROVE  TypeOK'
  <2>1. n \in Nat /\ n # 0
    BY YamuxConstants
  <2>2. NextBytes(id, n) \in Seq(Nat) /\ NextBytes(id, n) # <<>>
    <3>1. log[id].accepted \in Nat
      BY <1>0 DEF LogType, History
    <3>2. QED
      BY <2>1, <3>1 DEF NextBytes
  <2>3. Extended(streams[id], NextBytes(id, n)) \in StreamState
    BY <1>0, <1>2, <2>2, ExtendedType DEF send_data, CanQueueData, StreamsType
  <2>4. StreamsType'
    BY <1>0, <1>2, <2>3, UpdateStream DEF send_data
  <2>5. LogType'
    <3> DEFINE h == [log[id] EXCEPT !.accepted = @ + n]
    <3>1. h \in History
      BY <1>0, <2>1, AcceptedType DEF LogType
    <3>2. log' = [log EXCEPT ![id] = h]
      BY <1>2 DEF send_data
    <3>3. QED
      BY <1>0, <3>1, <3>2, UpdateLog
  <2>6. QED
    BY <1>0, <1>2, <2>4, <2>5, CallType DEF send_data
<1>3. ASSUME NEW id \in StreamIds, send_data_not_found(id)
      PROVE  TypeOK'
  <2>1. StreamsType' /\ LogType' /\ next_stream_id' \in Nat
    BY <1>0, <1>3 DEF send_data_not_found, StreamsType, LogType
  <2>2. QED
    BY <1>3, <2>1, CallType DEF send_data_not_found
<1>4. ASSUME NEW id \in StreamIds, close_stream(id)
      PROVE  TypeOK'
  <2>1. LogType'
    BY ZenonT(40), <1>0, <1>4 DEF close_stream, LogType, History, Holds
  <2>2. StreamsType' /\ (FlushWrites \/ KeepWriteFlags)
    <3>1. CASE id \in DOMAIN streams /\ ~BackIs(streams[id], {"Close"})
      <4>1. PushBack(streams[id], Control("Close")) \in StreamState
        BY <1>0, <3>1, ControlType, PushBackType DEF StreamsType, Kinds
      <4>2. QED
        BY <1>0, <1>4, <3>1, <4>1, UpdateStream DEF close_stream
    <3>2. CASE ~(id \in DOMAIN streams /\ ~BackIs(streams[id], {"Close"}))
      BY <1>0, <1>4, <3>2 DEF close_stream, StreamsType
    <3>3. QED
      BY <3>1, <3>2
  <2>3. QED
    BY <1>0, <1>4, <2>1, <2>2, CallType DEF close_stream
<1>5. ASSUME NEW id \in StreamIds, close_stream_immediately(id)
      PROVE  TypeOK'
  <2>1. LogType'
    <3>1. [log[id] EXCEPT !.hold = "closed", !.dropped = TRUE] \in History
      BY <1>0, LetGoType DEF LogType, Holds
    <3>2. QED
      BY <1>0, <1>5, <3>1, UpdateLog DEF close_stream_immediately
  <2>2. StreamsType' /\ (FlushWrites \/ KeepWriteFlags)
    <3>1. CASE id \in DOMAIN streams
      <4>1. <<Control("Close")>> \in Seq(BufferedOutboundMessage)
        BY ControlType DEF Kinds
      <4> DEFINE s == [streams[id] EXCEPT !.open_state = SetFinByUs(@),
                                          !.outbound_buf = <<Control("Close")>>]
      <4>2. s \in StreamState
        BY <1>0, <3>1, <4>1 DEF StreamsType, StreamState, SetFinByUs, OpenStates
      <4>3. streams' = [streams EXCEPT ![id] = s]
        BY <1>5, <3>1 DEF close_stream_immediately
      <4>4. FlushWrites
        BY <1>5, <3>1 DEF close_stream_immediately
      <4>5. QED
        BY <1>0, <4>2, <4>3, <4>4, UpdateStream
    <3>2. CASE id \notin DOMAIN streams
      BY <1>0, <1>5, <3>2 DEF close_stream_immediately, StreamsType
    <3>3. QED
      BY <3>1, <3>2
  <2>3. QED
    BY <1>0, <1>5, <2>1, <2>2, CallType DEF close_stream_immediately
<1>6. ASSUME NEW id \in StreamIds, reset_stream_immediately(id)
      PROVE  TypeOK'
  <2>1. LogType'
    <3>1. [log[id] EXCEPT !.hold = "none", !.dropped = TRUE] \in History
      BY <1>0, LetGoType DEF LogType, Holds
    <3>2. QED
      BY <1>0, <1>6, <3>1, UpdateLog DEF reset_stream_immediately
  <2>2. QED
    BY <1>0, <1>6, <2>1, ResetInType, CallType DEF reset_stream_immediately
<1>7. QED
  BY <1>1, <1>2, <1>3, <1>4, <1>5, <1>6 DEF Calls

\* Reading a frame changes neither the writer's position nor the next id.
LEMMA ReadType ==
    ASSUME TypeOK, Reading, StreamsType', LogType', FlushWrites \/ KeepWriteFlags,
           output_buf' \in Seq(Output), Len(output_buf') <= 1,
           inbound_buf' \in [1..MAX_FRAME_SIZE -> Nat], finished' \in BOOLEAN,
           write_buf' \in Seq(GlobalFrame), owed' \in Seq(GlobalFrame),
           frames' \in 0..MaxFrames
    PROVE  TypeOK'
<1>1. FlagsType'
  BY FlagsStayTyped DEF TypeOK, FlagsType
<1>2. QED
  BY <1>1 DEF TypeOK, Reading, pass, StreamsType, LogType, FlagsType

LEMMA HandedType ==
    ASSUME NEW h \in History, NEW o \in Output, NEW buf \in [1..MAX_FRAME_SIZE -> Nat]
    PROVE  Handed(h, o, buf) \in History
<1>1. CASE o.state = "OpenedByRemote"
  BY <1>1 DEF Handed, History, Holds
<1>2. CASE o.state = "Data"
  <2>1. o.len \in 0..MAX_FRAME_SIZE
    BY DEF Output
  <2>2. SubSeq(buf, 1, o.len) \in Seq(Nat)
    BY <2>1, YamuxConstants
  <2>3. h.delivered \o SubSeq(buf, 1, o.len) \in Seq(Nat)
    BY <2>2 DEF History
  <2>4. QED
    BY <1>2, <2>3 DEF Handed, History
<1>3. CASE o.state = "ClosedByRemote"
  BY <1>3 DEF Handed, History, Holds
<1>4. QED
  BY <1>1, <1>2, <1>3 DEF Output

LEMMA PeerFrameType ==
    ASSUME NEW f \in PeerFrames
    PROVE  /\ f.frame_type \in {"Data", "WindowUpdate", "Ping", "GoAway"}
           /\ f.stream_id \in StreamIds \cup {0}
           /\ f.flags \subseteq FrameFlags
           /\ f.length \in Nat
<1>1. f \in Frame
  BY YamuxConstants
<1>2. QED
  BY <1>1 DEF Frame

\* The frame is accepted as the first of a stream, or belongs to one we know.
ForStream(f) == NegotiateAccepts(f) \/ Known(f)

LEMMA ForStreamType ==
    ASSUME StreamsType, LogType, NEW f \in PeerFrames, ForStream(f)
    PROVE  /\ f.stream_id \in StreamIds
           /\ Lookup(f) \in StreamState
           /\ LookupHistory(f) \in History
<1>1. f.stream_id \in StreamIds
  BY PeerFrameType DEF ForStream, NegotiateAccepts, InvalidStreamId, Known, StreamsType
<1>2. Lookup(f) \in StreamState
  <2>1. PushBack(NewStream, Control("Accept")) \in StreamState
    BY NewStreamType, ControlType, PushBackType DEF Kinds
  <2>2. QED
    BY <2>1 DEF ForStream, NegotiateAccepts, Known, Lookup, StreamsType
<1>3. LookupHistory(f) \in History
  BY <1>1, NewHistoryType DEF LookupHistory, LogType
<1>4. QED
  BY <1>1, <1>2, <1>3

LEMMA WithoutType ==
    ASSUME StreamsType, NEW keys, streams' = Without(streams, keys)
    PROVE  StreamsType'
BY DEF StreamsType, Without

LEMMA PutStreamType ==
    ASSUME StreamsType, NEW id \in StreamIds, NEW s \in StreamState,
           streams' = Put(streams, id, s)
    PROVE  StreamsType'
BY PutType DEF StreamsType

LEMMA ReadHeaderFrames ==
    ASSUME TypeOK, ReadHeader
    PROVE  frames' \in 0..MaxFrames
BY YamuxConstants DEF TypeOK, ReadHeader

LEMMA ReadBodyType ==
    ASSUME TypeOK, NEW f \in PeerFrames, ReadBody(f)
    PROVE  inbound_buf' \in [1..MAX_FRAME_SIZE -> Nat]
<1> DEFINE base == IF f.stream_id \in DOMAIN streams THEN log[f.stream_id].received ELSE 0
<1>1. base \in Nat
  BY DEF TypeOK, History
<1>2. f.length \in Nat /\ f.length <= MAX_FRAME_SIZE /\ MAX_FRAME_SIZE \in Nat
  BY PeerFrameType, YamuxConstants DEF ReadBody
<1>3. Payload(f) = [k \in 1..f.length |-> base + k]
  BY DEF Payload
<1>4. \A k \in 1..f.length : Payload(f)[k] \in Nat
  <2> HIDE DEF base
  <2> QED  BY <1>1, <1>2, <1>3
<1>5. QED
  BY <1>2, <1>4 DEF ReadBody, TypeOK

\* A frame that changes no stream: it is ignored, ends the session, or is refused.
LEMMA QuietReadType ==
    ASSUME TypeOK, ReadHeader, FlushWrites \/ KeepWriteFlags,
           inbound_buf' \in [1..MAX_FRAME_SIZE -> Nat],
           Ignore \/ Finish \/ \E f \in PeerFrames : Refuse(f)
    PROVE  TypeOK'
<1>1. StreamsType' /\ LogType'
  BY DEF TypeOK, StreamsType, LogType, Ignore, Finish, Refuse
<1>2. output_buf' \in Seq(Output) /\ Len(output_buf') <= 1 /\ finished' \in BOOLEAN
  BY DEF TypeOK, Ignore, Finish, Refuse
<1>3. write_buf' \in Seq(GlobalFrame) /\ owed' \in Seq(GlobalFrame)
  <2>1. CASE Ignore \/ Finish
    BY <2>1 DEF TypeOK, Ignore, Finish
  <2>2. ASSUME NEW f \in PeerFrames, Refuse(f)
        PROVE  write_buf' \in Seq(GlobalFrame) /\ owed' \in Seq(GlobalFrame)
    <3> DEFINE g == [kind |-> "Reset", stream_id |-> f.stream_id, value |-> 0]
    <3>1. g \in GlobalFrame
      BY PeerFrameType DEF GlobalFrame
    <3>2. write_buf' = Append(write_buf, g) /\ owed' = Append(owed, g)
      BY <2>2 DEF Refuse, WriteGlobally
    <3> HIDE DEF g
    <3>3. QED
      BY <3>1, <3>2 DEF TypeOK
  <2>3. QED
    BY <2>1, <2>2
<1>4. Reading /\ frames' \in 0..MaxFrames
  BY ReadHeaderFrames DEF ReadHeader
<1>5. QED
  BY <1>1, <1>2, <1>3, <1>4, ReadType

LEMMA RefilledType ==
    ASSUME NEW s \in StreamState, NeedsRefill(s)
    PROVE  Refilled(s) \in StreamState /\ RefillDelta(s) \in Nat
<1>1. RefillDelta(s) \in Nat
  BY YamuxConstants DEF RefillDelta, NeedsRefill, StreamState
<1>2. [s EXCEPT !.recv_window = @ + RefillDelta(s)] \in StreamState
  BY <1>1 DEF StreamState
<1>3. QED
  BY <1>1, <1>2, UpdateMessageType, PushBackType DEF Refilled

LEMMA ReceivedType ==
    ASSUME NEW s \in StreamState, NEW n \in Nat
    PROVE  [s EXCEPT !.recv_window = SaturatingSub(@, n)] \in StreamState
BY DEF SaturatingSub, StreamState

LEMMA HistoryAfterDataType ==
    ASSUME NEW f \in PeerFrames, NEW s \in StreamState, LookupHistory(f) \in History
    PROVE  HistoryAfterData(f, s) \in History
<1> DEFINE h == LookupHistory(f)
           granted == IF ~Closes(f) /\ NeedsRefill(s) THEN h.granted + RefillDelta(s) ELSE h.granted
           overrun == h.overrun \/ f.length > Lookup(f).recv_window
           fin == h.fin \/ Closes(f)
<1>1. h.received + f.length \in Nat /\ granted \in Nat
  BY PeerFrameType, RefilledType DEF History
<1>2. overrun \in BOOLEAN /\ fin \in BOOLEAN
  OBVIOUS
<1>3. HistoryAfterData(f, s) = [h EXCEPT !.received = h.received + f.length, !.overrun = overrun,
                                         !.granted = granted, !.fin = fin]
  BY DEF HistoryAfterData
<1>4. QED
  <2> HIDE DEF h, granted, overrun, fin
  <2>1. h \in History
    BY DEF h
  <2>2. QED
    BY <1>1, <1>2, <1>3, <2>1 DEF History

LEMMA StreamsAfterDataType ==
    ASSUME StreamsType, NEW f \in PeerFrames, NEW s \in StreamState, f.stream_id \in StreamIds,
           streams' = StreamsAfterData(f, s)
    PROVE  StreamsType'
<1>1. CASE "Rst" \in f.flags
  BY <1>1, WithoutType DEF StreamsAfterData, Closes
<1>2. CASE "Rst" \notin f.flags /\ "Fin" \in f.flags
  <2>1. [s EXCEPT !.open_state = "FinByThem"] \in StreamState
    BY DEF StreamState, OpenStates
  <2>2. QED
    BY <1>2, <2>1, PutStreamType DEF StreamsAfterData, Closes
<1>3. CASE ~Closes(f) /\ NeedsRefill(s)
  BY <1>3, RefilledType, PutStreamType DEF StreamsAfterData, Closes
<1>4. CASE ~Closes(f) /\ ~NeedsRefill(s)
  BY <1>4, PutStreamType DEF StreamsAfterData, Closes
<1>5. QED
  BY <1>1, <1>2, <1>3, <1>4 DEF Closes

LEMMA OutputAfterDataType ==
    ASSUME NEW f \in PeerFrames, f.stream_id \in StreamIds, f.length <= MAX_FRAME_SIZE
    PROVE  OutputAfterData(f) \in Seq(Output) /\ Len(OutputAfterData(f)) <= 1
<1>1. DataOut(f.stream_id, f.length) \in Output /\ Closed(f.stream_id) \in Output
  BY PeerFrameType, YamuxConstants DEF DataOut, Closed, Output
<1>2. QED
  BY <1>1 DEF OutputAfterData

LEMMA ReadDataType ==
    ASSUME TypeOK, NEW f \in PeerFrames, read_data(f)
    PROVE  TypeOK'
<1> DEFINE id == f.stream_id
           s == [Lookup(f) EXCEPT !.recv_window = SaturatingSub(@, f.length)]
           h == HistoryAfterData(f, s)
           handed == CASE IsOpenNewStream(f) -> Handed(h, Opened(id), inbound_buf')
                       [] ~IsOpenNewStream(f) /\ f.length > 0 ->
                             Handed(h, DataOut(id, f.length), inbound_buf')
                       [] ~IsOpenNewStream(f) /\ f.length = 0 -> h
<1>1. StreamsType /\ LogType /\ ForStream(f)
  BY DEF TypeOK, StreamsType, LogType, read_data, ForStream
<1>2. id \in StreamIds /\ Lookup(f) \in StreamState /\ LookupHistory(f) \in History
  BY <1>1, ForStreamType
<1>3. f.length \in Nat /\ f.length <= MAX_FRAME_SIZE /\ ReadBody(f)
  BY PeerFrameType DEF read_data, ReadBody
<1>4. s \in StreamState
  BY <1>2, <1>3, ReceivedType
<1>5. StreamsType'
  BY <1>1, <1>2, <1>4, StreamsAfterDataType DEF read_data
<1>6. h \in History
  BY <1>2, <1>4, HistoryAfterDataType
<1>7. inbound_buf' \in [1..MAX_FRAME_SIZE -> Nat]
  BY <1>3, ReadBodyType
<1>8. handed \in History
  <2>1. Opened(id) \in Output /\ DataOut(id, f.length) \in Output
    BY <1>2, <1>3, YamuxConstants DEF Opened, DataOut, Output
  <2> HIDE DEF h, s, id
  <2>2. Handed(h, Opened(id), inbound_buf') \in History
    BY <1>6, <1>7, <2>1, HandedType
  <2>3. Handed(h, DataOut(id, f.length), inbound_buf') \in History
    BY <1>6, <1>7, <2>1, HandedType
  <2>4. QED
    BY <1>3, <1>6, <2>2, <2>3
<1>9. LogType'
  <2>1. log' = [log EXCEPT ![id] = handed]
    BY DEF read_data
  <2> HIDE DEF handed, id
  <2>2. QED
    BY <1>1, <1>2, <1>8, <2>1, UpdateLog
<1>10. output_buf' \in Seq(Output) /\ Len(output_buf') <= 1
  BY <1>2, <1>3, OutputAfterDataType DEF read_data
<1>11. /\ write_buf' \in Seq(GlobalFrame) /\ owed' \in Seq(GlobalFrame)
       /\ finished' \in BOOLEAN
       /\ Reading /\ frames' \in 0..MaxFrames
  BY ReadHeaderFrames DEF TypeOK, read_data, ReadBody, ReadHeader
<1>12. FlushWrites \/ KeepWriteFlags
  BY DEF read_data
<1>13. QED
  BY <1>5, <1>7, <1>9, <1>10, <1>11, <1>12, ReadType

LEMMA StreamsAfterUpdateType ==
    ASSUME StreamsType, NEW f \in PeerFrames, f.stream_id \in StreamIds,
           Lookup(f) \in StreamState, streams' = StreamsAfterUpdate(f)
    PROVE  StreamsType'
<1> DEFINE s == [Lookup(f) EXCEPT !.send_window = @ + f.length]
<1>1. s \in StreamState
  BY PeerFrameType DEF StreamState
<1>2. [s EXCEPT !.open_state = SetFinByThem(@)] \in StreamState
  <2> HIDE DEF s
  <2> QED  BY <1>1 DEF StreamState, SetFinByThem, OpenStates
<1>3. \/ streams' = Without(streams, {f.stream_id})
      \/ streams' = Put(streams, f.stream_id, s)
      \/ streams' = Put(streams, f.stream_id, [s EXCEPT !.open_state = SetFinByThem(@)])
  BY DEF StreamsAfterUpdate, Closes
<1>4. QED
  <2> HIDE DEF s
  <2> QED  BY <1>1, <1>2, <1>3, WithoutType, PutStreamType

LEMMA FinType ==
    ASSUME NEW h \in History, NEW fin \in BOOLEAN
    PROVE  [h EXCEPT !.fin = fin] \in History
BY DEF History

LEMMA DroppedType ==
    ASSUME NEW h \in History, NEW dropped \in BOOLEAN
    PROVE  [h EXCEPT !.dropped = dropped] \in History
BY DEF History

LEMMA CreditOnlyType ==
    ASSUME NEW h \in History, NEW n \in Nat
    PROVE  [h EXCEPT !.credit = @ + n] \in History
BY SMTT(30) DEF History

LEMMA CreditType ==
    ASSUME NEW h \in History, NEW n \in Nat, NEW c \in BOOLEAN
    PROVE  [h EXCEPT !.credit = @ + n, !.fin = @ \/ c] \in History
<1> DEFINE fin == h.fin \/ c
           g == [h EXCEPT !.credit = @ + n]
<1>1. fin \in BOOLEAN
  OBVIOUS
<1>2. g \in History
  BY CreditOnlyType
<1>3. [h EXCEPT !.credit = @ + n, !.fin = @ \/ c] = [g EXCEPT !.fin = fin]
  BY DEF History
<1>4. QED
  <2> HIDE DEF fin, g
  <2> QED  BY <1>1, <1>2, <1>3, FinType

LEMMA ReadUpdateType ==
    ASSUME TypeOK, NEW f \in PeerFrames, read_update(f)
    PROVE  TypeOK'
<1> DEFINE id == f.stream_id
           h == [LookupHistory(f) EXCEPT !.credit = @ + f.length, !.fin = @ \/ Closes(f)]
           handed == CASE IsOpenNewStream(f) -> Handed(h, Opened(id), inbound_buf)
                       [] Closes(f)          -> Handed(h, Closed(id), inbound_buf)
                       [] OTHER              -> h
<1>1. StreamsType /\ LogType /\ ForStream(f)
  BY DEF TypeOK, StreamsType, LogType, read_update, ForStream
<1>2. id \in StreamIds /\ Lookup(f) \in StreamState /\ LookupHistory(f) \in History
  BY <1>1, ForStreamType
<1>3. f.length \in Nat /\ ReadUpdate(f) /\ inbound_buf \in [1..MAX_FRAME_SIZE -> Nat]
  BY PeerFrameType DEF read_update, TypeOK
<1>4. StreamsType'
  BY <1>1, <1>2, StreamsAfterUpdateType DEF read_update
<1>5. h \in History
  <2>1. Closes(f) \in BOOLEAN
    BY DEF Closes
  <2>2. QED
    BY <1>2, <1>3, <2>1, CreditType
<1>6. handed \in History
  <2>1. Opened(id) \in Output /\ Closed(id) \in Output
    BY <1>2, YamuxConstants DEF Opened, Closed, Output
  <2> HIDE DEF h, id
  <2>2. Handed(h, Opened(id), inbound_buf) \in History
    BY <1>3, <1>5, <2>1, HandedType
  <2>3. Handed(h, Closed(id), inbound_buf) \in History
    BY <1>3, <1>5, <2>1, HandedType
  <2>4. QED
    BY <1>5, <2>2, <2>3
<1>7. LogType'
  <2>1. log' = [log EXCEPT ![id] = handed]
    BY DEF read_update
  <2> HIDE DEF handed, id, h
  <2>2. QED
    BY <1>1, <1>2, <1>6, <2>1, UpdateLog
<1>8. /\ output_buf' \in Seq(Output) /\ Len(output_buf') <= 1
      /\ write_buf' \in Seq(GlobalFrame) /\ owed' \in Seq(GlobalFrame)
      /\ finished' \in BOOLEAN /\ inbound_buf' \in [1..MAX_FRAME_SIZE -> Nat]
      /\ Reading /\ frames' \in 0..MaxFrames
      /\ FlushWrites
  BY <1>3, ReadHeaderFrames DEF TypeOK, read_update, ReadUpdate, ReadHeader
<1>9. QED
  BY <1>4, <1>7, <1>8, ReadType

LEMMA SessionFrameType ==
    ASSUME TypeOK, NEW f \in PeerFrames, read_session_frame_on_stream(f)
    PROVE  TypeOK'
<1> DEFINE id == f.stream_id
<1>1. StreamsType /\ LogType /\ id \in StreamIds
  BY PeerFrameType DEF TypeOK, StreamsType, LogType, read_session_frame_on_stream
<1>2. StreamsType' /\ (FlushWrites \/ KeepWriteFlags)
  BY <1>1, ResetInType DEF read_session_frame_on_stream
<1>3. LogType'
  <2> DEFINE dropped == log[id].dropped \/ id \in DOMAIN streams
             h == [log[id] EXCEPT !.dropped = dropped]
  <2>1. dropped \in BOOLEAN
    OBVIOUS
  <2>2. log' = [log EXCEPT ![id] = h]
    BY DEF read_session_frame_on_stream
  <2> HIDE DEF dropped
  <2>3. h \in History
    BY <1>1, <2>1, DroppedType DEF LogType
  <2> HIDE DEF h, id
  <2>4. QED
    BY <1>1, <2>2, <2>3, UpdateLog
<1>4. /\ output_buf' \in Seq(Output) /\ Len(output_buf') <= 1
      /\ write_buf' \in Seq(GlobalFrame) /\ owed' \in Seq(GlobalFrame)
      /\ finished' \in BOOLEAN /\ inbound_buf' \in [1..MAX_FRAME_SIZE -> Nat]
      /\ Reading /\ frames' \in 0..MaxFrames
  BY ReadHeaderFrames DEF TypeOK, read_session_frame_on_stream, ReadHeader
<1>5. QED
  BY <1>2, <1>3, <1>4, ReadType

LEMMA PingType ==
    ASSUME TypeOK, NEW f \in PeerFrames, read_ping(f)
    PROVE  TypeOK'
<1> DEFINE g == [kind |-> "Pong", stream_id |-> 0, value |-> f.length]
<1>1. g \in GlobalFrame
  BY PeerFrameType DEF GlobalFrame
<1>2. write_buf' = Append(write_buf, g) /\ owed' = Append(owed, g) /\ FlushWrites
  BY DEF read_ping, WriteGlobally
<1>3. write_buf' \in Seq(GlobalFrame) /\ owed' \in Seq(GlobalFrame)
  <2> HIDE DEF g
  <2> QED  BY <1>1, <1>2 DEF TypeOK
<1>4. /\ StreamsType' /\ LogType'
      /\ output_buf' \in Seq(Output) /\ Len(output_buf') <= 1
      /\ finished' \in BOOLEAN /\ inbound_buf' \in [1..MAX_FRAME_SIZE -> Nat]
      /\ Reading /\ frames' \in 0..MaxFrames
  BY ReadHeaderFrames DEF TypeOK, read_ping, ReadHeader, StreamsType, LogType
<1>5. QED
  BY <1>2, <1>3, <1>4, ReadType

LEMMA TakeOutputType ==
    ASSUME TypeOK, take_output_buf
    PROVE  TypeOK'
<1> DEFINE o == Head(output_buf)
           h == Handed(log[o.stream_id], o, inbound_buf)
<1>1. o \in Output
  BY DEF TypeOK, take_output_buf
<1>2. o.stream_id \in StreamIds
  BY <1>1 DEF Output
<1>3. h \in History
  <2> HIDE DEF o
  <2> QED  BY <1>1, <1>2, HandedType DEF TypeOK
<1>4. LogType'
  <2>1. log' = [log EXCEPT ![o.stream_id] = h]
    BY DEF take_output_buf
  <2> HIDE DEF o, h
  <2>2. QED
    BY <1>2, <1>3, <2>1, UpdateLog DEF TypeOK, LogType
<1>5. /\ StreamsType'
      /\ output_buf' \in Seq(Output) /\ Len(output_buf') <= 1
      /\ write_buf' \in Seq(GlobalFrame) /\ owed' \in Seq(GlobalFrame)
      /\ finished' \in BOOLEAN /\ inbound_buf' \in [1..MAX_FRAME_SIZE -> Nat]
      /\ Reading /\ frames' \in 0..MaxFrames
      /\ KeepWriteFlags
  BY DEF TypeOK, take_output_buf, StreamsType
<1>6. QED
  BY <1>4, <1>5, ReadType

LEMMA ReadsType == TypeOK /\ Reads => TypeOK'
<1> SUFFICES ASSUME TypeOK, Reads PROVE TypeOK'
  OBVIOUS
<1>1. CASE take_output_buf
  BY <1>1, TakeOutputType
<1>2. CASE read_error
  BY SMTT(30), <1>2, QuietReadType DEF read_error, TypeOK
<1>3. ASSUME NEW f \in PeerFrames, ReadFrame(f)
      PROVE  TypeOK'
  <2>1. CASE read_data_too_large(f) \/ read_go_away(f)
    BY SMTT(30), <2>1, QuietReadType DEF read_data_too_large, read_go_away, TypeOK
  <2>2. CASE \/ read_data_negotiate_fails(f) \/ read_data_refuse(f)
             \/ read_data_ignore(f) \/ read_data_after_fin(f)
    <3>1. ReadBody(f) /\ ReadHeader
      BY <2>2 DEF read_data_negotiate_fails, read_data_refuse, read_data_ignore,
                  read_data_after_fin, ReadBody
    <3>2. FlushWrites \/ KeepWriteFlags
      BY <2>2 DEF read_data_negotiate_fails, read_data_refuse, read_data_ignore,
                  read_data_after_fin, Refuse, WriteGlobally
    <3>3. Ignore \/ Finish \/ Refuse(f)
      BY <2>2 DEF read_data_negotiate_fails, read_data_refuse, read_data_ignore,
                  read_data_after_fin
    <3>4. QED
      BY <3>1, <3>2, <3>3, ReadBodyType, QuietReadType
  <2>3. CASE read_data(f)
    BY <2>3, ReadDataType
  <2>4. CASE read_update_negotiate_fails(f) \/ read_update_refuse(f) \/ read_update_ignore(f)
    <3>1. ReadHeader /\ FlushWrites /\ inbound_buf' \in [1..MAX_FRAME_SIZE -> Nat]
      BY <2>4 DEF read_update_negotiate_fails, read_update_refuse, read_update_ignore,
                  ReadUpdate, TypeOK
    <3>2. Ignore \/ Finish \/ Refuse(f)
      BY <2>4 DEF read_update_negotiate_fails, read_update_refuse, read_update_ignore
    <3>3. QED
      BY <3>1, <3>2, QuietReadType
  <2>5. CASE read_update(f)
    BY <2>5, ReadUpdateType
  <2>6. CASE read_session_frame_on_stream(f)
    BY <2>6, SessionFrameType
  <2>7. CASE read_ping(f)
    BY <2>7, PingType
  <2>8. QED
    BY <1>3, <2>1, <2>2, <2>3, <2>4, <2>5, <2>6, <2>7 DEF ReadFrame
<1>4. QED
  BY <1>1, <1>2, <1>3 DEF Reads

-----------------------------------------------------------------------------

(* What one round of the write pass does to one stream *)

LEMMA QueueFacts ==
    ASSUME NEW s \in StreamState, Pending(s)
    PROVE  /\ s.outbound_buf \in Seq(BufferedOutboundMessage) /\ s.outbound_buf # <<>>
           /\ Head(s.outbound_buf) \in BufferedOutboundMessage
           /\ Tail(s.outbound_buf) \in Seq(BufferedOutboundMessage)
           /\ Head(s.outbound_buf).bytes \in Seq(Nat)
           /\ Head(s.outbound_buf).kind = "Data" <=> Head(s.outbound_buf).bytes # <<>>
<1>1. s.outbound_buf \in Seq(BufferedOutboundMessage) /\ s.outbound_buf # <<>>
  BY DEF StreamState, Pending
<1>2. Head(s.outbound_buf) \in BufferedOutboundMessage
      /\ Tail(s.outbound_buf) \in Seq(BufferedOutboundMessage)
  BY <1>1
<1>3. QED
  BY <1>1, <1>2 DEF BufferedOutboundMessage

LEMMA BytesToSendFacts ==
    ASSUME NEW s \in StreamState, Pending(s), Head(s.outbound_buf).kind = "Data"
    PROVE  LET m == Head(s.outbound_buf)
               n == BytesToSend(s, m)
           IN /\ n \in 0..Len(m.bytes) /\ n <= s.send_window
              /\ n = 0 => s.send_window = 0
<1> DEFINE m == Head(s.outbound_buf)
<1>1. Len(m.bytes) \in Nat /\ Len(m.bytes) # 0
  BY QueueFacts
<1>2. s.send_window \in Nat
  BY DEF StreamState
<1>3. QED
  <2> HIDE DEF m
  <2>1. LET n == BytesToSend(s, m)
        IN n \in 0..Len(m.bytes) /\ n <= s.send_window /\ (n = 0 => s.send_window = 0)
    BY <1>1, <1>2, YamuxConstants DEF BytesToSend, SmallerOf
  <2>2. QED
    BY <2>1 DEF m

\* What a round leaves of stream s, and what it writes for it.
RoundOK(s) ==
    /\ AfterRound(s) \in StreamState
    /\ RoundWrites(s) \in Seq(BufferedOutboundMessage)
    /\ DataLen(RoundWrites(s)) \in Nat
    /\ AfterRound(s).send_window + DataLen(RoundWrites(s)) = s.send_window
    /\ AfterRound(s).recv_window = s.recv_window
    /\ AfterRound(s).open_state \in {s.open_state, SetFinByUs(s.open_state)}
    /\ RoundWrites(s) = <<>> => ~Pending(AfterRound(s)) \/ Stuck(AfterRound(s))

LEMMA RoundIdle ==
    ASSUME NEW s \in StreamState, ~Pending(s)
    PROVE  RoundOK(s)
<1>1. ~Starved(s)
  BY DEF Starved
<1>2. AfterRound(s) = s /\ RoundWrites(s) = <<>> /\ DataLen(<<>>) = 0
  BY <1>1 DEF AfterRound, RoundWrites, DataLen
<1>3. QED
  BY <1>2 DEF RoundOK, StreamState

LEMMA RoundStarved ==
    ASSUME NEW s \in StreamState, Starved(s)
    PROVE  RoundOK(s)
<1> DEFINE m == Head(s.outbound_buf)
           q == Append(Tail(s.outbound_buf), m)
<1>1. Pending(s) /\ m.kind = "Data"
  BY DEF Starved
<1>2. AfterRound(s) = [s EXCEPT !.outbound_buf = q]
  BY <1>1 DEF AfterRound, PutBack
<1>3. RoundWrites(s) = <<>> /\ DataLen(<<>>) = 0
  BY <1>1 DEF RoundWrites, DataLen
<1>4. m \in BufferedOutboundMessage /\ Tail(s.outbound_buf) \in Seq(BufferedOutboundMessage)
  BY <1>1, QueueFacts
<1>5. q \in Seq(BufferedOutboundMessage) /\ Len(q) \in DOMAIN q /\ q[Len(q)] = m
  <2> HIDE DEF m
  <2> QED  BY <1>4
<1>6. s.send_window = 0
  BY <1>1, BytesToSendFacts DEF Starved
<1>7. QED
  <2> HIDE DEF q, m
  <2>1. AfterRound(s).send_window = 0 /\ AfterRound(s).outbound_buf = q
    BY <1>2, <1>6 DEF StreamState
  <2>2. Stuck(AfterRound(s))
    BY <1>1, <1>5, <2>1 DEF Stuck
  <2>3. AfterRound(s) \in StreamState
    BY <1>2, <1>5 DEF StreamState
  <2>4. QED
    BY <1>2, <1>3, <1>6, <2>1, <2>2, <2>3 DEF RoundOK, StreamState

LEMMA SubSeqFacts ==
    ASSUME NEW q \in Seq(Nat), NEW a \in Nat \ {0}, a <= Len(q)
    PROVE  SubSeq(q, a, Len(q)) \in Seq(Nat) /\ SubSeq(q, a, Len(q)) # <<>>
<1>1. \A i \in 1..(Len(q) - a + 1) : q[i + a - 1] \in Nat
  OBVIOUS
<1>2. SubSeq(q, a, Len(q)) \in Seq(Nat)
  BY <1>1
<1>3. Len(SubSeq(q, a, Len(q))) = Len(q) - a + 1
  OBVIOUS
<1>4. Len(SubSeq(q, a, Len(q))) # 0
  BY <1>3
<1>5. QED
  <2> DEFINE r == SubSeq(q, a, Len(q))
  <2> HIDE DEF r
  <2>1. r \in Seq(Nat) /\ Len(r) # 0
    BY <1>2, <1>4 DEF r
  <2>2. r # <<>>
    BY <2>1
  <2>3. QED
    BY <2>1, <2>2 DEF r

LEMMA PrefixFacts ==
    ASSUME NEW q \in Seq(Nat), NEW k \in Nat \ {0}, k <= Len(q)
    PROVE  /\ SubSeq(q, 1, k) \in Seq(Nat)
           /\ SubSeq(q, 1, k) # <<>>
           /\ Len(SubSeq(q, 1, k)) = k
<1>1. \A i \in 1..k : q[i] \in Nat
  OBVIOUS
<1>2. SubSeq(q, 1, k) \in Seq(Nat)
  BY <1>1
<1>3. Len(SubSeq(q, 1, k)) = k
  OBVIOUS
<1>4. QED
  <2> DEFINE r == SubSeq(q, 1, k)
  <2> HIDE DEF r
  <2>1. r \in Seq(Nat) /\ Len(r) = k
    BY <1>2, <1>3 DEF r
  <2>2. r # <<>>
    BY <2>1
  <2>3. QED
    BY <2>1, <2>2 DEF r

LEMMA PushFrontType ==
    ASSUME NEW S, NEW x \in S, NEW t \in Seq(S)
    PROVE  <<x>> \o t \in Seq(S)
OBVIOUS

LEMMA RoundSends ==
    ASSUME NEW s \in StreamState, Pending(s), ~Starved(s), Head(s.outbound_buf).kind = "Data"
    PROVE  RoundOK(s)
<1> DEFINE m == Head(s.outbound_buf)
           n == BytesToSend(s, m)
           rest == SubSeq(m.bytes, n + 1, Len(m.bytes))
           q == IF n = Len(m.bytes) THEN Tail(s.outbound_buf)
                ELSE <<DataMessage(rest)>> \o Tail(s.outbound_buf)
           out == DataMessage(SubSeq(m.bytes, 1, n))
<1>1. n \in 1..Len(m.bytes) /\ n <= s.send_window
  <2>1. n # 0
    BY DEF Starved
  <2>2. QED
    BY <2>1, BytesToSendFacts
<1>2. m.bytes \in Seq(Nat) /\ Tail(s.outbound_buf) \in Seq(BufferedOutboundMessage)
  BY QueueFacts
<1>3. AfterRound(s) = [s EXCEPT !.send_window = SaturatingSub(@, n), !.outbound_buf = q]
  BY DEF AfterRound, AfterSend
<1>4. RoundWrites(s) = <<out>>
  BY DEF RoundWrites
<1>5. q \in Seq(BufferedOutboundMessage)
  <2>1. CASE n = Len(m.bytes)
    BY <1>2, <2>1
  <2>2. CASE n # Len(m.bytes)
    <3>1. rest \in Seq(Nat) /\ rest # <<>>
      <4> HIDE DEF m, n
      <4>1. n + 1 \in Nat \ {0} /\ n + 1 <= Len(m.bytes)
        BY <1>1, <1>2, <2>2
      <4>2. QED
        BY <1>2, <4>1, SubSeqFacts
    <3>2. DataMessage(rest) \in BufferedOutboundMessage
      BY <3>1, DataMessageType
    <3>3. QED
      <4>1. <<DataMessage(rest)>> \o Tail(s.outbound_buf) \in Seq(BufferedOutboundMessage)
        BY <1>2, <3>2, PushFrontType
      <4> HIDE DEF rest, n, m
      <4> QED  BY <2>2, <4>1
  <2>3. QED
    BY <2>1, <2>2
<1>6. /\ SubSeq(m.bytes, 1, n) \in Seq(Nat)
      /\ SubSeq(m.bytes, 1, n) # <<>>
      /\ Len(SubSeq(m.bytes, 1, n)) = n
  <2> HIDE DEF m, n
  <2>1. n \in Nat \ {0} /\ n <= Len(m.bytes)
    BY <1>1, <1>2
  <2>2. QED
    BY <1>2, <2>1, PrefixFacts
<1>7. out \in BufferedOutboundMessage
  BY <1>6, DataMessageType
<1>8. DataLen(<<out>>) = n
  BY <1>6 DEF DataLen, DataMessage
<1>9. QED
  <2> HIDE DEF q, n, m, out
  <2>1. SaturatingSub(s.send_window, n) = s.send_window - n /\ s.send_window - n \in Nat
    BY <1>1 DEF SaturatingSub, StreamState
  <2>2. AfterRound(s) \in StreamState /\ AfterRound(s).send_window = s.send_window - n
        /\ AfterRound(s).recv_window = s.recv_window /\ AfterRound(s).open_state = s.open_state
    BY <1>3, <1>5, <2>1 DEF StreamState
  <2>3. RoundWrites(s) \in Seq(BufferedOutboundMessage) /\ RoundWrites(s) # <<>>
    BY <1>4, <1>7
  <2>4. s.send_window \in Nat /\ n \in Nat
    BY <1>1 DEF StreamState
  <2>5. QED
    BY <1>4, <1>8, <2>2, <2>3, <2>4 DEF RoundOK

LEMMA RoundControl ==
    ASSUME NEW s \in StreamState, Pending(s), Head(s.outbound_buf).kind # "Data"
    PROVE  RoundOK(s)
<1> DEFINE m == Head(s.outbound_buf)
           state == IF m.kind = "Close" THEN SetFinByUs(s.open_state) ELSE s.open_state
<1>1. ~Starved(s)
  BY DEF Starved
<1>2. RoundWrites(s) = <<m>> /\ <<m>> \in Seq(BufferedOutboundMessage) /\ <<m>> # <<>>
  BY <1>1, QueueFacts DEF RoundWrites
<1>3. DataLen(<<m>>) = 0
  BY QueueFacts DEF DataLen
<1>4. AfterRound(s) = [s EXCEPT !.outbound_buf = Tail(@), !.open_state = state]
  <2>1. CASE m.kind = "Close"
    BY <1>1, <2>1 DEF AfterRound
  <2>2. CASE m.kind # "Close"
    BY <1>1, <2>2 DEF AfterRound, StreamState
  <2>3. QED
    BY <2>1, <2>2
<1>5. state \in OpenStates /\ state \in {s.open_state, SetFinByUs(s.open_state)}
  BY DEF StreamState, SetFinByUs, OpenStates
<1>6. QED
  <2> HIDE DEF state, m
  <2>1. /\ AfterRound(s) \in StreamState /\ AfterRound(s).send_window = s.send_window
        /\ AfterRound(s).recv_window = s.recv_window /\ AfterRound(s).open_state = state
    BY <1>4, <1>5, QueueFacts DEF StreamState
  <2>2. s.send_window \in Nat
    BY DEF StreamState
  <2>3. QED
    BY <1>2, <1>3, <1>5, <2>1, <2>2 DEF RoundOK

LEMMA RoundFacts ==
    ASSUME NEW s \in StreamState
    PROVE  RoundOK(s)
BY RoundIdle, RoundStarved, RoundSends, RoundControl

LEMMA WritesType == TypeOK /\ (Writes \/ write_error) => TypeOK'
<1> SUFFICES ASSUME TypeOK, Writes \/ write_error PROVE TypeOK'
  OBVIOUS
<1>0. \A id \in DOMAIN streams : id \in StreamIds /\ RoundOK(streams[id])
  BY RoundFacts DEF TypeOK
<1>1. CASE write_begin
  <2>1. written \o write_buf \in Seq(GlobalFrame)
    BY DEF TypeOK
  <2>2. writer' \in WriterStates /\ write_buf' \in Seq(GlobalFrame)
    BY <1>1 DEF write_begin, WriterStates
  <2>3. QED
    BY ZenonT(40), <1>1, <2>1, <2>2 DEF write_begin, TypeOK
<1>2. CASE write_global_done
  BY <1>2 DEF write_global_done, TypeOK, WriterStates, shared
<1>3. CASE write_round
  <2>1. StreamsType'
    BY <1>0, <1>3 DEF write_round, StreamsType, RoundOK
  <2>2. LogType'
    <3> DEFINE written_to(id) == IF id \in DOMAIN streams
                                 THEN [log[id] EXCEPT !.wire = @ \o RoundWrites(streams[id]),
                                                      !.sent = @ + DataLen(RoundWrites(streams[id]))]
                                 ELSE log[id]
    <3>1. ASSUME NEW id \in StreamIds PROVE written_to(id) \in History
      <4>1. CASE id \in DOMAIN streams
        <5>1. log[id] \in History
          BY DEF TypeOK
        <5>2. /\ log[id].wire \o RoundWrites(streams[id]) \in Seq(BufferedOutboundMessage)
              /\ log[id].sent + DataLen(RoundWrites(streams[id])) \in Nat
          BY <1>0, <4>1, <5>1 DEF RoundOK, History
        <5>3. QED
          BY ZenonT(40), <4>1, <5>1, <5>2 DEF History
      <4>2. CASE id \notin DOMAIN streams
        BY <4>2 DEF TypeOK
      <4>3. QED
        BY <4>1, <4>2
    <3>2. log' = [id \in StreamIds |-> written_to(id)]
      BY <1>3 DEF write_round
    <3> HIDE DEF written_to
    <3>3. QED
      BY <3>1, <3>2 DEF LogType
  <2>3. streams_to_remove' \subseteq StreamIds
    BY <1>3 DEF write_round, Removals, TypeOK
  <2>4. QED
    BY <1>3, <2>1, <2>2, <2>3 DEF write_round, TypeOK, StreamsType, LogType
<1>4. CASE write_pass_end
  <2>1. StreamsType'
    BY <1>0, <1>4 DEF write_pass_end, StreamsType, RoundOK, Without
  <2>2. writer' \in WriterStates /\ pending_write_waker' \in BOOLEAN
    BY <1>4 DEF write_pass_end, Park, WriterStates, TypeOK
  <2>3. QED
    BY <1>4, <2>1, <2>2 DEF write_pass_end, TypeOK, StreamsType
<1>5. CASE write_bulk_done
  <2>1. writer' \in WriterStates /\ pending_write_waker' \in BOOLEAN
    BY <1>5 DEF write_bulk_done, Park, WriterStates, TypeOK
  <2>2. QED
    BY <1>5, <2>1 DEF write_bulk_done, TypeOK
<1>6. CASE write_error
  BY <1>6 DEF write_error, TypeOK, shared, pass
<1>7. QED
  BY <1>1, <1>2, <1>3, <1>4, <1>5, <1>6 DEF Writes

LEMMA InitType == Init => TypeOK
<1> SUFFICES ASSUME Init PROVE TypeOK
  OBVIOUS
<1>1. DOMAIN streams = {}
  BY DEF Init
<1>2. log \in [StreamIds -> History]
  BY NewHistoryType DEF Init
<1>3. /\ write_buf \in Seq(GlobalFrame) /\ owed \in Seq(GlobalFrame)
      /\ written \in Seq(GlobalFrame)
      /\ output_buf \in Seq(Output) /\ Len(output_buf) <= 1
      /\ inbound_buf \in [1..MAX_FRAME_SIZE -> Nat]
  BY DEF Init
<1>4. writer \in WriterStates /\ calls \in 0..MaxCalls /\ frames \in 0..MaxFrames
  BY YamuxConstants DEF Init, WriterStates
<1>5. /\ has_pending_writes \in BOOLEAN /\ pending_write_waker \in BOOLEAN
      /\ finished \in BOOLEAN /\ bytes_to_write \in BOOLEAN
      /\ next_stream_id \in Nat /\ streams_to_remove \subseteq StreamIds
  BY DEF Init
<1>6. QED
  BY <1>1, <1>2, <1>3, <1>4, <1>5 DEF TypeOK

\* Every reachable state of a session has its type: in particular a queue never
\* holds a Data message without bytes, which write_next could never write.
THEOREM TypeCorrect == Spec => []TypeOK
<1>1. TypeOK /\ [Next]_vars => TypeOK'
  <2> SUFFICES ASSUME TypeOK, [Next]_vars PROVE TypeOK'
    OBVIOUS
  <2>1. CASE UNCHANGED vars
    BY <2>1 DEF TypeOK, vars, shared, pass
  <2>2. QED
    BY <2>1, CallsType, ReadsType, WritesType DEF Next
<1>2. QED
  BY <1>1, InitType, PTL DEF Spec

-----------------------------------------------------------------------------
(* Stream ids.  Our streams have odd ids below next_stream_id, so that       *)
(* open_stream always makes a new stream.                                    *)

OwnIds ==
    /\ next_stream_id % 2 = 1
    /\ \A id \in DOMAIN streams : id % 2 = 1 => id < next_stream_id

\* What a step may do to the set of streams.
DomainStep ==
    \/ /\ next_stream_id' = next_stream_id
       /\ \A id \in DOMAIN streams' : id \in DOMAIN streams \/ id % 2 = 0
    \/ /\ next_stream_id' = next_stream_id + 2
       /\ DOMAIN streams' \subseteq DOMAIN streams \cup {next_stream_id}

LEMMA DomainStepKeepsOwnIds ==
    ASSUME TypeOK, OwnIds, DomainStep
    PROVE  OwnIds'
<1>1. next_stream_id \in Nat /\ \A id \in DOMAIN streams : id \in Nat
  BY YamuxConstants DEF TypeOK
<1>2. QED
  BY <1>1 DEF OwnIds, DomainStep

LEMMA AcceptedIsEven ==
    ASSUME StreamsType, NEW f \in PeerFrames, ForStream(f)
    PROVE  f.stream_id \in DOMAIN streams \/ f.stream_id % 2 = 0
<1>1. f.stream_id \in Nat
  <2>1. f.stream_id \in StreamIds \cup {0}
    BY PeerFrameType
  <2>2. StreamIds \subseteq Nat
    BY YamuxConstants
  <2>3. f.stream_id = 0 => f.stream_id \in Nat
    OBVIOUS
  <2>4. QED
    BY <2>1, <2>2, <2>3
<1>2. QED
  BY <1>1 DEF ForStream, NegotiateAccepts, InvalidStreamId, Known

LEMMA StreamsAfterDataDomain ==
    ASSUME NEW f, NEW s
    PROVE  DOMAIN StreamsAfterData(f, s) \subseteq DOMAIN streams \cup {f.stream_id}
BY DEF StreamsAfterData, Closes, Put, Without

LEMMA StreamsAfterUpdateDomain ==
    ASSUME NEW f
    PROVE  DOMAIN StreamsAfterUpdate(f) \subseteq DOMAIN streams \cup {f.stream_id}
BY DEF StreamsAfterUpdate, Closes, Put, Without

LEMMA NextDomainStep ==
    ASSUME TypeOK, [Next]_vars
    PROVE  DomainStep
<1>1. CASE UNCHANGED vars
  BY SMTT(30), <1>1 DEF vars, shared, DomainStep
<1>2. CASE Calls
  BY <1>2 DEF Calls, open_stream, send_data, send_data_not_found, close_stream,
       close_stream_immediately, reset_stream_immediately, ResetIn, Put, DomainStep
<1>3. ASSUME NEW f \in PeerFrames, read_data(f) \/ read_update(f)
      PROVE  DomainStep
  <2>1. ForStream(f) /\ DOMAIN streams' \subseteq DOMAIN streams \cup {f.stream_id}
    BY <1>3, StreamsAfterDataDomain, StreamsAfterUpdateDomain
       DEF read_data, read_update, ForStream
  <2>2. next_stream_id' = next_stream_id
    BY <1>3 DEF read_data, read_update, ReadBody, ReadUpdate, ReadHeader, Reading
  <2>3. QED
    BY <2>1, <2>2, AcceptedIsEven DEF DomainStep, TypeOK, StreamsType
<1>4. CASE take_output_buf \/ read_error
  BY <1>4 DEF take_output_buf, read_error, Finish, ReadHeader, Reading, DomainStep
<1>5. ASSUME NEW f \in PeerFrames, ReadFrame(f), ~read_data(f), ~read_update(f)
      PROVE  DomainStep
  BY SMTT(30), <1>5 DEF ReadFrame, read_data_too_large, read_data_negotiate_fails, read_data_refuse,
       read_data_ignore, read_data_after_fin, read_update_negotiate_fails, read_update_refuse,
       read_update_ignore, read_session_frame_on_stream, read_ping, read_go_away, ReadBody,
       ReadUpdate, ReadHeader, Reading, Refuse, Ignore, Finish, ResetIn, DomainStep
<1>6. CASE Writes \/ write_error
  BY <1>6 DEF Writes, write_error, write_begin, write_global_done, write_round,
       write_pass_end, write_bulk_done, Without, shared, DomainStep
<1>7. QED
  BY <1>1, <1>2, <1>3, <1>4, <1>5, <1>6 DEF Next, Reads

LEMMA OwnIdsInvariant == Spec => []OwnIds
<1>1. Init => OwnIds
  BY DEF Init, OwnIds
<1>2. TypeOK /\ OwnIds /\ [Next]_vars => OwnIds'
  BY NextDomainStep, DomainStepKeepsOwnIds
<1>3. QED
  BY <1>1, <1>2, TypeCorrect, PTL DEF Spec

-----------------------------------------------------------------------------
(* Flow control.  Both window properties are about one stream and its        *)
(* history, so they are carried together.                                    *)

Receives(s) == s.open_state \in {"Open", "FinByUs"}

HistoryOK(h) == h.sent <= DEFAULT_WINDOW + h.credit

WindowOK(s, h) ==
    /\ s.send_window = DEFAULT_WINDOW + h.credit - h.sent
    /\ Receives(s) /\ ~h.overrun =>
          /\ s.recv_window = DEFAULT_WINDOW + h.granted - h.received
          /\ s.recv_window >= MAX_FRAME_SIZE \div 2

Windows ==
    \A id \in StreamIds :
        HistoryOK(log[id]) /\ (id \in DOMAIN streams => WindowOK(streams[id], log[id]))

\* t differs from s in nothing that matters for the windows; so does g from h.
SameWindows(s, t) ==
    /\ t.send_window = s.send_window
    /\ t.recv_window = s.recv_window
    /\ Receives(t) => Receives(s)

SameCounts(h, g) ==
    /\ g.sent = h.sent
    /\ g.credit = h.credit
    /\ g.granted = h.granted
    /\ g.received = h.received
    /\ g.overrun = h.overrun

QuietStep ==
    /\ \A id \in DOMAIN streams' :
          id \in DOMAIN streams /\ SameWindows(streams[id], streams'[id])
    /\ \A id \in StreamIds : SameCounts(log[id], log'[id])

LEMMA QuietStepKeepsWindows ==
    ASSUME Windows, QuietStep
    PROVE  Windows'
BY DEF Windows, QuietStep, HistoryOK, WindowOK, SameWindows, SameCounts

\* Only stream id and its history change.
OneStream(id) ==
    /\ \A x \in DOMAIN streams' \ {id} : x \in DOMAIN streams /\ streams'[x] = streams[x]
    /\ \A x \in StreamIds \ {id} : log'[x] = log[x]

LEMMA OneStreamKeepsWindows ==
    ASSUME Windows, NEW id \in StreamIds, OneStream(id),
           HistoryOK(log'[id]), id \in DOMAIN streams' => WindowOK(streams'[id], log'[id])
    PROVE  Windows'
BY DEF Windows, OneStream, HistoryOK, WindowOK, Receives

LEMMA NewStreamWindows ==
    ASSUME NEW m, NEW hold
    PROVE  LET h == [NewHistory EXCEPT !.hold = hold]
           IN HistoryOK(h) /\ WindowOK(PushBack(NewStream, m), h)
BY YamuxConstants DEF NewHistory, HistoryOK, WindowOK, NewStream, PushBack

LEMMA SameCountsUpdate ==
    ASSUME LogType, NEW id \in StreamIds, NEW h, log' = [log EXCEPT ![id] = h],
           SameCounts(log[id], h)
    PROVE  \A x \in StreamIds : SameCounts(log[x], log'[x])
BY DEF LogType, SameCounts

LEMMA SameWindowsUpdate ==
    ASSUME NEW id, NEW s, SameWindows(streams[id], s),
           streams' = [streams EXCEPT ![id] = s]
    PROVE  \A x \in DOMAIN streams' :
              x \in DOMAIN streams /\ SameWindows(streams[x], streams'[x])
BY DEF SameWindows, Receives

LEMMA SameStreams ==
    ASSUME UNCHANGED streams
    PROVE  \A x \in DOMAIN streams' :
              x \in DOMAIN streams /\ SameWindows(streams[x], streams'[x])
BY DEF SameWindows

LEMMA CallsKeepWindows ==
    ASSUME TypeOK, OwnIds, Windows, Calls
    PROVE  Windows'
<1>0. StreamsType /\ LogType
  BY DEF TypeOK, StreamsType, LogType
<1>1. CASE open_stream
  <2> DEFINE id == next_stream_id
             h == [NewHistory EXCEPT !.hold = "open"]
  <2>1. id \in StreamIds /\ id \notin DOMAIN streams
    BY <1>1, YamuxConstants DEF open_stream, OwnIds, TypeOK
  <2>2. streams' = Put(streams, id, PushBack(NewStream, Control("Open")))
    BY <1>1, <2>1 DEF open_stream
  <2>3. log' = [log EXCEPT ![id] = h]
    BY <1>1 DEF open_stream
  <2>4. OneStream(id) /\ streams'[id] = PushBack(NewStream, Control("Open")) /\ log'[id] = h
    BY <1>0, <2>1, <2>2, <2>3 DEF OneStream, Put, LogType
  <2>5. QED
    BY <2>1, <2>4, NewStreamWindows, OneStreamKeepsWindows
<1>2. CASE \E id \in StreamIds :
             \/ \E n \in SendSizes : send_data(id, n)
             \/ send_data_not_found(id) \/ close_stream(id)
             \/ close_stream_immediately(id) \/ reset_stream_immediately(id)
  <2>1. PICK id \in StreamIds :
             \/ \E n \in SendSizes : send_data(id, n)
             \/ send_data_not_found(id) \/ close_stream(id)
             \/ close_stream_immediately(id) \/ reset_stream_immediately(id)
    BY <1>2
  <2> DEFINE h == log[id]
             s == streams[id]
  <2>2. h \in History /\ (id \in DOMAIN streams => s \in StreamState)
    BY <1>0 DEF LogType, StreamsType
  <2>3. \A x \in StreamIds : SameCounts(log[x], log'[x])
    <3>1. \/ UNCHANGED log
          \/ \E n : log' = [log EXCEPT ![id] = [h EXCEPT !.accepted = n]]
          \/ log' = [log EXCEPT ![id] = [h EXCEPT !.hold = "closed"]]
          \/ log' = [log EXCEPT ![id] = [h EXCEPT !.hold = "closed", !.dropped = TRUE]]
          \/ log' = [log EXCEPT ![id] = [h EXCEPT !.hold = "none", !.dropped = TRUE]]
      BY <1>0, <2>1 DEF send_data, send_data_not_found, close_stream,
           close_stream_immediately, reset_stream_immediately, LogType
    <3>2. /\ \A n : SameCounts(h, [h EXCEPT !.accepted = n])
          /\ SameCounts(h, [h EXCEPT !.hold = "closed"])
          /\ SameCounts(h, [h EXCEPT !.hold = "closed", !.dropped = TRUE])
          /\ SameCounts(h, [h EXCEPT !.hold = "none", !.dropped = TRUE])
      <4> HIDE DEF h
      <4> QED  BY <2>2 DEF SameCounts, History
    <3>3. UNCHANGED log => \A x \in StreamIds : SameCounts(log[x], log'[x])
      BY DEF SameCounts
    <3> HIDE DEF h
    <3>4. QED
      BY <1>0, <3>1, <3>2, <3>3, SameCountsUpdate DEF h
  <2>4. \A x \in DOMAIN streams' :
           x \in DOMAIN streams /\ SameWindows(streams[x], streams'[x])
    <3>1. \/ UNCHANGED streams
          \/ id \in DOMAIN streams /\ \E n : streams' = [streams EXCEPT ![id] = Extended(s, n)]
          \/ id \in DOMAIN streams /\ streams' = [streams EXCEPT ![id] = PushBack(s, Control("Close"))]
          \/ id \in DOMAIN streams /\ streams' = [streams EXCEPT ![id] = AfterReset(s)]
          \/ /\ id \in DOMAIN streams
             /\ streams' = [streams EXCEPT ![id] = [s EXCEPT !.open_state = SetFinByUs(@),
                                                 !.outbound_buf = <<Control("Close")>>]]
      BY <2>1 DEF send_data, CanQueueData, send_data_not_found, close_stream,
           close_stream_immediately, reset_stream_immediately, ResetIn
    <3>2. id \in DOMAIN streams =>
             /\ \A n : SameWindows(s, Extended(s, n))
             /\ SameWindows(s, PushBack(s, Control("Close")))
             /\ SameWindows(s, AfterReset(s))
             /\ SameWindows(s, [s EXCEPT !.open_state = SetFinByUs(@),
                                       !.outbound_buf = <<Control("Close")>>])
      <4> HIDE DEF s
      <4> QED  BY <2>2 DEF SameWindows, Receives, Extended, PushBack, AfterReset, SetFinByUs,
                        StreamState
    <3> HIDE DEF s
    <3>3. QED
      BY <3>1, <3>2, SameWindowsUpdate, SameStreams DEF s
  <2>5. QED
    BY <2>3, <2>4, QuietStepKeepsWindows DEF QuietStep
<1>3. QED
  BY <1>1, <1>2 DEF Calls

LEMMA HandedCounts ==
    ASSUME NEW h \in History, NEW o, NEW buf,
           o.state \in {"OpenedByRemote", "Data", "ClosedByRemote"}
    PROVE  SameCounts(h, Handed(h, o, buf))
BY DEF Handed, SameCounts, History

LEMMA ReadDataKeepsWindows ==
    ASSUME TypeOK, Windows, NEW f \in PeerFrames, read_data(f)
    PROVE  Windows'
<1> DEFINE id == f.stream_id
           s0 == Lookup(f)
           s == [s0 EXCEPT !.recv_window = SaturatingSub(@, f.length)]
           h0 == LookupHistory(f)
           h == HistoryAfterData(f, s)
<1>1. StreamsType /\ LogType /\ ForStream(f)
  BY DEF TypeOK, StreamsType, LogType, read_data, ForStream
<1>2. id \in StreamIds /\ s0 \in StreamState /\ h0 \in History
  BY <1>1, ForStreamType
<1>3. f.length \in Nat
  BY PeerFrameType
<1>4. HistoryOK(h0) /\ WindowOK(s0, h0) /\ Receives(s0)
  <2>1. CASE IsOpenNewStream(f)
    BY <2>1, YamuxConstants DEF Lookup, LookupHistory, NewHistory, HistoryOK, WindowOK,
         Receives, NewStream, PushBack
  <2>2. CASE ~IsOpenNewStream(f)
    BY <1>2, <2>2 DEF Lookup, LookupHistory, Windows, read_data, NegotiateAccepts, Known, Receives
  <2>3. QED
    BY <2>1, <2>2
<1>5. s \in StreamState /\ h \in History
  BY <1>2, <1>3, ReceivedType, HistoryAfterDataType
<1>6. OneStream(id) /\ SameCounts(h, log'[id])
  <2>1. \E g : log' = [log EXCEPT ![id] = g] /\ SameCounts(h, g)
    <3> DEFINE g == CASE IsOpenNewStream(f) -> Handed(h, Opened(id), inbound_buf')
                      [] ~IsOpenNewStream(f) /\ f.length > 0 ->
                            Handed(h, DataOut(id, f.length), inbound_buf')
                      [] ~IsOpenNewStream(f) /\ f.length = 0 -> h
    <3>1. log' = [log EXCEPT ![id] = g]
      BY DEF read_data
    <3>2. SameCounts(h, g)
      <4>1. /\ Opened(id).state \in {"OpenedByRemote", "Data", "ClosedByRemote"}
            /\ DataOut(id, f.length).state \in {"OpenedByRemote", "Data", "ClosedByRemote"}
        BY DEF Opened, DataOut
      <4>2. SameCounts(h, h)
        BY DEF SameCounts
      <4> HIDE DEF h
      <4>3. QED
        BY <1>3, <1>5, <4>1, <4>2, HandedCounts
    <3>3. QED
      BY <3>1, <3>2
  <2>2. \A x \in DOMAIN streams' \ {id} : x \in DOMAIN streams /\ streams'[x] = streams[x]
    BY DEF read_data, StreamsAfterData, Closes, Put, Without
  <2> HIDE DEF id, h
  <2>3. QED
    BY <1>1, <1>2, <2>1, <2>2 DEF OneStream, LogType
<1>7. HistoryOK(h)
  BY <1>2, <1>4 DEF HistoryOK, HistoryAfterData, History
<1>8. ~h.overrun => ~h0.overrun /\ f.length <= s0.recv_window
  <2>1. h.overrun = (h0.overrun \/ f.length > s0.recv_window)
    BY <1>2 DEF HistoryAfterData, History
  <2>2. s0.recv_window \in Nat
    BY <1>2 DEF StreamState
  <2> HIDE DEF h, h0, s0
  <2>3. ~h.overrun => ~h0.overrun /\ ~(f.length > s0.recv_window)
    BY <2>1, ZenonT(40)
  <2>4. ~(f.length > s0.recv_window) => f.length <= s0.recv_window
    BY <1>3, <2>2
  <2>5. QED
    BY <2>3, <2>4, ZenonT(40)
<1>9. id \in DOMAIN streams' => WindowOK(streams'[id], h)
  <2>1. CASE Closes(f)
    <3>1. id \in DOMAIN streams' =>
             /\ streams'[id] = [s EXCEPT !.open_state = "FinByThem"]
      BY <2>1 DEF read_data, StreamsAfterData, Closes, Put, Without
    <3>2. ~Receives([s EXCEPT !.open_state = "FinByThem"])
          /\ [s EXCEPT !.open_state = "FinByThem"].send_window = s0.send_window
      BY <1>2 DEF Receives, StreamState
    <3>3. h.credit = h0.credit /\ h.sent = h0.sent
      BY <1>2 DEF HistoryAfterData, History
    <3> HIDE DEF h, s, s0, h0
    <3>4. QED
      BY <1>4, <3>1, <3>2, <3>3 DEF WindowOK
  <2>2. CASE ~Closes(f) /\ NeedsRefill(s)
    <3>1. streams'[id] = Refilled(s)
      BY <2>2 DEF read_data, StreamsAfterData, Closes, Put
    <3>2. /\ Refilled(s).send_window = s0.send_window
          /\ Refilled(s).recv_window = s.recv_window + RefillDelta(s)
      BY <1>2, <1>3 DEF Refilled, PushBack, StreamState
    <3>3. /\ h.credit = h0.credit /\ h.sent = h0.sent
          /\ h.granted = h0.granted + RefillDelta(s) /\ h.received = h0.received + f.length
      BY <1>2, <2>2 DEF HistoryAfterData, History
    <3>4. ~h.overrun => s.recv_window = s0.recv_window - f.length
      BY <1>2, <1>3, <1>8 DEF SaturatingSub, StreamState
    <3>5. s.recv_window \in Nat /\ s.recv_window + RefillDelta(s) >= MAX_FRAME_SIZE \div 2
      BY <1>5, YamuxConstants DEF RefillDelta, StreamState
    <3>6. RefillDelta(s) \in Int /\ s0.recv_window \in Nat
      BY SMTT(30), <1>2, <1>5, YamuxConstants DEF RefillDelta, StreamState
    <3>7. h0.granted \in Nat /\ h0.received \in Nat
      BY <1>2 DEF History
    <3> HIDE DEF h, s, s0, h0
    <3>8. QED
      BY <1>3, <1>4, <1>8, <3>1, <3>2, <3>3, <3>4, <3>5, <3>6, <3>7, YamuxConstants DEF WindowOK
  <2>3. CASE ~Closes(f) /\ ~NeedsRefill(s)
    <3>1. streams'[id] = s
      BY <2>3 DEF read_data, StreamsAfterData, Closes, Put
    <3>2. s.send_window = s0.send_window
      BY <1>2 DEF StreamState
    <3>3. /\ h.credit = h0.credit /\ h.sent = h0.sent
          /\ h.granted = h0.granted /\ h.received = h0.received + f.length
      BY <1>2, <2>3 DEF HistoryAfterData, History
    <3>4. ~h.overrun => s.recv_window = s0.recv_window - f.length
      BY <1>2, <1>3, <1>8 DEF SaturatingSub, StreamState
    <3>5. s.recv_window \in Nat /\ s.recv_window >= MAX_FRAME_SIZE \div 2
      BY <1>5, <2>3, YamuxConstants DEF NeedsRefill, StreamState
    <3>6. s0.recv_window \in Nat /\ h0.granted \in Nat /\ h0.received \in Nat
      BY <1>2 DEF StreamState, History
    <3> HIDE DEF h, s, s0, h0
    <3>7. QED
      BY <1>3, <1>4, <1>8, <3>1, <3>2, <3>3, <3>4, <3>5, <3>6, YamuxConstants DEF WindowOK
  <2>4. QED
    BY <2>1, <2>2, <2>3
<1>10. HistoryOK(log'[id]) /\ (id \in DOMAIN streams' => WindowOK(streams'[id], log'[id]))
  <2> HIDE DEF h, id
  <2> QED  BY <1>6, <1>7, <1>9 DEF SameCounts, HistoryOK, WindowOK
<1>11. QED
  BY <1>2, <1>6, <1>10, OneStreamKeepsWindows

LEMMA ReadUpdateKeepsWindows ==
    ASSUME TypeOK, Windows, NEW f \in PeerFrames, read_update(f)
    PROVE  Windows'
<1> DEFINE id == f.stream_id
           s0 == Lookup(f)
           s == [s0 EXCEPT !.send_window = @ + f.length]
           h0 == LookupHistory(f)
           h == [h0 EXCEPT !.credit = @ + f.length, !.fin = @ \/ Closes(f)]
           t == [s EXCEPT !.open_state = SetFinByThem(@)]
<1>1. StreamsType /\ LogType /\ ForStream(f)
  BY DEF TypeOK, StreamsType, LogType, read_update, ForStream
<1>2. id \in StreamIds /\ s0 \in StreamState /\ h0 \in History
  BY <1>1, ForStreamType
<1>3. f.length \in Nat
  BY PeerFrameType
<1>4. HistoryOK(h0) /\ WindowOK(s0, h0)
  <2>1. CASE IsOpenNewStream(f)
    BY <2>1, YamuxConstants DEF Lookup, LookupHistory, NewHistory, HistoryOK, WindowOK,
         NewStream, PushBack
  <2>2. CASE ~IsOpenNewStream(f)
    BY SMTT(30), <1>2, <2>2 DEF Lookup, LookupHistory, Windows, read_update, NegotiateAccepts, Known
  <2>3. QED
    BY <2>1, <2>2
<1>5. h \in History
  <2>1. Closes(f) \in BOOLEAN
    BY DEF Closes
  <2>2. QED
    BY <1>2, <1>3, <2>1, CreditType
<1>6. OneStream(id) /\ SameCounts(h, log'[id])
  <2> DEFINE g == CASE IsOpenNewStream(f) -> Handed(h, Opened(id), inbound_buf)
                    [] Closes(f)          -> Handed(h, Closed(id), inbound_buf)
                    [] OTHER              -> h
  <2>1. log' = [log EXCEPT ![id] = g]
    BY DEF read_update
  <2>2. SameCounts(h, g)
    <3>1. /\ Opened(id).state \in {"OpenedByRemote", "Data", "ClosedByRemote"}
          /\ Closed(id).state \in {"OpenedByRemote", "Data", "ClosedByRemote"}
      BY DEF Opened, Closed
    <3>2. SameCounts(h, h)
      BY DEF SameCounts
    <3> HIDE DEF h
    <3>3. QED
      BY <1>5, <3>1, <3>2, HandedCounts
  <2>3. \A x \in DOMAIN streams' \ {id} : x \in DOMAIN streams /\ streams'[x] = streams[x]
    BY DEF read_update, StreamsAfterUpdate, Closes, Put, Without
  <2> HIDE DEF id, h, g
  <2>4. QED
    BY <1>1, <1>2, <2>1, <2>2, <2>3 DEF OneStream, LogType
<1>7. /\ h.sent = h0.sent /\ h.credit = h0.credit + f.length /\ h.granted = h0.granted
      /\ h.received = h0.received /\ h.overrun = h0.overrun
  BY <1>2 DEF History
<1>8. /\ s.send_window = s0.send_window + f.length /\ s.recv_window = s0.recv_window
      /\ s.open_state = s0.open_state
      /\ t.send_window = s0.send_window + f.length /\ t.recv_window = s0.recv_window
      /\ Receives(t) => Receives(s0)
  BY <1>2 DEF StreamState, Receives, SetFinByThem
<1>9. id \in DOMAIN streams' => streams'[id] = s \/ streams'[id] = t
  BY DEF read_update, StreamsAfterUpdate, Closes, Put, Without
<1>10. h0.sent \in Nat /\ h0.credit \in Nat
  BY <1>2 DEF History
<1>11. HistoryOK(h) /\ WindowOK(s, h) /\ WindowOK(t, h)
  <2> HIDE DEF h, h0, s, s0, t
  <2> QED  BY <1>3, <1>4, <1>7, <1>8, <1>10, YamuxConstants DEF HistoryOK, WindowOK, Receives
<1>12. HistoryOK(log'[id]) /\ (id \in DOMAIN streams' => WindowOK(streams'[id], log'[id]))
  <2> HIDE DEF h, id, s, t
  <2> QED  BY <1>6, <1>9, <1>11 DEF SameCounts, HistoryOK, WindowOK
<1>13. QED
  BY <1>2, <1>6, <1>12, OneStreamKeepsWindows

\* The other reads move no window.
LEMMA QuietReads ==
    ASSUME TypeOK,
           \/ take_output_buf \/ read_error
           \/ \E f \in PeerFrames : ReadFrame(f) /\ ~read_data(f) /\ ~read_update(f)
    PROVE  QuietStep
<1>0. StreamsType /\ LogType
  BY DEF TypeOK, StreamsType, LogType
<1>1. ASSUME UNCHANGED log
      PROVE  \A x \in StreamIds : SameCounts(log[x], log'[x])
  BY <1>1 DEF SameCounts
<1>2. CASE take_output_buf
  <2> DEFINE o == Head(output_buf)
             h == Handed(log[o.stream_id], o, inbound_buf)
  <2>1. o \in Output
    BY <1>2 DEF TypeOK, take_output_buf
  <2>2. /\ o.stream_id \in StreamIds
        /\ o.state \in {"OpenedByRemote", "Data", "ClosedByRemote"}
    BY <2>1 DEF Output
  <2>3. log' = [log EXCEPT ![o.stream_id] = h]
    BY <1>2 DEF take_output_buf
  <2>4. SameCounts(log[o.stream_id], h)
    <3> HIDE DEF o
    <3> QED  BY <1>0, <2>2, HandedCounts DEF LogType
  <2>5. UNCHANGED streams
    BY <1>2 DEF take_output_buf
  <2> HIDE DEF o, h
  <2>6. QED
    BY <1>0, <2>2, <2>3, <2>4, <2>5, SameCountsUpdate, SameStreams DEF QuietStep
<1>3. CASE read_error
  BY <1>1, <1>3, SameStreams DEF read_error, Finish, QuietStep
<1>4. ASSUME NEW f \in PeerFrames, ReadFrame(f), ~read_data(f), ~read_update(f),
             ~read_session_frame_on_stream(f)
      PROVE  QuietStep
  <2>1. UNCHANGED streams /\ UNCHANGED log
    BY <1>4 DEF ReadFrame, read_data_too_large, read_data_negotiate_fails, read_data_refuse,
         read_data_ignore, read_data_after_fin, read_update_negotiate_fails, read_update_refuse,
         read_update_ignore, read_ping, read_go_away, Refuse, Ignore, Finish
  <2>2. QED
    BY SMTT(30), <1>1, <2>1, SameStreams DEF QuietStep
<1>5. ASSUME NEW f \in PeerFrames, read_session_frame_on_stream(f)
      PROVE  QuietStep
  <2> DEFINE id == f.stream_id
             h == [log[id] EXCEPT !.dropped = @ \/ id \in DOMAIN streams]
  <2>1. id \in StreamIds
    BY <1>5, PeerFrameType DEF read_session_frame_on_stream
  <2>2. log' = [log EXCEPT ![id] = h]
    BY <1>5 DEF read_session_frame_on_stream
  <2>3. SameCounts(log[id], h)
    BY <1>0, <2>1 DEF SameCounts, LogType, History
  <2>4. id \in DOMAIN streams => SameWindows(streams[id], AfterReset(streams[id]))
    BY <1>0 DEF SameWindows, Receives, AfterReset, StreamsType, StreamState
  <2>5. \/ UNCHANGED streams
        \/ id \in DOMAIN streams /\ streams' = [streams EXCEPT ![id] = AfterReset(streams[id])]
    BY <1>5 DEF read_session_frame_on_stream, ResetIn
  <2> HIDE DEF id, h
  <2>6. \A x \in StreamIds : SameCounts(log[x], log'[x])
    BY <1>0, <2>1, <2>2, <2>3, SameCountsUpdate
  <2>7. QED
    BY <2>4, <2>5, <2>6, SameWindowsUpdate, SameStreams DEF QuietStep
<1>6. QED
  BY <1>2, <1>3, <1>4, <1>5

LEMMA WritesKeepWindows ==
    ASSUME TypeOK, Windows, Writes \/ write_error
    PROVE  Windows'
<1>0. /\ LogType
      /\ \A id \in DOMAIN streams : streams[id] \in StreamState /\ RoundOK(streams[id])
  BY RoundFacts DEF TypeOK, LogType
<1>1. \A id \in DOMAIN streams :
         Receives(AfterRound(streams[id])) => Receives(streams[id])
  BY <1>0 DEF RoundOK, Receives, SetFinByUs, StreamState
<1>2. CASE write_round
  <2> SUFFICES ASSUME NEW id \in StreamIds
               PROVE  /\ HistoryOK(log'[id])
                      /\ id \in DOMAIN streams' => WindowOK(streams'[id], log'[id])
    BY DEF Windows
  <2> DEFINE s == streams[id]
             h == log[id]
             n == DataLen(RoundWrites(s))
  <2>1. h \in History /\ HistoryOK(h)
    BY <1>0 DEF LogType, Windows
  <2>2. CASE id \in DOMAIN streams
    <3>1. streams'[id] = AfterRound(s)
      BY <1>2, <2>2 DEF write_round
    <3>2. log'[id] = [h EXCEPT !.wire = @ \o RoundWrites(s), !.sent = @ + n]
      BY <1>2, <2>2 DEF write_round
    <3>3. /\ log'[id].sent = h.sent + n /\ log'[id].credit = h.credit
          /\ log'[id].granted = h.granted /\ log'[id].received = h.received
          /\ log'[id].overrun = h.overrun
      BY <2>1, <3>2 DEF History
    <3>4. /\ n \in Nat /\ AfterRound(s).send_window + n = s.send_window
          /\ AfterRound(s).recv_window = s.recv_window
          /\ AfterRound(s).send_window \in Nat
          /\ Receives(AfterRound(s)) => Receives(s)
      BY <1>0, <1>1, <2>2 DEF RoundOK, StreamState
    <3>5. WindowOK(s, h)
      BY <2>2 DEF Windows
    <3>6. h.sent \in Nat /\ h.credit \in Nat
      BY SMTT(30), <2>1 DEF History
    <3> HIDE DEF s, h, n
    <3>7. QED
      BY SMTT(30), <2>1, <3>1, <3>3, <3>4, <3>5, <3>6, YamuxConstants DEF HistoryOK, WindowOK
  <2>3. CASE id \notin DOMAIN streams
    BY <1>2, <2>1, <2>3 DEF write_round
  <2>4. QED
    BY <2>2, <2>3
<1>3. CASE write_pass_end
  <2>1. \A id \in DOMAIN streams : SameWindows(streams[id], AfterRound(streams[id]))
    <3> SUFFICES ASSUME NEW id \in DOMAIN streams
                 PROVE  SameWindows(streams[id], AfterRound(streams[id]))
      OBVIOUS
    <3>1. RoundWrites(streams[id]) = <<>>
      BY <1>3 DEF write_pass_end, WritesSomething
    <3>2. DataLen(RoundWrites(streams[id])) = 0
      BY <3>1 DEF DataLen
    <3>3. QED
      BY <1>0, <1>1, <3>2 DEF RoundOK, SameWindows, StreamState
  <2>2. \A x \in DOMAIN streams' :
           x \in DOMAIN streams /\ SameWindows(streams[x], streams'[x])
    BY <1>3, <2>1 DEF write_pass_end, Without
  <2>3. \A x \in StreamIds : SameCounts(log[x], log'[x])
    BY <1>3 DEF write_pass_end, SameCounts
  <2>4. QED
    BY SMTT(30), <2>2, <2>3, QuietStepKeepsWindows DEF QuietStep
<1>4. CASE write_begin \/ write_global_done \/ write_bulk_done \/ write_error
  <2>1. UNCHANGED streams /\ UNCHANGED log
    BY <1>4 DEF write_begin, write_global_done, write_bulk_done, write_error, shared
  <2>2. QED
    BY <2>1 DEF Windows, HistoryOK, WindowOK, Receives
<1>5. QED
  BY <1>2, <1>3, <1>4 DEF Writes

LEMMA WindowsInvariant == Spec => []Windows
<1>1. Init => Windows
  BY YamuxConstants DEF Init, Windows, HistoryOK, NewHistory
<1>2. TypeOK /\ OwnIds /\ Windows /\ [Next]_vars => Windows'
  <2> SUFFICES ASSUME TypeOK, OwnIds, Windows, [Next]_vars
               PROVE  Windows'
    OBVIOUS
  <2>1. CASE UNCHANGED vars
    BY <2>1 DEF vars, shared, Windows, HistoryOK, WindowOK, Receives
  <2>2. CASE Calls
    BY <2>2, CallsKeepWindows
  <2>3. CASE Reads
    BY <2>3, ReadDataKeepsWindows, ReadUpdateKeepsWindows, QuietReads, QuietStepKeepsWindows
       DEF Reads
  <2>4. CASE Writes \/ write_error
    BY <2>4, WritesKeepWindows
  <2>5. QED
    BY <2>1, <2>2, <2>3, <2>4 DEF Next
<1>3. QED
  BY <1>1, <1>2, TypeCorrect, OwnIdsInvariant, PTL DEF Spec

\* Flow control towards the remote: for all windows, sizes and streams, what
\* write_next has written on a stream stays within the initial window plus the
\* window updates received, and send_window is what is left of it.
THEOREM SendWindowTheorem == Spec => []SendWindowRespected
<1>1. Windows => SendWindowRespected
  BY DEF Windows, HistoryOK, WindowOK, SendWindowRespected
<1>2. QED
  BY <1>1, WindowsInvariant, PTL

\* Flow control towards us: on a stream that still receives, recv_window is
\* what the remote has been granted and has not used, and read_next never lets
\* it stay below half of MAX_FRAME_SIZE.
THEOREM RecvWindowTheorem == Spec => []RecvWindowKept
<1>1. TypeOK /\ Windows => RecvWindowKept
  BY DEF Windows, WindowOK, Receives, RecvWindowKept, TypeOK
<1>2. QED
  BY <1>1, TypeCorrect, WindowsInvariant, PTL

-----------------------------------------------------------------------------

(* No lost wake-up.  ParkedMeansDrained is not inductive: it says nothing of *)
(* the states between the end of a pass and the park, in which a request to  *)
(* write may come in.                                                        *)

Drained(s) == ~Pending(s) \/ Stuck(s)

DrainInv ==
    /\ writer # "New" /\ ~has_pending_writes => write_buf = <<>>
    /\ writer \in {"Bulk", "Park"} /\ ~has_pending_writes =>
          \A id \in DOMAIN streams : Drained(streams[id])
    /\ pending_write_waker => writer = "Park" /\ ~has_pending_writes

LEMMA FlushKeepsDrain ==
    ASSUME FlushWrites
    PROVE  DrainInv'
BY DEF FlushWrites, DrainInv

\* A step that asks for no write leaves every queue and send window alone.
QueuesKept ==
    \A id \in DOMAIN streams' :
        /\ id \in DOMAIN streams
        /\ streams'[id].outbound_buf = streams[id].outbound_buf
        /\ streams'[id].send_window = streams[id].send_window

LEMMA QueuesKeptKeepsDrain ==
    ASSUME DrainInv, QueuesKept, UNCHANGED <<writer, write_buf>>, KeepWriteFlags
    PROVE  DrainInv'
BY DEF DrainInv, QueuesKept, KeepWriteFlags, Drained, Pending, Stuck

LEMMA CallsKeepDrain ==
    ASSUME DrainInv, Calls
    PROVE  DrainInv'
<1>1. FlushWrites \/ (KeepWriteFlags /\ UNCHANGED streams)
  BY DEF Calls, open_stream, send_data, send_data_not_found, close_stream,
       close_stream_immediately, reset_stream_immediately, ResetIn
<1>2. UNCHANGED <<writer, write_buf>>
  BY DEF Calls, open_stream, send_data, send_data_not_found, close_stream,
       close_stream_immediately, reset_stream_immediately, Call, pass
<1>3. QED
  BY SMTT(30), <1>1, <1>2, FlushKeepsDrain, QueuesKeptKeepsDrain DEF QueuesKept

LEMMA ReadsKeepDrain ==
    ASSUME TypeOK, DrainInv, Reads
    PROVE  DrainInv'
<1>1. CASE take_output_buf \/ read_error
  BY <1>1, QueuesKeptKeepsDrain DEF take_output_buf, read_error, Finish, ReadHeader, Reading,
       pass, QueuesKept
<1>2. ASSUME NEW f \in PeerFrames, read_data(f), ~FlushWrites
      PROVE  DrainInv'
  <2> DEFINE id == f.stream_id
             s == [streams[id] EXCEPT !.recv_window = SaturatingSub(@, f.length)]
  <2>1. KeepWriteFlags /\ ~IsOpenNewStream(f) /\ (~Closes(f) => ~NeedsRefill(s))
    BY <1>2 DEF read_data, Lookup
  <2>2. Known(f) /\ streams' = StreamsAfterData(f, s)
    BY <1>2, <2>1 DEF read_data, Lookup, NegotiateAccepts
  <2>3. id \in DOMAIN streams /\ streams[id] \in StreamState
    BY <2>2 DEF Known, TypeOK
  <2>4. \A x \in DOMAIN streams' :
           /\ x \in DOMAIN streams
           /\ x # id => streams'[x] = streams[x]
           /\ x = id => streams'[x] \in {s, [s EXCEPT !.open_state = "FinByThem"]}
    BY <2>1, <2>2, <2>3 DEF StreamsAfterData, Closes, Put, Without
  <2>5. \A t \in {s, [s EXCEPT !.open_state = "FinByThem"]} :
           t.outbound_buf = streams[id].outbound_buf /\ t.send_window = streams[id].send_window
    BY <2>3 DEF StreamState
  <2>6. UNCHANGED <<writer, write_buf>>
    BY <1>2 DEF read_data, ReadBody, ReadHeader, Reading, pass
  <2> HIDE DEF s, id
  <2>7. QueuesKept
    BY <2>4, <2>5 DEF QueuesKept
  <2>8. QED
    BY <2>1, <2>6, <2>7, QueuesKeptKeepsDrain
<1>3. ASSUME NEW f \in PeerFrames, ReadFrame(f), ~read_data(f), ~FlushWrites
      PROVE  DrainInv'
  <2>1. /\ UNCHANGED streams /\ KeepWriteFlags
        /\ UNCHANGED <<writer, write_buf>>
    BY <1>3 DEF ReadFrame, read_data_too_large, read_data_negotiate_fails, read_data_refuse,
         read_data_ignore, read_data_after_fin, read_update_negotiate_fails, read_update_refuse,
         read_update_ignore, read_update, read_session_frame_on_stream, read_ping,
         read_go_away, ReadBody, ReadUpdate, ReadHeader, Reading, pass, Refuse,
         WriteGlobally, Ignore, Finish, ResetIn
  <2>2. QED
    BY <2>1, QueuesKeptKeepsDrain DEF QueuesKept
<1>4. QED
  BY <1>1, <1>2, <1>3, FlushKeepsDrain DEF Reads

LEMMA WritesKeepDrain ==
    ASSUME TypeOK, DrainInv, Writes \/ write_error
    PROVE  DrainInv'
<1>1. CASE write_begin
  BY <1>1 DEF write_begin, Awake, DrainInv
<1>2. CASE write_global_done
  BY SMTT(30), <1>2 DEF write_global_done, shared, DrainInv
<1>3. CASE write_round
  BY <1>3 DEF write_round, DrainInv
<1>4. CASE write_pass_end
  <2>1. \A id \in DOMAIN streams : Drained(AfterRound(streams[id]))
    BY <1>4, RoundFacts DEF write_pass_end, WritesSomething, RoundOK, Drained, TypeOK
  <2>2. \A id \in DOMAIN streams' : Drained(streams'[id])
    BY <1>4, <2>1 DEF write_pass_end, Without
  <2>3. ~has_pending_writes' => write_buf' = <<>>
    BY <1>4 DEF write_pass_end, DrainInv
  <2>4. pending_write_waker' => writer' = "Park" /\ ~has_pending_writes'
    BY <1>4 DEF write_pass_end, Park, DrainInv
  <2>5. QED
    BY <2>2, <2>3, <2>4 DEF DrainInv, Drained
<1>5. CASE write_bulk_done
  BY <1>5 DEF write_bulk_done, Park, DrainInv, Drained
<1>6. CASE write_error
  BY <1>6 DEF write_error, shared, pass, DrainInv, Drained
<1>7. QED
  BY <1>1, <1>2, <1>3, <1>4, <1>5, <1>6 DEF Writes

\* No lost wake-up: whenever write_next waits without a pending request to
\* write, write_buf is empty and every queue is empty or waits for a window
\* update; and flush_writes never leaves a stored waker behind.
THEOREM NoLostWakeup == Spec => []ParkedMeansDrained
<1>1. Init => DrainInv
  BY DEF Init, DrainInv
<1>2. TypeOK /\ DrainInv /\ [Next]_vars => DrainInv'
  <2> SUFFICES ASSUME TypeOK, DrainInv, [Next]_vars
               PROVE  DrainInv'
    OBVIOUS
  <2>1. CASE UNCHANGED vars
    BY <2>1 DEF vars, shared, pass, DrainInv, Drained
  <2>2. QED
    BY <2>1, CallsKeepDrain, ReadsKeepDrain, WritesKeepDrain DEF Next
<1>3. DrainInv => ParkedMeansDrained
  BY DEF DrainInv, Drained, ParkedMeansDrained
<1>4. QED
  BY <1>1, <1>2, <1>3, TypeCorrect, PTL DEF Spec

-----------------------------------------------------------------------------

(* Session frames: pongs and refusals. *)

LEMMA AppendedToSecond ==
    ASSUME NEW S, NEW w \in Seq(S), NEW b \in Seq(S), NEW g
    PROVE  w \o Append(b, g) = Append(w \o b, g)
OBVIOUS

LEMMA ReadsAndSessionFrames ==
    ASSUME Reads
    PROVE  /\ UNCHANGED written
           /\ UNCHANGED <<write_buf, owed>> \/ \E g : WriteGlobally(g)
<1>1. CASE take_output_buf \/ read_error
  BY <1>1 DEF take_output_buf, read_error, Finish, ReadHeader, Reading
<1>2. ASSUME NEW f \in PeerFrames, ReadFrame(f)
      PROVE  /\ UNCHANGED written
             /\ UNCHANGED <<write_buf, owed>> \/ \E g : WriteGlobally(g)
  <2>1. UNCHANGED written
    BY SMTT(30), <1>2 DEF ReadFrame, read_data_too_large, read_data_negotiate_fails, read_data_refuse,
         read_data_ignore, read_data_after_fin, read_data, read_update_negotiate_fails,
         read_update_refuse, read_update_ignore, read_update, read_session_frame_on_stream,
         read_ping, read_go_away, ReadBody, ReadUpdate, ReadHeader, Reading
  <2>2. CASE read_data_refuse(f) \/ read_update_refuse(f) \/ read_ping(f)
    BY <2>1, <2>2 DEF read_data_refuse, read_update_refuse, read_ping, Refuse
  <2>3. CASE ~(read_data_refuse(f) \/ read_update_refuse(f) \/ read_ping(f))
    BY <1>2, <2>1, <2>3 DEF ReadFrame, read_data_too_large, read_data_negotiate_fails, read_data_ignore,
         read_data_after_fin, read_data, read_update_negotiate_fails, read_update_ignore,
         read_update, read_session_frame_on_stream, read_go_away, Ignore, Finish
  <2>4. QED
    BY <2>2, <2>3
<1>3. QED
  BY <1>1, <1>2 DEF Reads

\* The pongs and refusals put in write_buf are written once each, in order,
\* also those that arrive while write_next writes the ones before them.
THEOREM GlobalFramesTheorem == Spec => []GlobalFramesKept
<1>1. Init => GlobalFramesKept
  BY DEF Init, GlobalFramesKept
<1>2. TypeOK /\ GlobalFramesKept /\ [Next]_vars => GlobalFramesKept'
  <2> SUFFICES ASSUME TypeOK, GlobalFramesKept, [Next]_vars
               PROVE  GlobalFramesKept'
    OBVIOUS
  <2>1. CASE UNCHANGED vars \/ Calls \/ write_error
    BY <2>1 DEF vars, shared, Calls, open_stream, send_data, send_data_not_found, close_stream,
         close_stream_immediately, reset_stream_immediately, Call, write_error, GlobalFramesKept
  <2>2. CASE Reads
    <3>1. written \in Seq(GlobalFrame) /\ write_buf \in Seq(GlobalFrame)
      BY DEF TypeOK
    <3>2. ASSUME NEW g, WriteGlobally(g), UNCHANGED written
          PROVE  GlobalFramesKept'
      <4>1. write_buf' = Append(write_buf, g) /\ owed' = Append(owed, g)
        BY <3>2 DEF WriteGlobally
      <4>2. written \o Append(write_buf, g) = Append(written \o write_buf, g)
        BY <3>1, AppendedToSecond
      <4>3. QED
        BY <3>2, <4>1, <4>2 DEF GlobalFramesKept
    <3>3. QED
      BY <2>2, <3>2, ReadsAndSessionFrames DEF GlobalFramesKept
  <2>3. CASE Writes
    <3>1. CASE write_begin
      <4>1. written \o write_buf \in Seq(GlobalFrame)
        BY DEF TypeOK
      <4>2. (written \o write_buf) \o <<>> = written \o write_buf
        BY <4>1
      <4>3. QED
        BY <3>1, <4>2 DEF write_begin, GlobalFramesKept
    <3>2. CASE write_global_done \/ write_round \/ write_pass_end \/ write_bulk_done
      BY <3>2 DEF write_global_done, write_round, write_pass_end, write_bulk_done, shared,
           GlobalFramesKept
    <3>3. QED
      BY <2>3, <3>1, <3>2 DEF Writes
  <2>4. QED
    BY <2>1, <2>2, <2>3 DEF Next
<1>3. QED
  BY <1>1, <1>2, TypeCorrect, PTL DEF Spec

-----------------------------------------------------------------------------

(* What the layer above is handed.  An output that is kept for the next turn *)
(* is the data of a stream the remote has just opened, or the close of a     *)
(* stream that receives no more.                                             *)

KeptOutput ==
    \/ output_buf = <<>>
    \/ \E id \in StreamIds, n \in 1..MAX_FRAME_SIZE :
          /\ output_buf = <<DataOut(id, n)>>
          /\ id % 2 = 0
          /\ log[id].hold # "none"
    \/ \E id \in StreamIds :
          /\ output_buf = <<Closed(id)>>
          /\ id % 2 = 1 => id < next_stream_id
          /\ id \in DOMAIN streams => ~Receives(streams[id])

\* Nothing in queue q ends the stream.
NoEnd(q) == \A k \in DOMAIN q : q[k].kind \notin {"Close", "Reset"}

\* Data can be queued on stream id, and will not be dropped by the pass.
Usable(id) ==
    /\ streams[id].open_state \in {"Open", "FinByThem"}
    /\ NoEnd(streams[id].outbound_buf)
    /\ id \notin streams_to_remove

\* The session has reset stream id, and leaves it only in order to remove it.
BeingReset(id) ==
    /\ streams[id].open_state = "Reset"
    /\ \/ streams[id].outbound_buf = <<Control("Reset")>>
       \/ streams[id].outbound_buf = <<>> /\ id \in streams_to_remove

HeldAt(id) ==
    /\ log[id].hold = "open" => Usable(id) \/ BeingReset(id)
    /\ Receives(streams[id]) => log[id].hold # "none"

ServiceInv ==
    /\ writer # "Pass" => streams_to_remove = {}
    /\ KeptOutput
    /\ \A id \in DOMAIN streams : HeldAt(id)

\* Only stream id and its history change.
Touches(id) ==
    /\ \A x \in StreamIds \ {id} :
          /\ x \in DOMAIN streams' <=> x \in DOMAIN streams
          /\ x \in DOMAIN streams => streams'[x] = streams[x]
    /\ \A x \in StreamIds \ {id} : log'[x] = log[x]

LEMMA TouchesOne ==
    ASSUME StreamsType, LogType, NEW id \in StreamIds, NEW h, log' = [log EXCEPT ![id] = h],
           \/ UNCHANGED streams
           \/ \E s : streams' = [streams EXCEPT ![id] = s]
           \/ \E s : streams' = Put(streams, id, s)
           \/ streams' = Without(streams, {id})
    PROVE  Touches(id) /\ log'[id] = h
<1>1. log'[id] = h /\ \A x \in StreamIds \ {id} : log'[x] = log[x]
  BY DEF LogType
<1>2. CASE UNCHANGED streams
  BY <1>1, <1>2 DEF Touches
<1>3. CASE \E s : streams' = [streams EXCEPT ![id] = s]
  BY <1>1, <1>3 DEF Touches
<1>4. CASE \E s : streams' = Put(streams, id, s)
  BY <1>1, <1>4 DEF Touches, Put
<1>5. CASE streams' = Without(streams, {id})
  BY <1>1, <1>5 DEF Touches, Without
<1>6. QED
  BY <1>2, <1>3, <1>4, <1>5

\* What a step that touches one stream has to show for it.
LEMMA TouchesKeepsHeld ==
    ASSUME StreamsType', ServiceInv, NEW id \in StreamIds, Touches(id),
           UNCHANGED streams_to_remove, id \in DOMAIN streams' => HeldAt(id)'
    PROVE  \A x \in DOMAIN streams' : HeldAt(x)'
<1> SUFFICES ASSUME NEW x \in DOMAIN streams', x # id
             PROVE  HeldAt(x)'
  OBVIOUS
<1>1. x \in StreamIds
  BY DEF StreamsType
<1>2. x \in DOMAIN streams /\ streams'[x] = streams[x] /\ log'[x] = log[x]
  BY <1>1 DEF Touches
<1>3. HeldAt(x)
  BY <1>2 DEF ServiceInv
<1>4. QED
  BY <1>2, <1>3 DEF HeldAt, Usable, BeingReset, Receives, NoEnd

\* The effects of a Data or WindowUpdate frame that opens a stream.
OpensStream(id, received) ==
    /\ Touches(id)
    /\ id \in StreamIds /\ id \notin DOMAIN streams /\ id % 2 = 0
    /\ id \in DOMAIN streams' /\ streams'[id].open_state = "Open"
    /\ NoEnd(streams'[id].outbound_buf)
    /\ log'[id].hold = "open" /\ ~log'[id].fin
    /\ log'[id].received = received /\ log'[id].delivered = <<>>

LEMMA AcceptFacts ==
    ASSUME NEW f \in PeerFrames, NegotiateAccepts(f)
    PROVE  /\ f.stream_id \in StreamIds /\ f.stream_id \notin DOMAIN streams
           /\ f.stream_id % 2 = 0 /\ IsOpenNewStream(f) /\ ~Closes(f)
           /\ "Rst" \notin f.flags /\ "Fin" \notin f.flags
<1>1. IsOpenNewStream(f) /\ f.stream_id \notin DOMAIN streams /\ ~InvalidStreamId(f.stream_id)
  BY DEF NegotiateAccepts
<1>2. f.stream_id \in StreamIds
  BY <1>1, PeerFrameType DEF InvalidStreamId
<1>3. f.stream_id % 2 = 0
  <2>1. f.stream_id \in Nat /\ f.stream_id % 2 # 1
    BY <1>1, <1>2, YamuxConstants DEF InvalidStreamId
  <2>2. QED
    BY <2>1
<1>4. "Rst" \notin f.flags /\ "Fin" \notin f.flags
  <2>1. f.flags \cap FrameFlags = {"Syn"} /\ {"Rst", "Fin"} \subseteq FrameFlags
    BY <1>1 DEF IsOpenNewStream, FrameFlags
  <2>2. QED
    BY <2>1
<1>5. QED
  BY <1>1, <1>2, <1>3, <1>4 DEF Closes

LEMMA AcceptQueue ==
    ASSUME NEW s, s = PushBack(NewStream, Control("Accept"))
    PROVE  /\ s.open_state = "Open" /\ NoEnd(s.outbound_buf)
           /\ s.outbound_buf = <<Control("Accept")>>
BY DEF PushBack, NewStream, Control, NoEnd

LEMMA NoEndUpdate ==
    ASSUME NEW q \in Seq(BufferedOutboundMessage), NoEnd(q), NEW d
    PROVE  NoEnd(Append(q, UpdateMessage(d)))
BY DEF NoEnd, UpdateMessage

LEMMA RefilledFacts ==
    ASSUME NEW s \in StreamState, NEW t, t = Refilled(s)
    PROVE  /\ t.open_state = s.open_state
           /\ t.outbound_buf = Append(s.outbound_buf, UpdateMessage(RefillDelta(s)))
BY DEF Refilled, PushBack, StreamState

LEMMA ReadDataOpens ==
    ASSUME TypeOK, NEW f \in PeerFrames, read_data(f), NegotiateAccepts(f)
    PROVE  OpensStream(f.stream_id, f.length)
<1> DEFINE id == f.stream_id
           s0 == PushBack(NewStream, Control("Accept"))
           s == [s0 EXCEPT !.recv_window = SaturatingSub(@, f.length)]
           h == HistoryAfterData(f, s)
           g == Handed(h, Opened(id), inbound_buf')
<1>1. /\ id \in StreamIds /\ id \notin DOMAIN streams /\ id % 2 = 0
      /\ IsOpenNewStream(f) /\ ~Closes(f) /\ "Rst" \notin f.flags /\ "Fin" \notin f.flags
  BY AcceptFacts
<1>2. StreamsType /\ LogType /\ f.length \in Nat
  BY PeerFrameType DEF TypeOK, StreamsType, LogType
<1>3. s0 \in StreamState /\ s0.open_state = "Open" /\ NoEnd(s0.outbound_buf)
  BY NewStreamType, ControlType, PushBackType, AcceptQueue DEF Kinds
<1>4. s \in StreamState /\ s.open_state = "Open" /\ s.outbound_buf = s0.outbound_buf
  <2> HIDE DEF s0
  <2>1. SaturatingSub(s0.recv_window, f.length) \in Nat
    BY <1>2, <1>3 DEF SaturatingSub, StreamState
  <2>2. QED
    BY <1>3, <2>1 DEF StreamState
<1>5. streams' = StreamsAfterData(f, s) /\ log' = [log EXCEPT ![id] = g]
  BY <1>1 DEF read_data, Lookup
<1>6. \E t : /\ streams' = Put(streams, id, t) /\ t.open_state = "Open" /\ NoEnd(t.outbound_buf)
  <2> HIDE DEF s, s0, id
  <2>1. streams' = Put(streams, id, s) \/ streams' = Put(streams, id, Refilled(s))
    BY <1>1, <1>5 DEF StreamsAfterData, id
  <2>2. Refilled(s).open_state = "Open" /\ NoEnd(Refilled(s).outbound_buf)
    <3>1. PICK t : t = Refilled(s)
      OBVIOUS
    <3>2. s.outbound_buf \in Seq(BufferedOutboundMessage)
      BY <1>4 DEF StreamState
    <3>3. NoEnd(Append(s.outbound_buf, UpdateMessage(RefillDelta(s))))
      BY <1>3, <1>4, <3>2, NoEndUpdate
    <3>4. QED
      BY <1>4, <3>1, <3>3, RefilledFacts
  <2>3. QED
    BY <1>3, <1>4, <2>1, <2>2
<1>7. g.hold = "open" /\ ~g.fin /\ g.received = f.length /\ g.delivered = <<>>
  <2>1. LookupHistory(f) = NewHistory
    BY <1>1 DEF LookupHistory
  <2>2. /\ h.received = f.length /\ h.fin = FALSE /\ h.delivered = <<>>
        /\ h.hold = "none" /\ DOMAIN h = DOMAIN NewHistory
    <3>1. PICK r, o, d, e :
             /\ h = [NewHistory EXCEPT !.received = r, !.overrun = o, !.granted = d, !.fin = e]
             /\ r = f.length /\ e = FALSE
      <4> HIDE DEF s
      <4>1. NewHistory.received + f.length = f.length /\ (NewHistory.fin \/ Closes(f)) = FALSE
        BY <1>1, <1>2 DEF NewHistory
      <4>2. QED
        BY <1>2, <2>1, <4>1 DEF HistoryAfterData
    <3> HIDE DEF h
    <3>2. QED
      BY <3>1 DEF NewHistory
  <2>3. g = [h EXCEPT !.hold = "open"]
    BY DEF Handed, Opened
  <2> HIDE DEF h
  <2>4. QED
    BY <2>2, <2>3 DEF NewHistory
<1>8. Touches(id) /\ log'[id] = g
  <2> HIDE DEF g
  <2> QED  BY <1>1, <1>2, <1>5, <1>6, TouchesOne
<1>9. id \in DOMAIN streams' /\ streams'[id].open_state = "Open" /\ NoEnd(streams'[id].outbound_buf)
  BY <1>6 DEF Put
<1>10. QED
  <2> HIDE DEF g, id
  <2> QED  BY <1>1, <1>7, <1>8, <1>9 DEF OpensStream, id

\* The effects of a Data frame on a stream that is known and still receives.
DataArrives(f) ==
    LET id == f.stream_id
    IN /\ Touches(id)
       /\ id \in StreamIds /\ id \in DOMAIN streams /\ Receives(streams[id])
       /\ f.length \in Nat /\ f.length <= MAX_FRAME_SIZE
       /\ log'[id].hold = log[id].hold
       /\ log'[id].fin = (log[id].fin \/ Closes(f))
       /\ log'[id].received = log[id].received + f.length
       /\ f.length = 0 => log'[id].delivered = log[id].delivered
       /\ f.length > 0 =>
             log'[id].delivered = log[id].delivered \o SubSeq(inbound_buf', 1, f.length)
       /\ output_buf' = IF Closes(f) THEN <<Closed(id)>> ELSE <<>>
       /\ Closes(f) /\ id \in DOMAIN streams' =>
             /\ streams'[id].open_state = "FinByThem"
             /\ streams'[id].outbound_buf = streams[id].outbound_buf
       /\ ~Closes(f) =>
             /\ id \in DOMAIN streams'
             /\ streams'[id].open_state = streams[id].open_state
             /\ \/ streams'[id].outbound_buf = streams[id].outbound_buf
                \/ \E d : streams'[id].outbound_buf =
                             Append(streams[id].outbound_buf, UpdateMessage(d))

LEMMA ReadDataArrives ==
    ASSUME TypeOK, NEW f \in PeerFrames, read_data(f), ~NegotiateAccepts(f)
    PROVE  DataArrives(f)
<1> DEFINE id == f.stream_id
           s0 == streams[id]
           s == [s0 EXCEPT !.recv_window = SaturatingSub(@, f.length)]
           h0 == log[id]
           h == HistoryAfterData(f, s)
<1>1. Known(f) /\ Receives(streams[id]) /\ f.length <= MAX_FRAME_SIZE
  BY DEF read_data, ReadBody, Receives
<1>2. StreamsType /\ LogType /\ f.length \in Nat
  BY PeerFrameType DEF TypeOK, StreamsType, LogType
<1>3. id \in DOMAIN streams /\ id \in StreamIds /\ ~IsOpenNewStream(f)
  BY <1>1, <1>2 DEF Known, StreamsType
<1>4. s0 \in StreamState /\ h0 \in History
  BY <1>2, <1>3 DEF StreamsType, LogType
<1>5. s \in StreamState /\ s.open_state = s0.open_state /\ s.outbound_buf = s0.outbound_buf
  <2> HIDE DEF s0
  <2>1. SaturatingSub(s0.recv_window, f.length) \in Nat
    BY <1>2, <1>4 DEF SaturatingSub, StreamState
  <2>2. QED
    BY <1>4, <2>1 DEF StreamState
<1>6. /\ streams' = StreamsAfterData(f, s)
      /\ \E g : /\ log' = [log EXCEPT ![id] = g]
                /\ g = CASE IsOpenNewStream(f) -> Handed(h, Opened(id), inbound_buf')
                         [] ~IsOpenNewStream(f) /\ f.length > 0 ->
                               Handed(h, DataOut(id, f.length), inbound_buf')
                         [] ~IsOpenNewStream(f) /\ f.length = 0 -> h
  <2>1. Lookup(f) = s0
    BY <1>3 DEF Lookup
  <2>2. QED
    BY <2>1 DEF read_data
<1>7. output_buf' = IF Closes(f) THEN <<Closed(id)>> ELSE <<>>
  BY <1>3 DEF read_data, OutputAfterData
<1>8. /\ h \in History /\ h.hold = h0.hold /\ h.fin = (h0.fin \/ Closes(f))
      /\ h.received = h0.received + f.length /\ h.delivered = h0.delivered
  <2>1. LookupHistory(f) = h0 /\ Lookup(f) = s0
    BY <1>3 DEF LookupHistory, Lookup
  <2>2. PICK o, d :
           h = [h0 EXCEPT !.received = @ + f.length, !.overrun = o, !.granted = d,
                          !.fin = @ \/ Closes(f)]
    <3> HIDE DEF s, h0
    <3> QED  BY <2>1 DEF HistoryAfterData
  <2>3. h \in History
    <3> HIDE DEF s, h0
    <3> QED  BY <1>4, <1>5, <2>1, HistoryAfterDataType
  <2>4. QED
    <3> HIDE DEF h, h0
    <3> QED  BY <1>4, <2>2, <2>3 DEF History
<1>9. PICK g : /\ log' = [log EXCEPT ![id] = g]
               /\ g = CASE IsOpenNewStream(f) -> Handed(h, Opened(id), inbound_buf')
                        [] ~IsOpenNewStream(f) /\ f.length > 0 ->
                              Handed(h, DataOut(id, f.length), inbound_buf')
                        [] ~IsOpenNewStream(f) /\ f.length = 0 -> h
  BY <1>6
<1>10. /\ g.hold = h0.hold /\ g.fin = (h0.fin \/ Closes(f))
       /\ g.received = h0.received + f.length
       /\ f.length = 0 => g.delivered = h0.delivered
       /\ f.length > 0 => g.delivered = h0.delivered \o SubSeq(inbound_buf', 1, f.length)
  <2> HIDE DEF h, h0, id
  <2>1. CASE f.length > 0
    <3>1. g = Handed(h, DataOut(id, f.length), inbound_buf') /\ f.length # 0
      BY <1>2, <1>3, <1>9, <2>1
    <3>2. g = [h EXCEPT !.delivered = @ \o SubSeq(inbound_buf', 1, f.length)]
      BY <3>1 DEF Handed, DataOut
    <3>3. /\ g.hold = h.hold /\ g.fin = h.fin /\ g.received = h.received
          /\ g.delivered = h.delivered \o SubSeq(inbound_buf', 1, f.length)
      BY <1>8, <3>2 DEF History
    <3>4. QED
      BY <1>8, <3>1, <3>3
  <2>2. CASE f.length = 0
    <3>1. g = h /\ ~(f.length > 0)
      BY <1>3, <1>9, <2>2
    <3>2. QED
      BY <1>8, <3>1
  <2>3. QED
    BY <1>2, <2>1, <2>2
<1>11. \/ streams' = Without(streams, {id}) /\ Closes(f)
       \/ streams' = Put(streams, id, [s EXCEPT !.open_state = "FinByThem"]) /\ Closes(f)
       \/ streams' = Put(streams, id, Refilled(s)) /\ ~Closes(f)
       \/ streams' = Put(streams, id, s) /\ ~Closes(f)
  <2> HIDE DEF s
  <2> QED  BY <1>6 DEF StreamsAfterData, Closes
<1>12. Touches(id) /\ log'[id] = g
  <2> HIDE DEF s, id
  <2> QED  BY <1>2, <1>3, <1>9, <1>11, TouchesOne
<1>13. Closes(f) /\ id \in DOMAIN streams' =>
          streams'[id].open_state = "FinByThem" /\ streams'[id].outbound_buf = s0.outbound_buf
  <2> SUFFICES ASSUME Closes(f), id \in DOMAIN streams'
               PROVE  streams'[id].open_state = "FinByThem"
                      /\ streams'[id].outbound_buf = s0.outbound_buf
    OBVIOUS
  <2>1. PICK t : t = [s EXCEPT !.open_state = "FinByThem"]
    OBVIOUS
  <2> HIDE DEF s, s0, id
  <2>2. t.open_state = "FinByThem" /\ t.outbound_buf = s0.outbound_buf
    BY <1>5, <2>1 DEF StreamState
  <2>3. streams'[id] = t
    BY <1>11, <2>1 DEF Without, Put
  <2>4. QED
    BY <2>2, <2>3
<1>14. ~Closes(f) =>
          /\ id \in DOMAIN streams'
          /\ streams'[id].open_state = s0.open_state
          /\ \/ streams'[id].outbound_buf = s0.outbound_buf
             \/ \E d : streams'[id].outbound_buf = Append(s0.outbound_buf, UpdateMessage(d))
  <2> HIDE DEF s, s0, id
  <2>1. PICK t : t = Refilled(s)
    OBVIOUS
  <2>2. t.open_state = s.open_state
        /\ t.outbound_buf = Append(s.outbound_buf, UpdateMessage(RefillDelta(s)))
    BY <1>5, <2>1, RefilledFacts
  <2>3. ~Closes(f) => id \in DOMAIN streams' /\ (streams'[id] = t \/ streams'[id] = s)
    BY <1>11, <2>1 DEF Put
  <2>4. QED
    BY <1>5, <2>2, <2>3
<1>15. QED
  <2> HIDE DEF s, h
  <2> QED  BY <1>1, <1>2, <1>3, <1>7, <1>10, <1>12, <1>13, <1>14 DEF DataArrives

\* The effects of a window update on a stream that is known.
UpdateArrives(f) ==
    LET id == f.stream_id
    IN /\ Touches(id)
       /\ id \in StreamIds /\ id \in DOMAIN streams
       /\ log'[id].fin = (log[id].fin \/ Closes(f))
       /\ log'[id].received = log[id].received
       /\ log'[id].delivered = log[id].delivered
       /\ Closes(f) =>
             /\ log'[id].hold = "none"
             /\ id \in DOMAIN streams' => ~Receives(streams'[id])
       /\ ~Closes(f) =>
             /\ log'[id].hold = log[id].hold
             /\ id \in DOMAIN streams'
             /\ streams'[id].open_state = streams[id].open_state
             /\ streams'[id].outbound_buf = streams[id].outbound_buf

LEMMA ReadUpdateOpens ==
    ASSUME TypeOK, NEW f \in PeerFrames, read_update(f), NegotiateAccepts(f)
    PROVE  OpensStream(f.stream_id, 0)
<1> DEFINE id == f.stream_id
           s0 == PushBack(NewStream, Control("Accept"))
           s == [s0 EXCEPT !.send_window = @ + f.length]
           h == [NewHistory EXCEPT !.credit = @ + f.length, !.fin = @ \/ Closes(f)]
           g == Handed(h, Opened(id), inbound_buf)
<1>1. /\ id \in StreamIds /\ id \notin DOMAIN streams /\ id % 2 = 0
      /\ IsOpenNewStream(f) /\ ~Closes(f) /\ "Rst" \notin f.flags /\ "Fin" \notin f.flags
  BY AcceptFacts
<1>2. StreamsType /\ LogType
  BY DEF TypeOK, StreamsType, LogType
<1>3. s0 \in StreamState /\ s0.open_state = "Open" /\ NoEnd(s0.outbound_buf)
  BY NewStreamType, ControlType, PushBackType, AcceptQueue DEF Kinds
<1>4. s.open_state = "Open" /\ NoEnd(s.outbound_buf)
  <2> HIDE DEF s0
  <2> QED  BY <1>3 DEF StreamState
<1>5. streams' = StreamsAfterUpdate(f) /\ log' = [log EXCEPT ![id] = g]
  BY <1>1 DEF read_update, LookupHistory
<1>6. streams' = Put(streams, id, s)
  BY <1>1, <1>5 DEF StreamsAfterUpdate, Lookup
<1>7. g.hold = "open" /\ ~g.fin /\ g.received = 0 /\ g.delivered = <<>>
  <2>1. g = [h EXCEPT !.hold = "open"]
    BY DEF Handed, Opened
  <2>2. h.received = 0 /\ h.fin = FALSE /\ h.delivered = <<>> /\ DOMAIN h = DOMAIN NewHistory
    BY <1>1 DEF NewHistory
  <2> HIDE DEF h
  <2>3. QED
    BY <2>1, <2>2 DEF NewHistory
<1>8. Touches(id) /\ log'[id] = g
  <2> HIDE DEF g, s
  <2> QED  BY <1>1, <1>2, <1>5, <1>6, TouchesOne
<1>9. id \in DOMAIN streams' /\ streams'[id] = s
  <2> HIDE DEF s
  <2> QED  BY <1>6 DEF Put
<1>10. QED
  <2> HIDE DEF g, id, s
  <2> QED  BY <1>1, <1>4, <1>7, <1>8, <1>9 DEF OpensStream, id

LEMMA ReadUpdateArrives ==
    ASSUME TypeOK, NEW f \in PeerFrames, read_update(f), ~NegotiateAccepts(f)
    PROVE  UpdateArrives(f)
<1> DEFINE id == f.stream_id
           s0 == streams[id]
           s == [s0 EXCEPT !.send_window = @ + f.length]
           h0 == log[id]
           h == [h0 EXCEPT !.credit = @ + f.length, !.fin = @ \/ Closes(f)]
<1>1. Known(f)
  BY DEF read_update
<1>2. StreamsType /\ LogType
  BY DEF TypeOK, StreamsType, LogType
<1>3. id \in DOMAIN streams /\ id \in StreamIds /\ ~IsOpenNewStream(f)
  BY <1>1, <1>2 DEF Known, StreamsType
<1>4. s0 \in StreamState /\ h0 \in History
  BY <1>2, <1>3 DEF StreamsType, LogType
<1>5. s.open_state = s0.open_state /\ s.outbound_buf = s0.outbound_buf /\ DOMAIN s = DOMAIN s0
  <2> HIDE DEF s0
  <2> QED  BY <1>4 DEF StreamState
<1>6. /\ h.hold = h0.hold /\ h.fin = (h0.fin \/ Closes(f)) /\ h.received = h0.received
      /\ h.delivered = h0.delivered /\ DOMAIN h = DOMAIN h0
  <2> HIDE DEF h0
  <2> QED  BY <1>4 DEF History
<1>7. PICK g : /\ log' = [log EXCEPT ![id] = g]
               /\ g = CASE IsOpenNewStream(f) -> Handed(h, Opened(id), inbound_buf)
                        [] Closes(f)          -> Handed(h, Closed(id), inbound_buf)
                        [] OTHER              -> h
  BY <1>3 DEF read_update, LookupHistory
<1>8. /\ g.fin = h.fin /\ g.received = h.received /\ g.delivered = h.delivered
      /\ g.hold = IF Closes(f) THEN "none" ELSE h.hold
  <2>1. Handed(h, Closed(id), inbound_buf) = [h EXCEPT !.hold = "none"]
    BY DEF Handed, Closed
  <2>2. DOMAIN h = DOMAIN h0 /\ h0 \in History
    BY <1>4, <1>6
  <2> HIDE DEF h, h0
  <2>3. CASE Closes(f)
    <3>1. g = [h EXCEPT !.hold = "none"]
      BY <1>3, <1>7, <2>1, <2>3
    <3>2. QED
      BY <2>2, <2>3, <3>1 DEF History
  <2>4. CASE ~Closes(f)
    BY <1>3, <1>7, <2>4
  <2>5. QED
    BY <2>3, <2>4
<1>9. \/ streams' = Without(streams, {id}) /\ Closes(f)
      \/ streams' = Put(streams, id, [s EXCEPT !.open_state = SetFinByThem(@)]) /\ Closes(f)
      \/ streams' = Put(streams, id, s) /\ ~Closes(f)
  <2>1. Lookup(f) = s0 /\ streams' = StreamsAfterUpdate(f)
    BY <1>3 DEF Lookup, read_update
  <2> HIDE DEF s0
  <2>2. QED
    BY <2>1 DEF StreamsAfterUpdate, Closes
<1>10. Touches(id) /\ log'[id] = g
  <2> HIDE DEF s, id, h
  <2> QED  BY <1>2, <1>3, <1>7, <1>9, TouchesOne
<1>11. Closes(f) /\ id \in DOMAIN streams' => ~Receives(streams'[id])
  <2> SUFFICES ASSUME Closes(f), id \in DOMAIN streams'
               PROVE  ~Receives(streams'[id])
    OBVIOUS
  <2>1. PICK t : t = [s EXCEPT !.open_state = SetFinByThem(@)]
    OBVIOUS
  <2>2. DOMAIN s = DOMAIN s0 /\ s0 \in StreamState
    BY <1>4, <1>5
  <2> HIDE DEF s, s0, id
  <2>3. t.open_state = SetFinByThem(s.open_state)
    BY <2>1, <2>2 DEF StreamState
  <2>4. streams'[id] = t
    BY <1>9, <2>1 DEF Without, Put
  <2>5. QED
    BY <2>3, <2>4 DEF SetFinByThem, Receives
<1>12. ~Closes(f) => id \in DOMAIN streams' /\ streams'[id] = s
  <2> HIDE DEF s
  <2> QED  BY <1>9 DEF Put
<1>13. QED
  <2> HIDE DEF s, h
  <2> QED  BY <1>3, <1>5, <1>6, <1>8, <1>10, <1>11, <1>12 DEF UpdateArrives

\* The history of a stream as far as what is received matters.
SameReceipts(h, g) ==
    /\ g.received = h.received
    /\ g.delivered = h.delivered
    /\ g.fin = h.fin

CallOn(id) ==
    \/ \E n \in SendSizes : send_data(id, n)
    \/ send_data_not_found(id)
    \/ close_stream(id)
    \/ close_stream_immediately(id)
    \/ reset_stream_immediately(id)

\* The effects that the calls on a stream have in common.
Called(id) ==
    /\ Touches(id)
    /\ writer # "Pass"
    /\ UNCHANGED <<output_buf, inbound_buf, finished, streams_to_remove, writer, next_stream_id>>
    /\ \A n : output_buf # <<DataOut(id, n)>>
    /\ SameReceipts(log[id], log'[id])
    /\ id \in DOMAIN streams' => id \in DOMAIN streams
    /\ id \in DOMAIN streams' /\ Receives(streams'[id]) => Receives(streams[id])

LEMMA CallGuards ==
    ASSUME TypeOK, NEW id \in StreamIds, CallOn(id)
    PROVE  /\ writer # "Pass"
           /\ UNCHANGED <<output_buf, inbound_buf, finished, streams_to_remove, writer, next_stream_id>>
           /\ \A n : output_buf # <<DataOut(id, n)>>
<1>1. Call /\ UNCHANGED next_stream_id
  BY DEF CallOn, send_data, send_data_not_found, close_stream, close_stream_immediately,
         reset_stream_immediately
<1>2. \E holds : MayCall(id, holds)
  BY DEF CallOn, send_data, send_data_not_found, close_stream, close_stream_immediately,
         reset_stream_immediately
<1>3. \A n : output_buf # <<DataOut(id, n)>>
  BY <1>2 DEF MayCall, DataOut
<1>4. QED
  BY <1>1, <1>3 DEF Call, Unborrowed, pass

LEMMA CallEffects ==
    ASSUME TypeOK, NEW id \in StreamIds, CallOn(id)
    PROVE  Called(id)
<1> DEFINE h == log[id]
           s == streams[id]
<1>0. StreamsType /\ LogType
  BY DEF TypeOK, StreamsType, LogType
<1>1. h \in History /\ (id \in DOMAIN streams => s \in StreamState)
  BY <1>0 DEF LogType, StreamsType
<1>2. PICK g : log' = [log EXCEPT ![id] = g] /\ SameReceipts(h, g)
  <2>1. \/ log' = [log EXCEPT ![id] = h]
        \/ \E n : log' = [log EXCEPT ![id] = [h EXCEPT !.accepted = n]]
        \/ log' = [log EXCEPT ![id] = [h EXCEPT !.hold = "closed"]]
        \/ log' = [log EXCEPT ![id] = [h EXCEPT !.hold = "closed", !.dropped = TRUE]]
        \/ log' = [log EXCEPT ![id] = [h EXCEPT !.hold = "none", !.dropped = TRUE]]
    BY <1>0 DEF CallOn, send_data, send_data_not_found, close_stream,
         close_stream_immediately, reset_stream_immediately, LogType
  <2>2. /\ \A n : SameReceipts(h, [h EXCEPT !.accepted = n])
        /\ SameReceipts(h, h)
        /\ SameReceipts(h, [h EXCEPT !.hold = "closed"])
        /\ SameReceipts(h, [h EXCEPT !.hold = "closed", !.dropped = TRUE])
        /\ SameReceipts(h, [h EXCEPT !.hold = "none", !.dropped = TRUE])
    <3> HIDE DEF h
    <3> QED  BY <1>1 DEF SameReceipts, History
  <2> HIDE DEF h
  <2>3. QED
    BY <2>1, <2>2
<1>3. \/ UNCHANGED streams
      \/ /\ id \in DOMAIN streams
         /\ \E t : /\ streams' = [streams EXCEPT ![id] = t]
                   /\ Receives(t) => Receives(s)
  <2>1. \/ UNCHANGED streams
        \/ id \in DOMAIN streams /\ \E n : streams' = [streams EXCEPT ![id] = Extended(s, n)]
        \/ id \in DOMAIN streams /\ streams' = [streams EXCEPT ![id] = PushBack(s, Control("Close"))]
        \/ id \in DOMAIN streams /\ streams' = [streams EXCEPT ![id] = AfterReset(s)]
        \/ /\ id \in DOMAIN streams
           /\ streams' = [streams EXCEPT ![id] = [s EXCEPT !.open_state = SetFinByUs(@),
                                               !.outbound_buf = <<Control("Close")>>]]
    BY DEF CallOn, send_data, CanQueueData, send_data_not_found, close_stream,
         close_stream_immediately, reset_stream_immediately, ResetIn
  <2>2. id \in DOMAIN streams =>
           /\ \A n : Receives(Extended(s, n)) => Receives(s)
           /\ Receives(PushBack(s, Control("Close"))) => Receives(s)
           /\ Receives(AfterReset(s)) => Receives(s)
           /\ Receives([s EXCEPT !.open_state = SetFinByUs(@),
                                 !.outbound_buf = <<Control("Close")>>]) => Receives(s)
    <3> HIDE DEF s
    <3> QED  BY <1>1 DEF Receives, Extended, PushBack, AfterReset, SetFinByUs, StreamState
  <2> HIDE DEF s
  <2>3. QED
    BY <2>1, <2>2
<1>4. Touches(id) /\ log'[id] = g
  BY <1>0, <1>2, <1>3, TouchesOne
<1>5. /\ id \in DOMAIN streams' => id \in DOMAIN streams
      /\ id \in DOMAIN streams' /\ Receives(streams'[id]) => Receives(streams[id])
  BY <1>3
<1>6. QED
  BY <1>2, <1>4, <1>5, CallGuards DEF Called

LEMMA CallKeepsOutput ==
    ASSUME KeptOutput, NEW id \in StreamIds, Called(id)
    PROVE  KeptOutput'
<1>1. CASE output_buf = <<>>
  BY <1>1 DEF Called, KeptOutput
<1>2. CASE \E x \in StreamIds, n \in 1..MAX_FRAME_SIZE :
             output_buf = <<DataOut(x, n)>> /\ x % 2 = 0 /\ log[x].hold # "none"
  <2>1. PICK x \in StreamIds, n \in 1..MAX_FRAME_SIZE :
             output_buf = <<DataOut(x, n)>> /\ x % 2 = 0 /\ log[x].hold # "none"
    BY <1>2
  <2>2. x # id /\ output_buf' = output_buf
    BY <2>1 DEF Called
  <2>3. log'[x] = log[x]
    BY <2>2 DEF Called, Touches
  <2>4. QED
    BY <2>1, <2>2, <2>3 DEF KeptOutput
<1>3. CASE \E x \in StreamIds :
             /\ output_buf = <<Closed(x)>>
             /\ x % 2 = 1 => x < next_stream_id
             /\ x \in DOMAIN streams => ~Receives(streams[x])
  <2>1. PICK x \in StreamIds :
             /\ output_buf = <<Closed(x)>>
             /\ x % 2 = 1 => x < next_stream_id
             /\ x \in DOMAIN streams => ~Receives(streams[x])
    BY <1>3
  <2>2. x \in DOMAIN streams' => ~Receives(streams'[x])
    BY <2>1 DEF Called, Touches
  <2>3. output_buf' = output_buf /\ next_stream_id' = next_stream_id
    BY DEF Called
  <2>4. QED
    BY <2>1, <2>2, <2>3 DEF KeptOutput
<1>4. QED
  BY <1>1, <1>2, <1>3 DEF KeptOutput

LEMMA ExtendedQueue ==
    ASSUME NEW s \in StreamState, NEW bytes, NoEnd(s.outbound_buf)
    PROVE  /\ Extended(s, bytes).open_state = s.open_state
           /\ NoEnd(Extended(s, bytes).outbound_buf)
<1>1. s.outbound_buf \in Seq(BufferedOutboundMessage)
  BY DEF StreamState
<1>2. CASE BackIs(s, {"Data"})
  <2> DEFINE m == DataMessage(s.outbound_buf[Len(s.outbound_buf)].bytes \o bytes)
             q == [s.outbound_buf EXCEPT ![Len(s.outbound_buf)] = m]
  <2>1. Extended(s, bytes) = [s EXCEPT !.outbound_buf = q]
    BY <1>2 DEF Extended
  <2>2. m.kind = "Data"
    BY DEF DataMessage
  <2>3. NoEnd(q)
    <3> HIDE DEF m
    <3> QED  BY <1>1, <2>2 DEF NoEnd
  <2> HIDE DEF q
  <2>4. QED
    BY <2>1, <2>3 DEF StreamState
<1>3. CASE ~BackIs(s, {"Data"})
  <2> DEFINE m == DataMessage(bytes)
             q == Append(s.outbound_buf, m)
  <2>1. Extended(s, bytes) = [s EXCEPT !.outbound_buf = q]
    BY <1>3 DEF Extended, PushBack
  <2>2. m.kind = "Data"
    BY DEF DataMessage
  <2>3. NoEnd(q)
    <3> HIDE DEF m
    <3> QED  BY <1>1, <2>2 DEF NoEnd
  <2> HIDE DEF q
  <2>4. QED
    BY <2>1, <2>3 DEF StreamState
<1>4. QED
  BY <1>2, <1>3

\* When no pass is on, data can be queued on a stream that the layer above has
\* open exactly when the stream is usable.
LEMMA QueuesWhenUsable ==
    ASSUME TypeOK, ServiceInv, writer # "Pass", NEW id \in StreamIds, log[id].hold = "open"
    PROVE  CanQueueData(id) <=> (id \in DOMAIN streams /\ Usable(id))
<1> SUFFICES ASSUME id \in DOMAIN streams
             PROVE  ~BackIs(streams[id], {"Close", "Reset"}) <=> Usable(id)
  BY DEF CanQueueData
<1>1. streams_to_remove = {} /\ HeldAt(id)
  BY DEF ServiceInv
<1>2. streams[id].outbound_buf \in Seq(BufferedOutboundMessage)
  BY DEF TypeOK, StreamState
<1>3. ASSUME Usable(id)
      PROVE  ~BackIs(streams[id], {"Close", "Reset"})
  BY <1>2, <1>3 DEF Usable, NoEnd, BackIs, Back
<1>4. ASSUME BeingReset(id)
      PROVE  BackIs(streams[id], {"Close", "Reset"}) /\ ~Usable(id)
  <2>1. streams[id].outbound_buf = <<Control("Reset")>> /\ streams[id].open_state = "Reset"
    BY <1>1, <1>4 DEF BeingReset
  <2>2. QED
    BY <2>1 DEF BackIs, Back, Control, Usable
<1>5. QED
  BY <1>1, <1>3, <1>4 DEF HeldAt

LEMMA CallKeepsHeld ==
    ASSUME TypeOK, TypeOK', ServiceInv, NEW id \in StreamIds, CallOn(id), id \in DOMAIN streams'
    PROVE  HeldAt(id)'
<1>0. StreamsType /\ LogType
  BY DEF TypeOK, StreamsType, LogType
<1>1. Called(id) /\ id \in DOMAIN streams /\ HeldAt(id) /\ streams_to_remove = {}
  BY CallEffects DEF Called, ServiceInv
<1>2. streams[id] \in StreamState /\ log[id] \in History
  BY <1>0, <1>1 DEF StreamsType, LogType
<1>3. ASSUME NEW n \in SendSizes, send_data(id, n)
      PROVE  HeldAt(id)'
  <2>1. log[id].hold = "open" /\ CanQueueData(id)
    BY <1>3 DEF send_data, MayCall
  <2>2. Usable(id)
    BY <1>1, <2>1, QueuesWhenUsable DEF Called
  <2>3. streams'[id] = Extended(streams[id], NextBytes(id, n))
    BY <1>1, <1>3 DEF send_data
  <2>4. streams'[id].open_state = streams[id].open_state /\ NoEnd(streams'[id].outbound_buf)
    BY <1>2, <2>2, <2>3, ExtendedQueue DEF Usable
  <2>5. log'[id].hold = "open"
    <3>1. log'[id] = [log[id] EXCEPT !.accepted = @ + n]
      BY <1>0, <1>3 DEF send_data, LogType
    <3>2. QED
      BY <1>2, <2>1, <3>1 DEF History
  <2>6. QED
    BY <1>1, <2>2, <2>4, <2>5 DEF HeldAt, Usable, Called
<1>4. CASE send_data_not_found(id)
  BY <1>1, <1>4 DEF send_data_not_found, HeldAt, Usable, BeingReset, Receives, NoEnd, Called
<1>5. CASE close_stream(id) \/ close_stream_immediately(id)
  <2>1. log'[id].hold = "closed"
    BY <1>0, <1>2, <1>5 DEF close_stream, close_stream_immediately, LogType, History
  <2>2. QED
    BY <2>1 DEF HeldAt
<1>6. CASE reset_stream_immediately(id)
  <2>1. log'[id].hold = "none"
    BY <1>0, <1>2, <1>6 DEF reset_stream_immediately, LogType, History
  <2>2. streams'[id] = AfterReset(streams[id])
    BY <1>1, <1>6 DEF reset_stream_immediately, ResetIn
  <2>3. streams'[id].open_state = "Reset"
    BY <1>2, <2>2 DEF AfterReset, StreamState
  <2>4. QED
    BY <2>1, <2>3 DEF HeldAt, Receives
<1>7. QED
  BY <1>3, <1>4, <1>5, <1>6 DEF CallOn

LEMMA OpenFacts ==
    ASSUME TypeOK, OwnIds, open_stream
    PROVE  LET id == next_stream_id
           IN /\ id \in StreamIds /\ id \notin DOMAIN streams /\ id % 2 = 1
              /\ next_stream_id' = id + 2
              /\ Touches(id) /\ id \in DOMAIN streams'
              /\ streams'[id] = PushBack(NewStream, Control("Open"))
              /\ log'[id] = [NewHistory EXCEPT !.hold = "open"]
              /\ writer # "Pass"
              /\ UNCHANGED <<output_buf, inbound_buf, finished, streams_to_remove, writer>>
<1> DEFINE id == next_stream_id
           h == [NewHistory EXCEPT !.hold = "open"]
<1>0. StreamsType /\ LogType
  BY DEF TypeOK, StreamsType, LogType
<1>1. id \in StreamIds /\ id \notin DOMAIN streams
  BY YamuxConstants DEF open_stream, OwnIds, TypeOK
<1>2. streams' = Put(streams, id, PushBack(NewStream, Control("Open")))
  BY <1>1 DEF open_stream
<1>3. log' = [log EXCEPT ![id] = h]
  BY DEF open_stream
<1>4. Touches(id) /\ log'[id] = h
  <2> HIDE DEF h
  <2> QED  BY <1>0, <1>1, <1>2, <1>3, TouchesOne
<1>5. id \in DOMAIN streams' /\ streams'[id] = PushBack(NewStream, Control("Open"))
  BY <1>2 DEF Put
<1>6. QED
  BY <1>1, <1>4, <1>5 DEF open_stream, Call, Unborrowed, pass, OwnIds

LEMMA OpenedFacts ==
    ASSUME NEW s, s = PushBack(NewStream, Control("Open"))
    PROVE  s.open_state = "Open" /\ NoEnd(s.outbound_buf)
BY DEF PushBack, NewStream, Control, NoEnd

LEMMA OpenKeepsService ==
    ASSUME TypeOK, TypeOK', OwnIds, ServiceInv, open_stream
    PROVE  ServiceInv'
<1> DEFINE id == next_stream_id
<1>1. /\ id \in StreamIds /\ id \notin DOMAIN streams /\ id % 2 = 1
      /\ next_stream_id' = id + 2
      /\ Touches(id) /\ id \in DOMAIN streams'
      /\ streams'[id] = PushBack(NewStream, Control("Open"))
      /\ log'[id] = [NewHistory EXCEPT !.hold = "open"]
      /\ writer # "Pass"
      /\ UNCHANGED <<output_buf, inbound_buf, finished, streams_to_remove, writer>>
  BY OpenFacts
<1>2. id \in Nat /\ \A x \in StreamIds : x \in Nat
  BY <1>1, YamuxConstants
<1>3. StreamsType' /\ streams_to_remove = {}
  BY <1>1 DEF TypeOK, StreamsType, ServiceInv
<1>4. log'[id].hold = "open" /\ streams'[id].open_state = "Open"
      /\ NoEnd(streams'[id].outbound_buf)
  BY <1>1, OpenedFacts DEF NewHistory
<1>5. PICK i : i = id
  OBVIOUS
<1>6. HeldAt(i)'
  BY <1>1, <1>3, <1>4, <1>5 DEF HeldAt, Usable
<1>7. \A x \in DOMAIN streams' : HeldAt(x)'
  BY <1>1, <1>3, <1>5, <1>6, TouchesKeepsHeld
<1>8. KeptOutput'
  <2> HIDE DEF id
  <2>1. CASE output_buf = <<>>
    BY <1>1, <2>1 DEF KeptOutput
  <2>2. CASE \E x \in StreamIds, n \in 1..MAX_FRAME_SIZE :
               output_buf = <<DataOut(x, n)>> /\ x % 2 = 0 /\ log[x].hold # "none"
    <3>1. PICK x \in StreamIds, n \in 1..MAX_FRAME_SIZE :
               output_buf = <<DataOut(x, n)>> /\ x % 2 = 0 /\ log[x].hold # "none"
      BY <2>2
    <3>2. x # id
      BY <1>1, <3>1
    <3>3. log'[x] = log[x]
      BY <1>1, <3>2 DEF Touches
    <3>4. QED
      BY <1>1, <3>1, <3>3 DEF KeptOutput
  <2>3. CASE \E x \in StreamIds :
               /\ output_buf = <<Closed(x)>>
               /\ x % 2 = 1 => x < id
               /\ x \in DOMAIN streams => ~Receives(streams[x])
    <3>1. PICK x \in StreamIds :
               /\ output_buf = <<Closed(x)>>
               /\ x % 2 = 1 => x < id
               /\ x \in DOMAIN streams => ~Receives(streams[x])
      BY <2>3
    <3>2. x # id /\ (x % 2 = 1 => x < id + 2)
      BY <1>1, <1>2, <3>1
    <3>3. x \in DOMAIN streams' => ~Receives(streams'[x])
      BY <1>1, <3>1, <3>2 DEF Touches
    <3>4. QED
      BY <1>1, <3>1, <3>2, <3>3 DEF KeptOutput
  <2>4. QED
    BY <2>1, <2>2, <2>3 DEF ServiceInv, KeptOutput, id
<1>9. QED
  BY <1>1, <1>7, <1>8 DEF ServiceInv

LEMMA CallsKeepService ==
    ASSUME TypeOK, TypeOK', OwnIds, ServiceInv, Calls
    PROVE  ServiceInv'
<1>1. ASSUME NEW id \in StreamIds, CallOn(id)
      PROVE  ServiceInv'
  <2>1. Called(id)
    BY <1>1, CallEffects
  <2>2. StreamsType'
    BY DEF TypeOK, StreamsType
  <2>3. id \in DOMAIN streams' => HeldAt(id)'
    BY <1>1, CallKeepsHeld
  <2>4. \A x \in DOMAIN streams' : HeldAt(x)'
    BY <2>1, <2>2, <2>3, TouchesKeepsHeld DEF Called
  <2>5. KeptOutput'
    BY <2>1, CallKeepsOutput DEF ServiceInv
  <2>6. QED
    BY <2>1, <2>4, <2>5 DEF ServiceInv, Called
<1>2. QED
  BY <1>1, OpenKeepsService DEF Calls, CallOn

LEMMA ReadFrameFacts ==
    ASSUME NEW f, ReadFrame(f)
    PROVE  /\ writer # "Pass" /\ output_buf = <<>>
           /\ UNCHANGED <<streams_to_remove, writer, next_stream_id>>
<1>1. ReadHeader
  BY DEF ReadFrame, read_data_too_large, read_data_negotiate_fails, read_data_refuse,
         read_data_ignore, read_data_after_fin, read_data, read_update_negotiate_fails,
         read_update_refuse, read_update_ignore, read_update, read_session_frame_on_stream,
         read_ping, read_go_away, ReadBody, ReadUpdate
<1>2. QED
  BY <1>1 DEF ReadHeader, Reading, Unborrowed, pass

LEMMA QuietFrame ==
    ASSUME NEW f, ReadFrame(f), ~read_data(f), ~read_update(f), ~read_session_frame_on_stream(f)
    PROVE  UNCHANGED <<streams, log, output_buf>>
BY DEF ReadFrame, read_data_too_large, read_data_negotiate_fails, read_data_refuse,
       read_data_ignore, read_data_after_fin, read_update_negotiate_fails, read_update_refuse,
       read_update_ignore, read_ping, read_go_away, Refuse, Ignore, Finish

\* The effects of handing out the output that was kept.
HandsData(id, n) ==
    /\ Touches(id)
    /\ n \in 1..MAX_FRAME_SIZE
    /\ output_buf = <<DataOut(id, n)>>
    /\ log[id].hold # "none" /\ log'[id].hold = log[id].hold
    /\ log'[id].fin = log[id].fin
    /\ log'[id].received = log[id].received
    /\ log'[id].delivered = log[id].delivered \o SubSeq(inbound_buf, 1, n)

HandsClosed(id) ==
    /\ Touches(id)
    /\ output_buf = <<Closed(id)>>
    /\ id \in DOMAIN streams => ~Receives(streams[id])
    /\ log'[id].hold = "none"
    /\ SameReceipts(log[id], log'[id])

LEMMA TakeOutputFacts ==
    ASSUME TypeOK, KeptOutput, take_output_buf
    PROVE  /\ output_buf' = <<>> /\ writer # "Pass"
           /\ UNCHANGED <<streams, inbound_buf, finished, streams_to_remove, writer, next_stream_id>>
           /\ \E id \in StreamIds : HandsClosed(id) \/ \E n \in 1..MAX_FRAME_SIZE : HandsData(id, n)
<1>0. StreamsType /\ LogType
  BY DEF TypeOK, StreamsType, LogType
<1>1. /\ output_buf # <<>> /\ output_buf' = <<>> /\ writer # "Pass"
      /\ UNCHANGED <<streams, inbound_buf, finished, streams_to_remove, writer, next_stream_id>>
  BY DEF take_output_buf, Reading, Unborrowed, pass
<1>2. ASSUME NEW id \in StreamIds, NEW n \in 1..MAX_FRAME_SIZE,
             output_buf = <<DataOut(id, n)>>, log[id].hold # "none"
      PROVE  HandsData(id, n)
  <2>1. Head(output_buf) = DataOut(id, n)
    BY <1>2
  <2>2. PICK g : g = [log[id] EXCEPT !.delivered = @ \o SubSeq(inbound_buf, 1, n)]
    OBVIOUS
  <2>3. log' = [log EXCEPT ![id] = g]
    <3>1. PICK o : o = Head(output_buf)
      OBVIOUS
    <3>2. o.stream_id = id /\ o.state = "Data" /\ o.len = n
      BY <2>1, <3>1 DEF DataOut
    <3>3. Handed(log[id], o, inbound_buf) = g
      BY <2>2, <3>2 DEF Handed
    <3>4. log' = [log EXCEPT ![o.stream_id] = Handed(log[o.stream_id], o, inbound_buf)]
      BY <3>1 DEF take_output_buf
    <3>5. QED
      BY <3>2, <3>3, <3>4
  <2>4. Touches(id) /\ log'[id] = g
    BY <1>0, <1>1, <2>3, TouchesOne
  <2>5. log[id] \in History
    BY <1>0 DEF LogType
  <2>6. /\ g.hold = log[id].hold /\ g.fin = log[id].fin /\ g.received = log[id].received
        /\ g.delivered = log[id].delivered \o SubSeq(inbound_buf, 1, n)
    BY <2>2, <2>5 DEF History
  <2>7. QED
    BY <1>2, <2>4, <2>6 DEF HandsData
<1>3. ASSUME NEW id \in StreamIds, output_buf = <<Closed(id)>>,
             id \in DOMAIN streams => ~Receives(streams[id])
      PROVE  HandsClosed(id)
  <2>1. Head(output_buf) = Closed(id)
    BY <1>3
  <2>2. PICK g : g = [log[id] EXCEPT !.hold = "none"]
    OBVIOUS
  <2>3. log' = [log EXCEPT ![id] = g]
    <3>1. PICK o : o = Head(output_buf)
      OBVIOUS
    <3>2. o.stream_id = id /\ o.state = "ClosedByRemote"
      BY <2>1, <3>1 DEF Closed
    <3>3. Handed(log[id], o, inbound_buf) = g
      BY <2>2, <3>2 DEF Handed
    <3>4. log' = [log EXCEPT ![o.stream_id] = Handed(log[o.stream_id], o, inbound_buf)]
      BY <3>1 DEF take_output_buf
    <3>5. QED
      BY <3>2, <3>3, <3>4
  <2>4. Touches(id) /\ log'[id] = g
    BY <1>0, <1>1, <2>3, TouchesOne
  <2>5. log[id] \in History
    BY <1>0 DEF LogType
  <2>6. g.hold = "none" /\ SameReceipts(log[id], g)
    BY <2>2, <2>5 DEF History, SameReceipts
  <2>7. QED
    BY <1>3, <2>4, <2>6 DEF HandsClosed
<1>4. QED
  BY <1>1, <1>2, <1>3 DEF KeptOutput

\* The effects of a session frame that names a stream.
StreamReset(id) ==
    /\ Touches(id)
    /\ log'[id].hold = log[id].hold
    /\ SameReceipts(log[id], log'[id])
    /\ id \in DOMAIN streams' <=> id \in DOMAIN streams
    /\ id \in DOMAIN streams' =>
          /\ streams'[id].open_state = "Reset"
          /\ streams'[id].outbound_buf = <<Control("Reset")>>

LEMMA SessionFrameFacts ==
    ASSUME TypeOK, NEW f \in PeerFrames, read_session_frame_on_stream(f)
    PROVE  /\ f.stream_id \in StreamIds /\ StreamReset(f.stream_id)
           /\ UNCHANGED <<output_buf, inbound_buf, finished>>
<1> DEFINE id == f.stream_id
<1>0. StreamsType /\ LogType
  BY DEF TypeOK, StreamsType, LogType
<1>1. id \in StreamIds
  BY PeerFrameType DEF read_session_frame_on_stream
<1>2. PICK g : g = [log[id] EXCEPT !.dropped = @ \/ id \in DOMAIN streams]
  OBVIOUS
<1>3. log' = [log EXCEPT ![id] = g]
  BY <1>2 DEF read_session_frame_on_stream
<1>4. \/ id \notin DOMAIN streams /\ UNCHANGED streams
      \/ id \in DOMAIN streams /\ streams' = [streams EXCEPT ![id] = AfterReset(streams[id])]
  BY DEF read_session_frame_on_stream, ResetIn
<1>5. Touches(id) /\ log'[id] = g
  <2> HIDE DEF id
  <2> QED  BY <1>0, <1>1, <1>3, <1>4, TouchesOne
<1>6. log[id] \in History
  BY <1>0, <1>1 DEF LogType
<1>7. g.hold = log[id].hold /\ SameReceipts(log[id], g)
  BY <1>2, <1>6 DEF History, SameReceipts
<1>8. id \in DOMAIN streams =>
         /\ streams'[id].open_state = "Reset"
         /\ streams'[id].outbound_buf = <<Control("Reset")>>
  <2>1. id \in DOMAIN streams => streams[id] \in StreamState
    BY <1>0 DEF StreamsType
  <2>2. id \in DOMAIN streams => streams'[id] = AfterReset(streams[id])
    BY <1>4
  <2>3. QED
    BY <2>1, <2>2 DEF AfterReset, StreamState
<1>9. (id \in DOMAIN streams') <=> (id \in DOMAIN streams)
  BY <1>4
<1>10. QED
  BY <1>1, <1>5, <1>7, <1>8, <1>9 DEF StreamReset, read_session_frame_on_stream

LEMMA OutputOfOpening ==
    ASSUME NEW f \in PeerFrames, ReadFrame(f), NegotiateAccepts(f), read_data(f) \/ read_update(f)
    PROVE  \/ output_buf' = <<>>
           \/ /\ read_data(f) /\ f.length \in 1..MAX_FRAME_SIZE
              /\ output_buf' = <<DataOut(f.stream_id, f.length)>>
<1>1. output_buf = <<>> /\ IsOpenNewStream(f) /\ ~Closes(f)
  BY ReadFrameFacts, AcceptFacts
<1>2. f.length \in Nat
  BY PeerFrameType
<1>3. CASE read_data(f)
  <2>1. output_buf' = OutputAfterData(f) /\ f.length <= MAX_FRAME_SIZE
    BY <1>3 DEF read_data, ReadBody
  <2>2. CASE f.length > 0
    BY <1>1, <1>2, <1>3, <2>1, <2>2, YamuxConstants DEF OutputAfterData
  <2>3. CASE ~(f.length > 0)
    BY <1>1, <2>1, <2>3 DEF OutputAfterData
  <2>4. QED
    BY <2>2, <2>3
<1>4. CASE read_update(f)
  BY <1>1, <1>4 DEF read_update
<1>5. QED
  BY <1>3, <1>4

LEMMA OpeningKeepsService ==
    ASSUME TypeOK', ServiceInv, NEW f \in PeerFrames, ReadFrame(f), NegotiateAccepts(f),
           read_data(f) \/ read_update(f), NEW n, OpensStream(f.stream_id, n)
    PROVE  ServiceInv'
<1> DEFINE id == f.stream_id
<1>1. /\ writer # "Pass" /\ UNCHANGED <<streams_to_remove, writer, next_stream_id>>
      /\ streams_to_remove = {}
  BY ReadFrameFacts DEF ServiceInv
<1>2. /\ Touches(id) /\ id \in StreamIds /\ id % 2 = 0 /\ id \in DOMAIN streams'
      /\ streams'[id].open_state = "Open" /\ NoEnd(streams'[id].outbound_buf)
      /\ log'[id].hold = "open"
  BY DEF OpensStream
<1>3. HeldAt(id)'
  BY <1>1, <1>2 DEF HeldAt, Usable
<1>4. StreamsType'
  BY DEF TypeOK, StreamsType
<1>5. \A x \in DOMAIN streams' : HeldAt(x)'
  BY <1>1, <1>2, <1>3, <1>4, TouchesKeepsHeld
<1>6. KeptOutput'
  BY <1>2, OutputOfOpening DEF KeptOutput
<1>7. QED
  BY <1>1, <1>5, <1>6 DEF ServiceInv

LEMMA DataKeepsService ==
    ASSUME TypeOK, TypeOK', OwnIds, ServiceInv, NEW f, ReadFrame(f), DataArrives(f)
    PROVE  ServiceInv'
<1> DEFINE id == f.stream_id
<1>1. /\ writer # "Pass" /\ UNCHANGED <<streams_to_remove, writer, next_stream_id>>
      /\ streams_to_remove = {}
  BY ReadFrameFacts DEF ServiceInv
<1>2. /\ Touches(id) /\ id \in StreamIds /\ id \in DOMAIN streams /\ Receives(streams[id])
      /\ log'[id].hold = log[id].hold
  BY DEF DataArrives
<1>3. HeldAt(id) /\ streams[id] \in StreamState
  BY <1>2 DEF ServiceInv, TypeOK
<1>4. log[id].hold # "none" /\ (log[id].hold = "open" => Usable(id))
  BY <1>2, <1>3 DEF HeldAt, BeingReset, Receives
<1>5. ASSUME id \in DOMAIN streams'
      PROVE  HeldAt(id)'
  <2>1. CASE Closes(f)
    <3>1. streams'[id].open_state = "FinByThem"
          /\ streams'[id].outbound_buf = streams[id].outbound_buf
      BY <1>5, <2>1 DEF DataArrives
    <3>2. QED
      BY <1>1, <1>2, <1>4, <3>1 DEF HeldAt, Usable
  <2>2. CASE ~Closes(f)
    <3>1. /\ streams'[id].open_state = streams[id].open_state
          /\ \/ streams'[id].outbound_buf = streams[id].outbound_buf
             \/ \E d : streams'[id].outbound_buf =
                          Append(streams[id].outbound_buf, UpdateMessage(d))
      BY <2>2 DEF DataArrives
    <3>2. streams[id].outbound_buf \in Seq(BufferedOutboundMessage)
      BY <1>3 DEF StreamState
    <3>3. NoEnd(streams[id].outbound_buf) => NoEnd(streams'[id].outbound_buf)
      BY <3>1, <3>2, NoEndUpdate
    <3>4. QED
      BY <1>1, <1>2, <1>4, <3>1, <3>3 DEF HeldAt, Usable
  <2>3. QED
    BY <2>1, <2>2
<1>6. StreamsType'
  BY DEF TypeOK, StreamsType
<1>7. \A x \in DOMAIN streams' : HeldAt(x)'
  BY <1>1, <1>2, <1>5, <1>6, TouchesKeepsHeld
<1>8. KeptOutput'
  <2>1. CASE Closes(f)
    <3>1. output_buf' = <<Closed(id)>>
      BY <2>1 DEF DataArrives
    <3>2. id \in DOMAIN streams' => ~Receives(streams'[id])
      BY <2>1 DEF DataArrives, Receives
    <3>3. id % 2 = 1 => id < next_stream_id'
      BY <1>1, <1>2 DEF OwnIds
    <3>4. QED
      BY <1>2, <3>1, <3>2, <3>3 DEF KeptOutput
  <2>2. CASE ~Closes(f)
    BY <2>2 DEF DataArrives, KeptOutput
  <2>3. QED
    BY <2>1, <2>2
<1>9. QED
  BY <1>1, <1>7, <1>8 DEF ServiceInv

LEMMA UpdateKeepsService ==
    ASSUME TypeOK, TypeOK', ServiceInv, NEW f, ReadFrame(f), UpdateArrives(f), UNCHANGED output_buf
    PROVE  ServiceInv'
<1> DEFINE id == f.stream_id
<1>1. /\ writer # "Pass" /\ UNCHANGED <<streams_to_remove, writer, next_stream_id>>
      /\ output_buf = <<>>
  BY ReadFrameFacts
<1>2. Touches(id) /\ id \in StreamIds /\ id \in DOMAIN streams
  BY DEF UpdateArrives
<1>3. HeldAt(id)
  BY <1>2 DEF ServiceInv
<1>4. ASSUME id \in DOMAIN streams'
      PROVE  HeldAt(id)'
  <2>1. CASE Closes(f)
    BY <1>4, <2>1 DEF UpdateArrives, HeldAt
  <2>2. CASE ~Closes(f)
    BY <1>1, <1>3, <2>2 DEF UpdateArrives, HeldAt, Usable, BeingReset, Receives, NoEnd
  <2>3. QED
    BY <2>1, <2>2
<1>5. StreamsType'
  BY DEF TypeOK, StreamsType
<1>6. \A x \in DOMAIN streams' : HeldAt(x)'
  BY <1>1, <1>2, <1>4, <1>5, TouchesKeepsHeld
<1>7. QED
  BY <1>1, <1>6 DEF ServiceInv, KeptOutput

LEMMA ReadsKeepService ==
    ASSUME TypeOK, TypeOK', OwnIds, ServiceInv, Reads
    PROVE  ServiceInv'
<1>0. StreamsType'
  BY DEF TypeOK, StreamsType
<1>1. CASE take_output_buf
  <2>1. /\ output_buf' = <<>> /\ writer # "Pass"
        /\ UNCHANGED <<streams, streams_to_remove, writer>>
        /\ \E id \in StreamIds : HandsClosed(id) \/ \E n \in 1..MAX_FRAME_SIZE : HandsData(id, n)
    BY <1>1, TakeOutputFacts DEF ServiceInv
  <2>2. PICK id \in StreamIds : HandsClosed(id) \/ \E n \in 1..MAX_FRAME_SIZE : HandsData(id, n)
    BY <2>1
  <2>3. Touches(id)
    BY <2>2 DEF HandsClosed, HandsData
  <2>4. ASSUME id \in DOMAIN streams'
        PROVE  HeldAt(id)'
    <3>1. HeldAt(id) /\ streams'[id] = streams[id]
      BY <2>1, <2>4 DEF ServiceInv
    <3>2. CASE HandsClosed(id)
      BY <2>1, <2>4, <3>1, <3>2 DEF HandsClosed, HeldAt, Receives
    <3>3. CASE \E n \in 1..MAX_FRAME_SIZE : HandsData(id, n)
      <4>1. log'[id].hold = log[id].hold
        BY <3>3 DEF HandsData
      <4>2. QED
        BY <2>1, <3>1, <4>1 DEF HeldAt, Usable, BeingReset, Receives, NoEnd
    <3>4. QED
      BY <2>2, <3>2, <3>3
  <2>5. \A x \in DOMAIN streams' : HeldAt(x)'
    BY <1>0, <2>1, <2>3, <2>4, TouchesKeepsHeld
  <2>6. QED
    BY <2>1, <2>5 DEF ServiceInv, KeptOutput
<1>2. ASSUME UNCHANGED <<streams, log, output_buf, streams_to_remove, writer, next_stream_id>>
      PROVE  ServiceInv'
  BY <1>2 DEF ServiceInv, KeptOutput, HeldAt, Usable, BeingReset, Receives, NoEnd
<1>3. CASE read_error
  BY <1>2, <1>3 DEF read_error, Finish, ReadHeader, Reading, pass
<1>4. ASSUME NEW f \in PeerFrames, ReadFrame(f)
      PROVE  ServiceInv'
  <2>1. /\ writer # "Pass" /\ output_buf = <<>>
        /\ UNCHANGED <<streams_to_remove, writer, next_stream_id>>
    BY <1>4, ReadFrameFacts
  <2>2. CASE NegotiateAccepts(f) /\ (read_data(f) \/ read_update(f))
    BY <1>4, <2>2, ReadDataOpens, ReadUpdateOpens, OpeningKeepsService
  <2>3. CASE ~NegotiateAccepts(f) /\ read_data(f)
    BY <1>4, <2>3, ReadDataArrives, DataKeepsService
  <2>4. CASE ~NegotiateAccepts(f) /\ read_update(f)
    <3>1. UNCHANGED output_buf
      BY <2>4 DEF read_update
    <3>2. QED
      BY <1>4, <2>4, <3>1, ReadUpdateArrives, UpdateKeepsService
  <2>5. CASE read_session_frame_on_stream(f)
    <3>1. f.stream_id \in StreamIds /\ StreamReset(f.stream_id) /\ UNCHANGED output_buf
      BY <2>5, SessionFrameFacts
    <3>2. PICK id \in StreamIds : id = f.stream_id
      BY <3>1
    <3>3. id \in DOMAIN streams' => HeldAt(id)'
      BY <3>1, <3>2 DEF StreamReset, HeldAt, BeingReset, Receives
    <3>4. \A x \in DOMAIN streams' : HeldAt(x)'
      BY <1>0, <2>1, <3>1, <3>2, <3>3, TouchesKeepsHeld DEF StreamReset
    <3>5. QED
      BY <2>1, <3>1, <3>4 DEF ServiceInv, KeptOutput
  <2>6. CASE ~read_data(f) /\ ~read_update(f) /\ ~read_session_frame_on_stream(f)
    BY <1>2, <1>4, <2>1, <2>6, QuietFrame
  <2>7. QED
    BY <2>2, <2>3, <2>4, <2>5, <2>6
<1>5. QED
  BY <1>1, <1>3, <1>4 DEF Reads

(* A write round takes one message from a queue. *)

LEMMA NoEndParts ==
    ASSUME NEW q \in Seq(BufferedOutboundMessage), q # <<>>, NoEnd(q), NEW m, m.kind = "Data"
    PROVE  /\ Head(q).kind \notin {"Close", "Reset"}
           /\ NoEnd(Tail(q))
           /\ NoEnd(Append(Tail(q), Head(q)))
           /\ NoEnd(<<m>> \o Tail(q))
<1>1. Head(q).kind \notin {"Close", "Reset"}
  BY DEF NoEnd
<1>2. NoEnd(Tail(q)) /\ Tail(q) \in Seq(BufferedOutboundMessage)
  BY DEF NoEnd
<1>3. \A t \in Seq(BufferedOutboundMessage) : \A x :
         NoEnd(t) /\ x.kind \notin {"Close", "Reset"} => NoEnd(Append(t, x))
  BY DEF NoEnd
<1>4. NoEnd(<<m>> \o Tail(q))
  <2>1. PICK t \in Seq(BufferedOutboundMessage) : t = Tail(q) /\ NoEnd(t)
    BY <1>2
  <2>2. NoEnd(<<m>> \o t)
    BY <2>1 DEF NoEnd
  <2>3. QED
    BY <2>1, <2>2
<1>5. QED
  BY <1>1, <1>2, <1>3, <1>4

LEMMA RoundKeepsUsable ==
    ASSUME NEW s \in StreamState, s.open_state \in {"Open", "FinByThem"}, NoEnd(s.outbound_buf)
    PROVE  /\ AfterRound(s).open_state = s.open_state
           /\ NoEnd(AfterRound(s).outbound_buf)
           /\ Pending(s) => Head(s.outbound_buf).kind # "Reset"
<1> DEFINE q == s.outbound_buf
           m == Head(q)
<1>1. q \in Seq(BufferedOutboundMessage)
  BY DEF StreamState
<1>2. CASE ~Pending(s)
  BY <1>2 DEF AfterRound, Starved
<1>3. CASE Pending(s)
  <2>1. q # <<>>
    BY <1>3 DEF Pending
  <2>2. /\ m.kind \notin {"Close", "Reset"} /\ NoEnd(Tail(q)) /\ NoEnd(Append(Tail(q), m))
        /\ \A x : NoEnd(<<DataMessage(x)>> \o Tail(q))
    <3>1. \A x : DataMessage(x).kind = "Data"
      BY DEF DataMessage
    <3>2. QED
      BY <1>1, <2>1, <3>1, NoEndParts
  <2>3. PICK t, w : /\ AfterRound(s) = [s EXCEPT !.send_window = w, !.outbound_buf = t]
                    /\ NoEnd(t)
    <3>1. CASE Starved(s)
      <4>1. AfterRound(s) = [s EXCEPT !.outbound_buf = Append(Tail(q), m)]
        <5>1. m.kind = "Data"
          BY <3>1 DEF Starved
        <5>2. AfterRound(s) = PutBack(s)
          BY <1>3, <3>1, <5>1 DEF AfterRound
        <5>3. QED
          BY <5>2 DEF PutBack
      <4>2. AfterRound(s) = [s EXCEPT !.send_window = s.send_window,
                                      !.outbound_buf = Append(Tail(q), m)]
        BY <4>1 DEF StreamState
      <4>3. QED
        BY <2>2, <4>2
    <3>2. CASE ~Starved(s) /\ m.kind = "Data"
      <4> DEFINE n == BytesToSend(s, m)
                 t == IF n = Len(m.bytes) THEN Tail(q)
                      ELSE <<DataMessage(SubSeq(m.bytes, n + 1, Len(m.bytes)))>> \o Tail(q)
      <4>1. AfterRound(s) = [s EXCEPT !.send_window = SaturatingSub(@, n), !.outbound_buf = t]
        BY <1>3, <3>2 DEF AfterRound, AfterSend
      <4>2. NoEnd(t)
        BY <2>2
      <4> HIDE DEF t
      <4>3. QED
        BY <4>1, <4>2
    <3>3. CASE m.kind # "Data"
      <4>1. AfterRound(s) = [s EXCEPT !.outbound_buf = Tail(q)]
        BY <1>3, <2>2, <3>3 DEF AfterRound, Starved
      <4>2. AfterRound(s) = [s EXCEPT !.send_window = s.send_window, !.outbound_buf = Tail(q)]
        BY <4>1 DEF StreamState
      <4>3. QED
        BY <2>2, <4>2
    <3>4. QED
      BY <3>1, <3>2, <3>3
  <2>4. QED
    BY <2>2, <2>3 DEF StreamState
<1>4. QED
  BY <1>2, <1>3

LEMMA RoundOfReset ==
    ASSUME NEW s \in StreamState, s.outbound_buf = <<Control("Reset")>>
    PROVE  /\ AfterRound(s).open_state = s.open_state
           /\ AfterRound(s).outbound_buf = <<>>
           /\ RoundWrites(s) # <<>>
           /\ Pending(s) /\ Head(s.outbound_buf).kind = "Reset"
<1>1. Pending(s) /\ Head(s.outbound_buf).kind = "Reset" /\ Tail(s.outbound_buf) = <<>>
  BY DEF Pending, Control
<1>2. ~Starved(s)
  BY <1>1 DEF Starved
<1>3. AfterRound(s) = [s EXCEPT !.outbound_buf = Tail(s.outbound_buf)]
  BY <1>1, <1>2 DEF AfterRound
<1>4. RoundWrites(s) = <<Head(s.outbound_buf)>>
  BY <1>1, <1>2 DEF RoundWrites
<1>5. QED
  BY <1>1, <1>3, <1>4 DEF StreamState

LEMMA RoundOfIdle ==
    ASSUME NEW s, s.outbound_buf = <<>>
    PROVE  AfterRound(s) = s
BY DEF AfterRound, Pending, Starved

LEMMA RoundReceives ==
    ASSUME NEW s \in StreamState, Receives(AfterRound(s))
    PROVE  Receives(s)
BY RoundFacts DEF RoundOK, Receives, SetFinByUs, StreamState

\* A step of the write pass changes no output, and takes no hold away.
LEMMA PassKeepsOutput ==
    ASSUME TypeOK, KeptOutput, UNCHANGED <<output_buf, next_stream_id>>,
           \A id \in StreamIds : log'[id].hold = log[id].hold,
           \A id \in DOMAIN streams' :
              id \in DOMAIN streams /\ streams'[id] = AfterRound(streams[id])
    PROVE  KeptOutput'
<1>1. \A id \in DOMAIN streams' : Receives(streams'[id]) => Receives(streams[id])
  BY RoundReceives DEF TypeOK
<1>2. CASE output_buf = <<>>
  BY <1>2 DEF KeptOutput
<1>3. CASE \E id \in StreamIds, n \in 1..MAX_FRAME_SIZE :
             output_buf = <<DataOut(id, n)>> /\ id % 2 = 0 /\ log[id].hold # "none"
  BY <1>3 DEF KeptOutput
<1>4. CASE \E id \in StreamIds :
             /\ output_buf = <<Closed(id)>>
             /\ id % 2 = 1 => id < next_stream_id
             /\ id \in DOMAIN streams => ~Receives(streams[id])
  BY <1>1, <1>4 DEF KeptOutput
<1>5. QED
  BY <1>2, <1>3, <1>4 DEF KeptOutput

LEMMA RoundHolds ==
    ASSUME TypeOK, write_round
    PROVE  \A id \in StreamIds : log'[id].hold = log[id].hold /\ SameReceipts(log[id], log'[id])
<1> SUFFICES ASSUME NEW id \in StreamIds
             PROVE  log'[id].hold = log[id].hold /\ SameReceipts(log[id], log'[id])
  OBVIOUS
<1>1. log[id] \in History
  BY DEF TypeOK
<1>2. CASE id \in DOMAIN streams
  <2>1. PICK w, n : log'[id] = [log[id] EXCEPT !.wire = w, !.sent = n]
    BY <1>2 DEF write_round
  <2>2. QED
    BY <1>1, <2>1 DEF History, SameReceipts
<1>3. CASE id \notin DOMAIN streams
  BY <1>3 DEF write_round, SameReceipts
<1>4. QED
  BY <1>2, <1>3

LEMMA RoundKeepsService ==
    ASSUME TypeOK, ServiceInv, write_round
    PROVE  ServiceInv'
<1>1. \A id \in StreamIds : log'[id].hold = log[id].hold
  BY RoundHolds
<1>2. /\ streams' = [id \in DOMAIN streams |-> AfterRound(streams[id])]
      /\ streams_to_remove' = streams_to_remove \cup Removals
      /\ writer' = "Pass" /\ UNCHANGED <<output_buf, next_stream_id>>
  BY DEF write_round
<1>3. ASSUME NEW id \in DOMAIN streams'
      PROVE  HeldAt(id)'
  <2>1. /\ id \in DOMAIN streams /\ id \in StreamIds /\ streams[id] \in StreamState
        /\ streams'[id] = AfterRound(streams[id]) /\ HeldAt(id)
    BY <1>2 DEF TypeOK, ServiceInv
  <2>2. ASSUME Usable(id)
        PROVE  Usable(id)'
    <3>1. /\ streams'[id].open_state \in {"Open", "FinByThem"} /\ NoEnd(streams'[id].outbound_buf)
          /\ id \notin Removals /\ id \notin streams_to_remove
      BY <2>1, <2>2, RoundKeepsUsable DEF Usable, Removals
    <3>2. QED
      BY <1>2, <3>1 DEF Usable
  <2>3. ASSUME BeingReset(id)
        PROVE  BeingReset(id)'
    <3>1. CASE streams[id].outbound_buf = <<Control("Reset")>>
      <4>1. streams'[id].open_state = "Reset" /\ streams'[id].outbound_buf = <<>> /\ id \in Removals
        BY <2>1, <2>3, <3>1, RoundOfReset DEF BeingReset, Removals
      <4>2. QED
        BY <1>2, <4>1 DEF BeingReset
    <3>2. CASE streams[id].outbound_buf = <<>> /\ id \in streams_to_remove
      BY <1>2, <2>1, <2>3, <3>2, RoundOfIdle DEF BeingReset
    <3>3. QED
      BY <2>3, <3>1, <3>2 DEF BeingReset
  <2>4. Receives(streams'[id]) => Receives(streams[id])
    BY <2>1, RoundReceives
  <2>5. QED
    BY <1>1, <2>1, <2>2, <2>3, <2>4 DEF HeldAt
<1>4. KeptOutput'
  BY <1>1, <1>2, PassKeepsOutput DEF ServiceInv
<1>5. QED
  BY <1>2, <1>3, <1>4 DEF ServiceInv

LEMMA PassEndKeepsService ==
    ASSUME TypeOK, ServiceInv, write_pass_end
    PROVE  ServiceInv'
<1>1. UNCHANGED <<output_buf, next_stream_id, log>> /\ streams_to_remove' = {}
  BY DEF write_pass_end
<1>2. \A id \in DOMAIN streams' :
         /\ id \in DOMAIN streams /\ id \notin streams_to_remove
         /\ streams'[id] = AfterRound(streams[id])
  BY DEF write_pass_end, Without
<1>3. ASSUME NEW id \in DOMAIN streams'
      PROVE  HeldAt(id)'
  <2>1. streams[id] \in StreamState /\ HeldAt(id) /\ streams'[id] = AfterRound(streams[id])
    BY <1>2 DEF TypeOK, ServiceInv
  <2>2. ~BeingReset(id)
    <3>1. RoundWrites(streams[id]) = <<>>
      BY <1>2 DEF write_pass_end, WritesSomething
    <3>2. QED
      BY <1>2, <2>1, <3>1, RoundOfReset DEF BeingReset
  <2>3. ASSUME Usable(id)
        PROVE  Usable(id)'
    BY <1>1, <2>1, <2>3, RoundKeepsUsable DEF Usable
  <2>4. Receives(streams'[id]) => Receives(streams[id])
    BY <2>1, RoundReceives
  <2>5. QED
    BY <1>1, <2>1, <2>2, <2>3, <2>4 DEF HeldAt
<1>4. KeptOutput'
  BY <1>1, <1>2, PassKeepsOutput DEF ServiceInv
<1>5. QED
  BY <1>1, <1>3, <1>4 DEF ServiceInv

LEMMA WritesKeepService ==
    ASSUME TypeOK, ServiceInv, Writes \/ write_error
    PROVE  ServiceInv'
<1>1. CASE write_begin \/ write_global_done \/ write_bulk_done \/ write_error
  <2>1. UNCHANGED <<streams, log, output_buf, streams_to_remove, next_stream_id>>
    BY <1>1 DEF write_begin, write_global_done, write_bulk_done, write_error, shared, pass
  <2>2. writer' # "Pass" => streams_to_remove = {}
    BY <1>1 DEF write_begin, Awake, write_global_done, write_bulk_done, write_error, pass, ServiceInv
  <2>3. QED
    BY <2>1, <2>2 DEF ServiceInv, KeptOutput, HeldAt, Usable, BeingReset, Receives, NoEnd
<1>2. QED
  BY <1>1, RoundKeepsService, PassEndKeepsService DEF Writes

LEMMA ServiceInvariant == Spec => []ServiceInv
<1>1. Init => ServiceInv
  BY DEF Init, ServiceInv, KeptOutput
<1>2. TypeOK /\ TypeOK' /\ OwnIds /\ ServiceInv /\ [Next]_vars => ServiceInv'
  <2> SUFFICES ASSUME TypeOK, TypeOK', OwnIds, ServiceInv, [Next]_vars
               PROVE  ServiceInv'
    OBVIOUS
  <2>1. CASE UNCHANGED vars
    BY <2>1 DEF vars, shared, pass, ServiceInv, KeptOutput, HeldAt, Usable, BeingReset, Receives, NoEnd
  <2>2. QED
    BY <2>1, CallsKeepService, ReadsKeepService, WritesKeepService DEF Next
<1>3. QED
  BY <1>1, <1>2, TypeCorrect, OwnIdsInvariant, PTL DEF Spec

-----------------------------------------------------------------------------

(* Closes are reported.  CloseReported is inductive, given what the output   *)
(* that is kept can be.                                                      *)

LEMMA CallHold ==
    ASSUME TypeOK, NEW id \in StreamIds, CallOn(id)
    PROVE  \/ log'[id].hold = log[id].hold
           \/ log'[id].hold = "none"
           \/ log[id].hold # "none"
<1>1. LogType /\ log[id] \in History
  BY DEF TypeOK, LogType
<1>2. ASSUME NEW n, send_data(id, n)
      PROVE  log[id].hold # "none"
  BY <1>2 DEF send_data, MayCall
<1>3. CASE close_stream(id) \/ close_stream_immediately(id)
  BY <1>3 DEF close_stream, close_stream_immediately, MayCall
<1>4. CASE send_data_not_found(id)
  BY <1>4 DEF send_data_not_found
<1>5. CASE reset_stream_immediately(id)
  BY <1>1, <1>5 DEF reset_stream_immediately, LogType, History
<1>6. QED
  BY <1>2, <1>3, <1>4, <1>5 DEF CallOn

LEMMA TouchesKeepsClose ==
    ASSUME CloseReported, NEW id \in StreamIds, Touches(id),
           output_buf = <<>> \/ output_buf' = output_buf \/ output_buf = <<Closed(id)>>
              \/ \E n : output_buf = <<DataOut(id, n)>>,
           log'[id].fin => log'[id].hold = "none" \/ output_buf' = <<Closed(id)>>
    PROVE  CloseReported'
<1> SUFFICES ASSUME NEW x \in StreamIds, x # id, log'[x].fin
             PROVE  log'[x].hold = "none" \/ output_buf' = <<Closed(x)>>
  BY DEF CloseReported
<1>1. log'[x] = log[x]
  BY DEF Touches
<1>2. log[x].hold = "none" \/ output_buf = <<Closed(x)>>
  BY <1>1 DEF CloseReported
<1>3. Closed(x) # Closed(id) /\ \A n : Closed(x) # DataOut(id, n)
  BY DEF Closed, DataOut
<1>4. QED
  BY <1>1, <1>2, <1>3

LEMMA CallsReportClose ==
    ASSUME TypeOK, OwnIds, CloseReported, Calls
    PROVE  CloseReported'
<1>1. CASE open_stream
  <2>1. PICK id \in StreamIds : id = next_stream_id
    BY <1>1, OpenFacts
  <2>2. /\ Touches(id) /\ log'[id] = [NewHistory EXCEPT !.hold = "open"]
        /\ UNCHANGED output_buf
    BY <1>1, <2>1, OpenFacts
  <2>3. ~log'[id].fin
    BY <2>2 DEF NewHistory
  <2>4. QED
    BY <2>2, <2>3, TouchesKeepsClose
<1>2. ASSUME NEW id \in StreamIds, CallOn(id)
      PROVE  CloseReported'
  <2>1. Called(id)
    BY <1>2, CallEffects
  <2>2. Touches(id) /\ log'[id].fin = log[id].fin /\ UNCHANGED output_buf
    BY <2>1 DEF Called, SameReceipts
  <2>3. log[id].fin => log[id].hold = "none" \/ output_buf = <<Closed(id)>>
    BY DEF CloseReported
  <2>4. log'[id].fin => log'[id].hold = "none" \/ output_buf' = <<Closed(id)>>
    BY <1>2, <2>2, <2>3, CallHold
  <2>5. QED
    BY <2>2, <2>4, TouchesKeepsClose
<1>3. QED
  BY <1>1, <1>2 DEF Calls, CallOn

LEMMA ReadsReportClose ==
    ASSUME TypeOK, ServiceInv, CloseReported, Reads
    PROVE  CloseReported'
<1>1. CASE take_output_buf
  <2>1. PICK id \in StreamIds : HandsClosed(id) \/ \E n \in 1..MAX_FRAME_SIZE : HandsData(id, n)
    BY <1>1, TakeOutputFacts DEF ServiceInv
  <2>2. CASE HandsClosed(id)
    BY <2>2, TouchesKeepsClose DEF HandsClosed
  <2>3. CASE \E n \in 1..MAX_FRAME_SIZE : HandsData(id, n)
    <3>1. PICK n \in 1..MAX_FRAME_SIZE : HandsData(id, n)
      BY <2>3
    <3>2. Touches(id) /\ output_buf = <<DataOut(id, n)>> /\ log'[id].fin = log[id].fin
          /\ log'[id].hold = log[id].hold
      BY <3>1 DEF HandsData
    <3>3. output_buf # <<Closed(id)>>
      BY <3>2 DEF DataOut, Closed
    <3>4. log'[id].fin => log'[id].hold = "none"
      BY <3>2, <3>3 DEF CloseReported
    <3>5. QED
      BY <3>2, <3>4, TouchesKeepsClose
  <2>4. QED
    BY <2>1, <2>2, <2>3
<1>2. CASE read_error
  BY <1>2 DEF read_error, Finish, CloseReported
<1>3. ASSUME NEW f \in PeerFrames, ReadFrame(f)
      PROVE  CloseReported'
  <2>1. output_buf = <<>>
    BY <1>3, ReadFrameFacts
  <2>2. \A x \in StreamIds : log[x].fin => log[x].hold = "none"
    BY <2>1 DEF CloseReported
  <2>3. CASE NegotiateAccepts(f) /\ (read_data(f) \/ read_update(f))
    <3>1. \E n : OpensStream(f.stream_id, n)
      BY <1>3, <2>3, ReadDataOpens, ReadUpdateOpens
    <3>2. f.stream_id \in StreamIds /\ Touches(f.stream_id) /\ ~log'[f.stream_id].fin
      BY <3>1 DEF OpensStream
    <3>3. QED
      BY <2>1, <3>2, TouchesKeepsClose
  <2>4. CASE ~NegotiateAccepts(f) /\ read_data(f)
    <3>1. DataArrives(f)
      BY <1>3, <2>4, ReadDataArrives
    <3>2. PICK id \in StreamIds : id = f.stream_id
      BY <3>1 DEF DataArrives
    <3>3. /\ Touches(id) /\ log'[id].hold = log[id].hold /\ log'[id].fin = (log[id].fin \/ Closes(f))
          /\ Closes(f) => output_buf' = <<Closed(id)>>
      BY <3>1, <3>2 DEF DataArrives
    <3>4. log'[id].fin => log'[id].hold = "none" \/ output_buf' = <<Closed(id)>>
      BY <2>2, <3>3
    <3>5. QED
      BY <2>1, <3>3, <3>4, TouchesKeepsClose
  <2>5. CASE ~NegotiateAccepts(f) /\ read_update(f)
    <3>1. UpdateArrives(f)
      BY <1>3, <2>5, ReadUpdateArrives
    <3>2. PICK id \in StreamIds : id = f.stream_id
      BY <3>1 DEF UpdateArrives
    <3>3. /\ Touches(id) /\ log'[id].fin = (log[id].fin \/ Closes(f))
          /\ Closes(f) => log'[id].hold = "none"
          /\ ~Closes(f) => log'[id].hold = log[id].hold
      BY <3>1, <3>2 DEF UpdateArrives
    <3>4. log'[id].fin => log'[id].hold = "none"
      BY <2>2, <3>3
    <3>5. QED
      BY <2>1, <3>3, <3>4, TouchesKeepsClose
  <2>6. CASE read_session_frame_on_stream(f)
    <3>1. PICK id \in StreamIds : id = f.stream_id /\ StreamReset(id)
      BY <2>6, SessionFrameFacts
    <3>2. Touches(id) /\ log'[id].hold = log[id].hold /\ log'[id].fin = log[id].fin
      BY <3>1 DEF StreamReset, SameReceipts
    <3>3. QED
      BY <2>1, <2>2, <3>2, TouchesKeepsClose
  <2>7. CASE ~read_data(f) /\ ~read_update(f) /\ ~read_session_frame_on_stream(f)
    BY <1>3, <2>7, QuietFrame DEF CloseReported
  <2>8. QED
    BY <2>3, <2>4, <2>5, <2>6, <2>7
<1>4. QED
  BY <1>1, <1>2, <1>3 DEF Reads

\* Whenever the remote has closed a stream, by Fin or Rst on either type of
\* frame and with or without data, read_next has told the layer above, or does
\* so in its next turn, or the layer above had reset the stream.
THEOREM CloseReportedTheorem == Spec => []CloseReported
<1>1. Init => CloseReported
  BY DEF Init, CloseReported, NewHistory
<1>2. TypeOK /\ OwnIds /\ ServiceInv /\ CloseReported /\ [Next]_vars => CloseReported'
  <2> SUFFICES ASSUME TypeOK, OwnIds, ServiceInv, CloseReported, [Next]_vars
               PROVE  CloseReported'
    OBVIOUS
  <2>1. CASE UNCHANGED vars
    BY <2>1 DEF vars, shared, CloseReported
  <2>2. CASE write_round
    BY <2>2, RoundHolds DEF write_round, SameReceipts, CloseReported
  <2>3. CASE write_begin \/ write_global_done \/ write_pass_end \/ write_bulk_done \/ write_error
    BY <2>3 DEF write_begin, write_global_done, write_pass_end, write_bulk_done, write_error,
         shared, CloseReported
  <2>4. QED
    BY <2>1, <2>2, <2>3, CallsReportClose, ReadsReportClose DEF Next, Writes
<1>3. QED
  BY <1>1, <1>2, TypeCorrect, OwnIdsInvariant, ServiceInvariant, PTL DEF Spec

-----------------------------------------------------------------------------

(* What is delivered.  The bytes of a stream are numbered from one as they   *)
(* arrive: what was handed out is the first of them, in order, and only the  *)
(* data that opened a stream can be waiting, untouched, in inbound_buf.      *)

Numbered(n) == [k \in 1..n |-> k]

Waits(id) == \E n : output_buf = <<DataOut(id, n)>>

DeliveredAt(id) ==
    /\ ~Waits(id) => log[id].delivered = Numbered(log[id].received)
    /\ Waits(id) =>
          /\ log[id].delivered = <<>>
          /\ output_buf = <<DataOut(id, log[id].received)>>
          /\ log[id].received \in 1..MAX_FRAME_SIZE
          /\ \A k \in 1..log[id].received : inbound_buf[k] = k

Delivery == \A id \in StreamIds : DeliveredAt(id)

LEMMA NumberedExtends ==
    ASSUME NEW max \in Nat, NEW buf \in [1..max -> Nat], NEW n \in Nat, NEW m \in Nat, m <= max,
           \A k \in 1..m : buf[k] = n + k
    PROVE  Numbered(n) \o SubSeq(buf, 1, m) = Numbered(n + m)
<1>1. buf \in Seq(Nat) /\ Len(buf) = max
  OBVIOUS
<1>2. Numbered(n) \in Seq(Nat) /\ Len(Numbered(n)) = n /\ \A k \in 1..n : Numbered(n)[k] = k
  BY DEF Numbered
<1>3. PICK t \in Seq(Nat) : t = SubSeq(buf, 1, m)
  <2>1. SubSeq(buf, 1, m) \in Seq(Nat)
    BY <1>1
  <2>2. QED
    BY <2>1
<1>4. Len(t) = m /\ \A k \in 1..m : t[k] = n + k
  BY <1>1, <1>3
<1>5. PICK u : u = Numbered(n)
  OBVIOUS
<1>6. PICK v : v = u \o t
  OBVIOUS
<1>7. v \in Seq(Nat) /\ Len(v) = n + m
  BY <1>2, <1>4, <1>5, <1>6
<1>8. ASSUME NEW k \in 1..(n + m)
      PROVE  v[k] = k
  <2>1. CASE k <= n
    BY <1>2, <1>4, <1>5, <1>6, <2>1
  <2>2. CASE k > n
    <3>1. v[k] = t[k - n] /\ k - n \in 1..m
      BY <1>2, <1>4, <1>5, <1>6, <2>2
    <3>2. QED
      BY <1>4, <3>1
  <2>3. QED
    BY <2>1, <2>2
<1>9. v = [k \in 1..(n + m) |-> k]
  BY <1>7, <1>8
<1>10. QED
  BY <1>3, <1>5, <1>6, <1>9 DEF Numbered

LEMMA NumberedStarts ==
    ASSUME NEW max \in Nat, NEW buf \in [1..max -> Nat], NEW m \in Nat, m <= max,
           \A k \in 1..m : buf[k] = k
    PROVE  <<>> \o SubSeq(buf, 1, m) = Numbered(m)
<1>1. PICK z \in Nat : z = 0
  OBVIOUS
<1>2. \A k \in 1..m : buf[k] = z + k
  BY <1>1
<1>3. Numbered(z) \o SubSeq(buf, 1, m) = Numbered(z + m)
  BY ZenonT(40), <1>2, NumberedExtends
<1>4. Numbered(z) = <<>> /\ z + m = m
  BY <1>1 DEF Numbered
<1>5. QED
  BY <1>3, <1>4

LEMMA WaitsDistinct ==
    ASSUME NEW x, NEW y, x # y
    PROVE  /\ \A m, n : DataOut(x, m) # DataOut(y, n)
           /\ \A n : Closed(x) # DataOut(y, n)
           /\ \A n : Closed(x) # DataOut(x, n)
BY DEF DataOut, Closed

\* What a step that touches one stream has to show for it.
LEMMA TouchesKeepsDelivery ==
    ASSUME Delivery, NEW id \in StreamIds, Touches(id), DeliveredAt(id)',
           \/ UNCHANGED <<output_buf, inbound_buf>>
           \/ output_buf = <<>> \/ output_buf = <<Closed(id)>> \/ Waits(id),
           \/ UNCHANGED output_buf
           \/ output_buf' = <<>> \/ output_buf' = <<Closed(id)>> \/ Waits(id)'
    PROVE  Delivery'
<1> SUFFICES ASSUME NEW x \in StreamIds, x # id
             PROVE  DeliveredAt(x)'
  BY DEF Delivery
<1>1. log'[x] = log[x] /\ DeliveredAt(x)
  BY DEF Touches, Delivery
<1>2. CASE UNCHANGED <<output_buf, inbound_buf>>
  BY <1>1, <1>2 DEF DeliveredAt, Waits
<1>3. CASE ~UNCHANGED <<output_buf, inbound_buf>>
  <2>1. \A n, m : <<DataOut(x, n)>> # <<DataOut(id, m)>>
    BY WaitsDistinct
  <2>2. \A n : <<DataOut(x, n)>> # <<Closed(id)>>
    BY WaitsDistinct
  <2>3. \A n : <<DataOut(x, n)>> # <<>>
    OBVIOUS
  <2>4. ~Waits(x)
    BY <1>3, <2>1, <2>2, <2>3 DEF Waits
  <2>5. ~Waits(x)'
    BY <2>1, <2>2, <2>3, <2>4 DEF Waits
  <2>6. QED
    BY <1>1, <2>4, <2>5 DEF DeliveredAt
<1>4. QED
  BY <1>2, <1>3

LEMMA CallsKeepDelivery ==
    ASSUME TypeOK, OwnIds, ServiceInv, Delivery, Calls
    PROVE  Delivery'
<1>1. CASE open_stream
  <2>1. PICK id \in StreamIds : id = next_stream_id
    BY <1>1, OpenFacts
  <2>2. /\ Touches(id) /\ log'[id] = [NewHistory EXCEPT !.hold = "open"] /\ id % 2 = 1
        /\ UNCHANGED <<output_buf, inbound_buf>>
    BY <1>1, <2>1, OpenFacts
  <2>3. log'[id].delivered = <<>> /\ log'[id].received = 0
    BY <2>2 DEF NewHistory
  <2>4. ~Waits(id)
    <3>1. SUFFICES ASSUME NEW n, output_buf = <<DataOut(id, n)>>
                   PROVE  FALSE
      BY DEF Waits
    <3>2. ASSUME NEW x, NEW m, output_buf = <<DataOut(x, m)>>
          PROVE  x = id
      BY <3>1, <3>2, WaitsDistinct
    <3>3. ASSUME NEW x, output_buf = <<Closed(x)>>
          PROVE  FALSE
      BY <3>1, <3>3 DEF Closed, DataOut
    <3>4. output_buf # <<>>
      BY <3>1
    <3>5. QED
      BY <2>2, <3>2, <3>3, <3>4 DEF ServiceInv, KeptOutput
  <2>5. <<>> = Numbered(0)
    BY DEF Numbered
  <2>6. DeliveredAt(id)'
    BY <2>2, <2>3, <2>4, <2>5 DEF DeliveredAt, Waits
  <2>7. QED
    BY <2>2, <2>6, TouchesKeepsDelivery
<1>2. ASSUME NEW id \in StreamIds, CallOn(id)
      PROVE  Delivery'
  <2>1. Called(id)
    BY <1>2, CallEffects
  <2>2. Touches(id) /\ SameReceipts(log[id], log'[id]) /\ UNCHANGED <<output_buf, inbound_buf>>
    BY <2>1 DEF Called
  <2>3. DeliveredAt(id)'
    BY <2>2 DEF Delivery, DeliveredAt, Waits, SameReceipts
  <2>4. QED
    BY <2>2, <2>3, TouchesKeepsDelivery
<1>3. QED
  BY <1>1, <1>2 DEF Calls, CallOn

LEMMA PayloadArrives ==
    ASSUME TypeOK, NEW f \in PeerFrames, ReadBody(f), NEW n \in Nat,
           n = IF f.stream_id \in DOMAIN streams THEN log[f.stream_id].received ELSE 0
    PROVE  \A k \in 1..f.length : inbound_buf'[k] = n + k
<1>1. f.length \in Nat /\ f.length <= MAX_FRAME_SIZE /\ MAX_FRAME_SIZE \in Nat
  BY PeerFrameType, YamuxConstants DEF ReadBody
<1>2. Payload(f) = [k \in 1..f.length |-> n + k]
  BY DEF Payload
<1>3. SUFFICES ASSUME NEW k \in 1..f.length
               PROVE  inbound_buf'[k] = n + k
  OBVIOUS
<1>4. k \in 1..MAX_FRAME_SIZE /\ k <= f.length
  BY <1>1
<1>5. inbound_buf'[k] = Payload(f)[k]
  BY <1>4 DEF ReadBody
<1>6. QED
  BY <1>2, <1>5

LEMMA OpeningKeepsDelivery ==
    ASSUME TypeOK, Delivery, NEW f \in PeerFrames, ReadFrame(f), NegotiateAccepts(f),
           read_data(f) \/ read_update(f)
    PROVE  Delivery'
<1>1. PICK n : OpensStream(f.stream_id, n) /\ (read_data(f) => n = f.length)
                  /\ (~read_data(f) => n = 0)
  BY ReadDataOpens, ReadUpdateOpens
<1>2. PICK id \in StreamIds : id = f.stream_id
  BY <1>1 DEF OpensStream
<1>3. /\ Touches(id) /\ id \notin DOMAIN streams
      /\ log'[id].received = n /\ log'[id].delivered = <<>>
  BY <1>1, <1>2 DEF OpensStream
<1>4. output_buf = <<>>
  BY ReadFrameFacts
<1>5. CASE output_buf' = <<>>
  <2>1. n = 0
    <3>1. CASE read_data(f)
      <4>1. output_buf' = OutputAfterData(f) /\ IsOpenNewStream(f)
        BY <3>1, AcceptFacts DEF read_data
      <4>2. f.length \in Nat
        BY PeerFrameType
      <4>3. ~(f.length > 0)
        BY <1>5, <4>1 DEF OutputAfterData
      <4>4. QED
        BY <1>1, <3>1, <4>2, <4>3
    <3>2. QED
      BY <1>1, <3>1
  <2>2. <<>> = Numbered(0)
    BY DEF Numbered
  <2>3. ~Waits(id)'
    BY <1>5 DEF Waits
  <2>4. DeliveredAt(id)'
    BY <1>3, <2>1, <2>2, <2>3 DEF DeliveredAt
  <2>5. QED
    BY <1>3, <1>4, <1>5, <2>4, TouchesKeepsDelivery
<1>6. CASE /\ read_data(f) /\ f.length \in 1..MAX_FRAME_SIZE
           /\ output_buf' = <<DataOut(f.stream_id, f.length)>>
  <2>1. n = f.length /\ output_buf' = <<DataOut(id, n)>> /\ Waits(id)'
    BY <1>1, <1>2, <1>6 DEF Waits
  <2>2. ReadBody(f)
    BY <1>6 DEF read_data
  <2>3. \A k \in 1..f.length : inbound_buf'[k] = 0 + k
    BY <1>2, <1>3, <2>2, PayloadArrives
  <2>4. \A k \in 1..n : inbound_buf'[k] = k
    BY <2>1, <2>3
  <2>5. DeliveredAt(id)'
    BY <1>3, <1>6, <2>1, <2>4 DEF DeliveredAt
  <2>6. QED
    BY <1>3, <1>4, <2>1, <2>5, TouchesKeepsDelivery
<1>7. QED
  BY <1>5, <1>6, OutputOfOpening

LEMMA DataKeepsDelivery ==
    ASSUME TypeOK, Delivery, NEW f \in PeerFrames, ReadFrame(f), ~NegotiateAccepts(f), read_data(f)
    PROVE  Delivery'
<1>1. DataArrives(f) /\ ReadBody(f)
  BY ReadDataArrives DEF read_data
<1>2. PICK id \in StreamIds : id = f.stream_id
  BY <1>1 DEF DataArrives
<1>3. PICK r \in Nat : r = log[id].received
  BY DEF TypeOK, History
<1>4. PICK n \in Nat : n = f.length /\ n <= MAX_FRAME_SIZE
  BY <1>1 DEF DataArrives
<1>5. /\ Touches(id) /\ id \in DOMAIN streams
      /\ log'[id].received = r + n
      /\ n = 0 => log'[id].delivered = log[id].delivered
      /\ n > 0 => log'[id].delivered = log[id].delivered \o SubSeq(inbound_buf', 1, n)
      /\ output_buf' = <<Closed(id)>> \/ output_buf' = <<>>
  BY <1>1, <1>2, <1>3, <1>4 DEF DataArrives
<1>6. output_buf = <<>>
  BY ReadFrameFacts
<1>7. ~Waits(id) /\ ~Waits(id)'
  <2>1. \A m : Closed(id) # DataOut(id, m)
    BY DEF Closed, DataOut
  <2>2. \A m : <<Closed(id)>> # <<DataOut(id, m)>> /\ <<>> # <<DataOut(id, m)>>
    BY <2>1
  <2>3. QED
    BY <1>5, <1>6, <2>2 DEF Waits
<1>8. log[id].delivered = Numbered(r)
  BY <1>3, <1>7 DEF Delivery, DeliveredAt
<1>9. log'[id].delivered = Numbered(r + n)
  <2>1. CASE n = 0
    BY <1>5, <1>8, <2>1
  <2>2. CASE n > 0
    <3>1. \A k \in 1..n : inbound_buf'[k] = r + k
      BY <1>1, <1>2, <1>3, <1>4, <1>5, PayloadArrives
    <3>2. inbound_buf' \in [1..MAX_FRAME_SIZE -> Nat] /\ MAX_FRAME_SIZE \in Nat
      BY <1>1, ReadBodyType, YamuxConstants
    <3>3. Numbered(r) \o SubSeq(inbound_buf', 1, n) = Numbered(r + n)
      BY ZenonT(40), <1>4, <3>1, <3>2, NumberedExtends
    <3>4. QED
      BY <1>5, <1>8, <2>2, <3>3
  <2>3. QED
    BY <2>1, <2>2
<1>10. DeliveredAt(id)'
  BY <1>5, <1>7, <1>9 DEF DeliveredAt
<1>11. QED
  BY <1>5, <1>6, <1>10, TouchesKeepsDelivery

LEMMA HandingKeepsDelivery ==
    ASSUME TypeOK, ServiceInv, Delivery, take_output_buf
    PROVE  Delivery'
<1>1. output_buf' = <<>> /\ UNCHANGED inbound_buf
  BY TakeOutputFacts DEF ServiceInv
<1>2. PICK id \in StreamIds : HandsClosed(id) \/ \E n \in 1..MAX_FRAME_SIZE : HandsData(id, n)
  BY TakeOutputFacts DEF ServiceInv
<1>3. ~Waits(id)'
  BY <1>1 DEF Waits
<1>4. CASE HandsClosed(id)
  <2>1. Touches(id) /\ output_buf = <<Closed(id)>> /\ SameReceipts(log[id], log'[id])
    BY <1>4 DEF HandsClosed
  <2>2. ~Waits(id)
    BY <2>1 DEF Waits, Closed, DataOut
  <2>3. DeliveredAt(id)'
    BY <1>3, <2>1, <2>2 DEF Delivery, DeliveredAt, SameReceipts
  <2>4. QED
    BY <1>1, <2>1, <2>3, TouchesKeepsDelivery
<1>5. CASE \E n \in 1..MAX_FRAME_SIZE : HandsData(id, n)
  <2>1. PICK n \in 1..MAX_FRAME_SIZE : HandsData(id, n)
    BY <1>5
  <2>2. /\ Touches(id) /\ Waits(id) /\ output_buf = <<DataOut(id, n)>>
        /\ log'[id].received = log[id].received
        /\ log'[id].delivered = log[id].delivered \o SubSeq(inbound_buf, 1, n)
    BY <2>1 DEF HandsData, Waits
  <2>3. /\ log[id].delivered = <<>> /\ output_buf = <<DataOut(id, log[id].received)>>
        /\ \A k \in 1..log[id].received : inbound_buf[k] = k
    BY <2>2 DEF Delivery, DeliveredAt
  <2>4. n = log[id].received
    BY <2>2, <2>3 DEF DataOut
  <2>5. \A k \in 1..n : inbound_buf[k] = k
    BY <2>3, <2>4
  <2>6. /\ inbound_buf \in [1..MAX_FRAME_SIZE -> Nat] /\ MAX_FRAME_SIZE \in Nat
        /\ n \in Nat /\ n <= MAX_FRAME_SIZE
    BY YamuxConstants DEF TypeOK
  <2>7. <<>> \o SubSeq(inbound_buf, 1, n) = Numbered(n)
    BY <2>5, <2>6, NumberedStarts
  <2>8. log'[id].delivered = Numbered(log'[id].received)
    BY <2>2, <2>3, <2>4, <2>7
  <2>9. DeliveredAt(id)'
    BY <1>3, <2>8 DEF DeliveredAt
  <2>10. QED
    BY <1>1, <2>2, <2>9, TouchesKeepsDelivery
<1>6. QED
  BY <1>2, <1>4, <1>5

LEMMA ReadsKeepDelivery ==
    ASSUME TypeOK, ServiceInv, Delivery, Reads
    PROVE  Delivery'
<1>1. CASE read_error
  BY <1>1 DEF read_error, Finish, Delivery, DeliveredAt, Waits
<1>2. ASSUME NEW f \in PeerFrames, ReadFrame(f)
      PROVE  Delivery'
  <2>1. output_buf = <<>>
    BY <1>2, ReadFrameFacts
  <2>2. CASE ~NegotiateAccepts(f) /\ read_update(f)
    <3>1. UpdateArrives(f) /\ UNCHANGED <<output_buf, inbound_buf>>
      BY <1>2, <2>2, ReadUpdateArrives DEF read_update, ReadUpdate
    <3>2. PICK id \in StreamIds : id = f.stream_id
      BY <3>1 DEF UpdateArrives
    <3>3. /\ Touches(id) /\ log'[id].received = log[id].received
          /\ log'[id].delivered = log[id].delivered
      BY <3>1, <3>2 DEF UpdateArrives
    <3>4. DeliveredAt(id)'
      BY <3>1, <3>3 DEF Delivery, DeliveredAt, Waits
    <3>5. QED
      BY <3>1, <3>3, <3>4, TouchesKeepsDelivery
  <2>3. CASE read_session_frame_on_stream(f)
    <3>1. PICK id \in StreamIds : id = f.stream_id /\ StreamReset(id)
      BY <2>3, SessionFrameFacts
    <3>2. /\ Touches(id) /\ SameReceipts(log[id], log'[id])
          /\ UNCHANGED <<output_buf, inbound_buf>>
      BY <2>3, <3>1, SessionFrameFacts DEF StreamReset
    <3>3. DeliveredAt(id)'
      BY <3>2 DEF Delivery, DeliveredAt, Waits, SameReceipts
    <3>4. QED
      BY <3>2, <3>3, TouchesKeepsDelivery
  <2>4. CASE ~read_data(f) /\ ~read_update(f) /\ ~read_session_frame_on_stream(f)
    <3>1. UNCHANGED <<log, output_buf>>
      BY <1>2, <2>4, QuietFrame
    <3>2. \A id : ~Waits(id)
      BY <2>1 DEF Waits
    <3>3. QED
      BY <3>1, <3>2 DEF Delivery, DeliveredAt, Waits
  <2>5. QED
    BY <1>2, <2>2, <2>3, <2>4, OpeningKeepsDelivery, DataKeepsDelivery
<1>3. QED
  BY <1>1, <1>2, HandingKeepsDelivery DEF Reads

LEMMA DeliveryInvariant == Spec => []Delivery
<1>1. Init => Delivery
  <2> SUFFICES ASSUME Init, NEW id \in StreamIds
               PROVE  DeliveredAt(id)
    BY DEF Delivery
  <2>1. output_buf = <<>> /\ log[id].received = 0 /\ log[id].delivered = <<>>
    BY DEF Init, NewHistory
  <2>2. <<>> = Numbered(0)
    BY DEF Numbered
  <2>3. QED
    BY <2>1, <2>2 DEF DeliveredAt, Waits
<1>2. TypeOK /\ OwnIds /\ ServiceInv /\ Delivery /\ [Next]_vars => Delivery'
  <2> SUFFICES ASSUME TypeOK, OwnIds, ServiceInv, Delivery, [Next]_vars
               PROVE  Delivery'
    OBVIOUS
  <2>1. CASE UNCHANGED vars
    BY <2>1 DEF vars, shared, Delivery, DeliveredAt, Waits
  <2>2. CASE write_round
    <3>1. UNCHANGED <<output_buf, inbound_buf>>
      BY <2>2 DEF write_round
    <3>2. QED
      BY <2>2, <3>1, RoundHolds DEF SameReceipts, Delivery, DeliveredAt, Waits
  <2>3. CASE write_begin \/ write_global_done \/ write_pass_end \/ write_bulk_done \/ write_error
    <3>1. UNCHANGED <<output_buf, inbound_buf, log>>
      BY <2>3 DEF write_begin, write_global_done, write_pass_end, write_bulk_done, write_error, shared
    <3>2. QED
      BY <3>1 DEF Delivery, DeliveredAt, Waits
  <2>4. QED
    BY <2>1, <2>2, <2>3, CallsKeepDelivery, ReadsKeepDelivery DEF Next, Writes
<1>3. QED
  BY <1>1, <1>2, TypeCorrect, OwnIdsInvariant, ServiceInvariant, PTL DEF Spec

\* What read_next has handed out for a stream, with the data it keeps for its
\* next turn, is what the remote sent on it: every byte once, and in order.
THEOREM DeliveredTheorem == Spec => []DeliveredIntact
<1>1. TypeOK /\ ServiceInv /\ Delivery => DeliveredIntact
  <2> SUFFICES ASSUME TypeOK, ServiceInv, Delivery, NEW id \in StreamIds
               PROVE  LET kept == IF \E k \in DOMAIN output_buf :
                                        output_buf[k] = DataOut(id, output_buf[k].len)
                                  THEN SubSeq(inbound_buf, 1, output_buf[1].len)
                                  ELSE <<>>
                      IN log[id].delivered \o kept = [k \in 1..log[id].received |-> k]
    BY DEF DeliveredIntact
  <2>1. DeliveredAt(id)
    BY DEF Delivery
  <2>2. CASE Waits(id)
    <3>1. PICK n \in 1..MAX_FRAME_SIZE : n = log[id].received /\ output_buf = <<DataOut(id, n)>>
      BY <2>1, <2>2 DEF DeliveredAt
    <3>2. output_buf[1] = DataOut(id, n) /\ output_buf[1].len = n /\ 1 \in DOMAIN output_buf
      BY <3>1 DEF DataOut
    <3>3. \E k \in DOMAIN output_buf : output_buf[k] = DataOut(id, output_buf[k].len)
      BY <3>2
    <3>4. \A k \in 1..n : inbound_buf[k] = k
      BY <2>1, <2>2, <3>1 DEF DeliveredAt
    <3>5. /\ inbound_buf \in [1..MAX_FRAME_SIZE -> Nat] /\ MAX_FRAME_SIZE \in Nat
          /\ n \in Nat /\ n <= MAX_FRAME_SIZE
      BY YamuxConstants DEF TypeOK
    <3>6. <<>> \o SubSeq(inbound_buf, 1, n) = Numbered(n)
      BY <3>4, <3>5, NumberedStarts
    <3>7. log[id].delivered \o SubSeq(inbound_buf, 1, n) = Numbered(n)
      BY <2>1, <2>2, <3>6 DEF DeliveredAt
    <3>8. QED
      BY <3>1, <3>2, <3>3, <3>7 DEF Numbered
  <2>3. CASE ~Waits(id)
    <3>1. ~\E k \in DOMAIN output_buf : output_buf[k] = DataOut(id, output_buf[k].len)
      <4>1. CASE output_buf = <<>>
        BY <4>1
      <4>2. ASSUME NEW x, NEW n, output_buf = <<DataOut(x, n)>>
            PROVE  \A k \in DOMAIN output_buf : output_buf[k] # DataOut(id, output_buf[k].len)
        <5>1. x # id
          BY <2>3, <4>2 DEF Waits
        <5>2. \A k \in DOMAIN output_buf : output_buf[k] = DataOut(x, n)
          BY <4>2
        <5>3. QED
          BY <5>1, <5>2, WaitsDistinct
      <4>3. ASSUME NEW x, output_buf = <<Closed(x)>>
            PROVE  \A k \in DOMAIN output_buf : output_buf[k] # DataOut(id, output_buf[k].len)
        <5>1. \A n : Closed(x) # DataOut(id, n)
          BY DEF Closed, DataOut
        <5>2. \A k \in DOMAIN output_buf : output_buf[k] = Closed(x)
          BY <4>3
        <5>3. QED
          BY <5>1, <5>2
      <4>4. QED
        BY <4>1, <4>2, <4>3 DEF ServiceInv, KeptOutput
    <3>2. log[id].delivered \in Seq(Nat) /\ log[id].delivered = Numbered(log[id].received)
      BY <2>1, <2>3 DEF DeliveredAt, TypeOK, History
    <3>3. log[id].delivered \o <<>> = log[id].delivered
      BY <3>2
    <3>4. QED
      BY <3>1, <3>2, <3>3 DEF Numbered
  <2>4. QED
    BY <2>2, <2>3
<1>2. QED
  BY <1>1, TypeCorrect, ServiceInvariant, DeliveryInvariant, PTL

-----------------------------------------------------------------------------

(* The session implements StreamService.  Hold and Present are what its      *)
(* variables hold and present stand for.                                     *)

Hold    == [id \in StreamIds |-> log[id].hold]
Present == [id \in StreamIds |-> TakesData(id)]

\* A step of the session is a step of the service, or changes none of it.
Serves == Service!ServiceNext \/ UNCHANGED Service!service

\* Data handed out is handed out by the service.
HandsOut ==
    \A id \in StreamIds :
        Len(log'[id].delivered) > Len(log[id].delivered) => Service!HandData(id)

LEMMA TouchesMaps ==
    ASSUME NEW id \in StreamIds, Touches(id), NEW h, log'[id].hold = h,
           NEW b \in BOOLEAN, TakesData(id)' = b
    PROVE  /\ Hold' = [Hold EXCEPT ![id] = h]
           /\ Present' = [Present EXCEPT ![id] = b]
<1>1. \A x \in StreamIds \ {id} : log'[x].hold = log[x].hold /\ TakesData(x)' = TakesData(x)
  BY DEF Touches, TakesData
<1>2. Hold' = [Hold EXCEPT ![id] = h]
  BY <1>1 DEF Hold
<1>3. Present' = [Present EXCEPT ![id] = b]
  <2>1. \A x \in StreamIds : Present'[x] = [Present EXCEPT ![id] = b][x]
    BY <1>1 DEF Present
  <2>2. QED
    BY <2>1 DEF Present
<1>4. QED
  BY <1>2, <1>3

LEMMA TouchesUnchanged ==
    ASSUME NEW id \in StreamIds, Touches(id), log'[id].hold = log[id].hold,
           TakesData(id)' <=> TakesData(id)
    PROVE  UNCHANGED <<Hold, Present>>
<1>1. \A x \in StreamIds : log'[x].hold = log[x].hold /\ TakesData(x)' = TakesData(x)
  BY DEF Touches, TakesData
<1>2. QED
  BY <1>1 DEF Hold, Present

\* When a step hands nothing out, because it delivers on no stream.
LEMMA HandsNothing ==
    ASSUME TypeOK, NEW id \in StreamIds, Touches(id),
           log'[id].delivered = log[id].delivered \/ log'[id].delivered = <<>>
    PROVE  HandsOut
<1>1. log[id].delivered \in Seq(Nat)
  BY DEF TypeOK, History
<1>2. ~(Len(log'[id].delivered) > Len(log[id].delivered))
  BY <1>1
<1>3. ASSUME NEW x \in StreamIds, x # id
      PROVE  ~(Len(log'[x].delivered) > Len(log[x].delivered))
  <2>1. log'[x] = log[x] /\ log[x].delivered \in Seq(Nat)
    BY <1>3 DEF Touches, TypeOK, History
  <2>2. QED
    BY <2>1
<1>4. QED
  BY <1>2, <1>3 DEF HandsOut

LEMMA HandsOneStream ==
    ASSUME TypeOK, NEW id \in StreamIds, Touches(id), Service!HandData(id)
    PROVE  HandsOut
<1>1. ASSUME NEW x \in StreamIds, x # id
      PROVE  ~(Len(log'[x].delivered) > Len(log[x].delivered))
  <2>1. log'[x] = log[x] /\ log[x].delivered \in Seq(Nat)
    BY <1>1 DEF Touches, TypeOK, History
  <2>2. QED
    BY <2>1
<1>2. QED
  BY <1>1 DEF HandsOut

LEMMA DeliversNothing ==
    ASSUME TypeOK, \A id \in StreamIds : log'[id].delivered = log[id].delivered
    PROVE  HandsOut
<1>1. ASSUME NEW x \in StreamIds
      PROVE  ~(Len(log'[x].delivered) > Len(log[x].delivered))
  <2>1. log[x].delivered \in Seq(Nat)
    BY DEF TypeOK, History
  <2>2. QED
    BY <2>1
<1>2. QED
  BY <1>1 DEF HandsOut

LEMMA ServesOnStream ==
    ASSUME NEW id \in StreamIds,
           \/ Service!Close(id) \/ Service!Reset(id) \/ Service!Lose(id)
           \/ Service!HandOpened(id) \/ Service!HandData(id) \/ Service!HandClosed(id)
    PROVE  Serves
BY DEF Serves, Service!ServiceNext

LEMMA ServesIdle ==
    ASSUME UNCHANGED <<Hold, Present, next_stream_id, finished>>
    PROVE  Serves
BY DEF Serves, Service!service, Hold, Present

LEMMA OpenServes ==
    ASSUME TypeOK, OwnIds, open_stream
    PROVE  Serves /\ HandsOut
<1>1. PICK id \in StreamIds : id = next_stream_id
  BY OpenFacts
<1>2. /\ Touches(id) /\ id \in DOMAIN streams' /\ next_stream_id' = id + 2 /\ UNCHANGED finished
      /\ streams'[id] = PushBack(NewStream, Control("Open"))
      /\ log'[id] = [NewHistory EXCEPT !.hold = "open"]
  BY <1>1, OpenFacts
<1>3. log'[id].hold = "open" /\ log'[id].delivered = <<>>
  BY <1>2 DEF NewHistory
<1>4. streams'[id].open_state = "Open"
  BY <1>2 DEF PushBack, NewStream
<1>5. TakesData(id)'
  BY <1>2, <1>3, <1>4 DEF TakesData
<1>6. Hold' = [Hold EXCEPT ![id] = "open"] /\ Present' = [Present EXCEPT ![id] = TRUE]
  BY <1>2, <1>3, <1>5, TouchesMaps
<1>7. Service!OpenStream
  BY <1>1, <1>2, <1>6 DEF Service!OpenStream, Hold, Present
<1>8. QED
  BY <1>2, <1>3, <1>7, HandsNothing DEF Serves, Service!ServiceNext

\* A call takes data exactly when the service says so, because what is queued
\* on a stream that the layer above has open does not end it.
LEMMA TakesWhenQueues ==
    ASSUME TypeOK, ServiceInv, writer # "Pass", NEW id \in StreamIds, log[id].hold = "open"
    PROVE  CanQueueData(id) <=> TakesData(id)
<1>1. CanQueueData(id) <=> (id \in DOMAIN streams /\ Usable(id))
  BY QueuesWhenUsable
<1>2. id \in DOMAIN streams => HeldAt(id)
  BY DEF ServiceInv
<1>3. QED
  BY <1>1, <1>2 DEF TakesData, HeldAt, Usable, BeingReset

LEMMA SendServes ==
    ASSUME TypeOK, ServiceInv, NEW id \in StreamIds, NEW n \in SendSizes, send_data(id, n)
    PROVE  Service!Send(id)
<1>1. Called(id)
  BY CallEffects DEF CallOn
<1>2. Touches(id) /\ writer # "Pass" /\ UNCHANGED <<finished, next_stream_id>>
  BY <1>1 DEF Called
<1>3. log[id].hold = "open" /\ CanQueueData(id)
  BY DEF send_data, MayCall
<1>4. TakesData(id) /\ id \in DOMAIN streams
  BY <1>2, <1>3, TakesWhenQueues DEF TakesData
<1>5. streams[id] \in StreamState /\ log[id] \in History /\ LogType
  BY <1>4 DEF TypeOK, LogType
<1>6. log'[id].hold = "open"
  <2>1. log'[id] = [log[id] EXCEPT !.accepted = @ + n]
    BY <1>5 DEF send_data, LogType
  <2>2. QED
    BY <1>3, <1>5, <2>1 DEF History
<1>7. id \in DOMAIN streams' /\ streams'[id].open_state = streams[id].open_state
  <2>1. id \in DOMAIN streams' /\ streams'[id] = Extended(streams[id], NextBytes(id, n))
    BY <1>4 DEF send_data
  <2>2. NoEnd(streams[id].outbound_buf)
    BY <1>2, <1>3, <1>4, QueuesWhenUsable DEF Usable
  <2>3. QED
    BY <1>5, <2>1, <2>2, ExtendedQueue
<1>8. TakesData(id)'
  BY <1>4, <1>6, <1>7 DEF TakesData
<1>9. UNCHANGED <<Hold, Present>>
  BY <1>2, <1>3, <1>4, <1>6, <1>8, TouchesUnchanged
<1>10. QED
  BY <1>2, <1>3, <1>4, <1>9 DEF Service!Send, Service!KeepService, Service!service, Hold, Present

LEMMA NotFoundServes ==
    ASSUME TypeOK, ServiceInv, NEW id \in StreamIds, send_data_not_found(id)
    PROVE  Service!SendNotFound(id)
<1>1. Called(id)
  BY CallEffects DEF CallOn
<1>2. writer # "Pass" /\ UNCHANGED <<finished, next_stream_id, streams, log>>
  BY <1>1 DEF Called, send_data_not_found
<1>3. log[id].hold = "open" /\ ~CanQueueData(id)
  BY DEF send_data_not_found, MayCall
<1>4. ~TakesData(id)
  BY <1>2, <1>3, TakesWhenQueues
<1>5. UNCHANGED <<Hold, Present>>
  BY <1>2 DEF Hold, Present, TakesData
<1>6. QED
  BY <1>2, <1>3, <1>4, <1>5 DEF Service!SendNotFound, Service!KeepService, Service!service, Hold, Present

LEMMA CloseServes ==
    ASSUME TypeOK, NEW id \in StreamIds, close_stream(id) \/ close_stream_immediately(id)
    PROVE  Service!Close(id)
<1>1. Called(id)
  BY CallEffects DEF CallOn
<1>2. Touches(id) /\ UNCHANGED <<finished, next_stream_id>>
  BY <1>1 DEF Called
<1>3. log[id].hold # "none"
  BY DEF close_stream, close_stream_immediately, MayCall
<1>4. log'[id].hold = "closed"
  <2>1. LogType /\ log[id] \in History
    BY DEF TypeOK, LogType
  <2>2. QED
    BY <2>1 DEF close_stream, close_stream_immediately, LogType, History
<1>5. TakesData(id)' = FALSE
  BY <1>4 DEF TakesData
<1>6. Hold' = [Hold EXCEPT ![id] = "closed"] /\ Present' = [Present EXCEPT ![id] = FALSE]
  BY <1>2, <1>4, <1>5, TouchesMaps
<1>7. QED
  BY <1>2, <1>3, <1>6 DEF Service!Close, Hold, Present

LEMMA ResetServes ==
    ASSUME TypeOK, NEW id \in StreamIds, reset_stream_immediately(id)
    PROVE  Service!Reset(id)
<1>1. Called(id)
  BY CallEffects DEF CallOn
<1>2. Touches(id) /\ UNCHANGED <<finished, next_stream_id>>
  BY <1>1 DEF Called
<1>3. log'[id].hold = "none"
  <2>1. LogType /\ log[id] \in History
    BY DEF TypeOK, LogType
  <2>2. QED
    BY <2>1 DEF reset_stream_immediately, LogType, History
<1>4. TakesData(id)' = FALSE
  BY <1>3 DEF TakesData
<1>5. Hold' = [Hold EXCEPT ![id] = "none"] /\ Present' = [Present EXCEPT ![id] = FALSE]
  BY <1>2, <1>3, <1>4, TouchesMaps
<1>6. QED
  BY <1>2, <1>5 DEF Service!Reset, Hold, Present

LEMMA CallsServe ==
    ASSUME TypeOK, OwnIds, ServiceInv, Calls
    PROVE  Serves /\ HandsOut
<1>1. ASSUME NEW id \in StreamIds, CallOn(id)
      PROVE  Serves /\ HandsOut
  <2>1. Called(id)
    BY <1>1, CallEffects
  <2>2. HandsOut
    BY <2>1, HandsNothing DEF Called, SameReceipts
  <2>3. ASSUME Service!Send(id) \/ Service!SendNotFound(id)
        PROVE  Serves
    BY <2>3 DEF Service!Send, Service!SendNotFound, Service!KeepService, Serves
  <2>4. QED
    BY <1>1, <2>2, <2>3, SendServes, NotFoundServes, CloseServes, ResetServes, ServesOnStream
       DEF CallOn
<1>2. QED
  BY <1>1, OpenServes DEF Calls, CallOn

LEMMA EndServes ==
    ASSUME UNCHANGED <<streams, log, next_stream_id>>, finished' = TRUE \/ UNCHANGED finished
    PROVE  Serves
<1>1. UNCHANGED <<Hold, Present, next_stream_id>>
  BY DEF Hold, Present, TakesData
<1>2. CASE finished' = TRUE
  <2>1. Service!End
    BY <1>1, <1>2 DEF Service!End, Hold, Present
  <2>2. QED
    BY <2>1 DEF Serves, Service!ServiceNext
<1>3. QED
  BY <1>1, <1>2, ServesIdle

LEMMA OpeningServes ==
    ASSUME TypeOK, NEW f \in PeerFrames, ReadFrame(f), NegotiateAccepts(f),
           read_data(f) \/ read_update(f)
    PROVE  Serves /\ HandsOut
<1>1. PICK n : OpensStream(f.stream_id, n)
  BY ReadDataOpens, ReadUpdateOpens
<1>2. PICK id \in StreamIds : id = f.stream_id
  BY <1>1 DEF OpensStream
<1>3. /\ Touches(id) /\ id \notin DOMAIN streams /\ id % 2 = 0 /\ id \in DOMAIN streams'
      /\ streams'[id].open_state = "Open" /\ log'[id].hold = "open" /\ log'[id].delivered = <<>>
  BY <1>1, <1>2 DEF OpensStream
<1>4. UNCHANGED <<finished, next_stream_id>>
  BY ReadFrameFacts DEF read_data, read_update
<1>5. TakesData(id)' /\ ~TakesData(id)
  BY <1>3 DEF TakesData
<1>6. Hold' = [Hold EXCEPT ![id] = "open"] /\ Present' = [Present EXCEPT ![id] = TRUE]
  BY <1>3, <1>5, TouchesMaps
<1>7. Service!HandOpened(id)
  BY <1>3, <1>4, <1>5, <1>6 DEF Service!HandOpened, Service!Ours, Hold, Present
<1>8. QED
  BY <1>3, <1>7, HandsNothing, ServesOnStream

LEMMA DataServes ==
    ASSUME TypeOK, ServiceInv, NEW f \in PeerFrames, ReadFrame(f), ~NegotiateAccepts(f), read_data(f)
    PROVE  Serves /\ HandsOut
<1>1. DataArrives(f)
  BY ReadDataArrives
<1>2. PICK id \in StreamIds : id = f.stream_id
  BY <1>1 DEF DataArrives
<1>3. /\ Touches(id) /\ id \in DOMAIN streams /\ Receives(streams[id])
      /\ log'[id].hold = log[id].hold
      /\ Closes(f) /\ id \in DOMAIN streams' => streams'[id].open_state = "FinByThem"
      /\ ~Closes(f) =>
            id \in DOMAIN streams' /\ streams'[id].open_state = streams[id].open_state
  BY <1>1, <1>2 DEF DataArrives
<1>4. UNCHANGED <<finished, next_stream_id>>
  BY ReadFrameFacts DEF read_data
<1>5. log[id].hold # "none" /\ streams[id].open_state # "Reset"
  BY <1>3 DEF ServiceInv, HeldAt, Receives
<1>6. CASE id \in DOMAIN streams'
  <2>1. TakesData(id)' <=> TakesData(id)
    BY <1>3, <1>5, <1>6 DEF TakesData
  <2>2. UNCHANGED <<Hold, Present>>
    BY <1>3, <2>1, TouchesUnchanged
  <2>3. Service!HandData(id)
    BY <1>4, <1>5, <2>2 DEF Service!HandData, Hold, Present
  <2>4. QED
    BY <1>3, <2>3, HandsOneStream, ServesOnStream
<1>7. CASE id \notin DOMAIN streams'
  <2>1. TakesData(id)' = FALSE
    BY <1>7 DEF TakesData
  <2>2. PICK h : h = log[id].hold
    OBVIOUS
  <2>3. Hold' = [Hold EXCEPT ![id] = h] /\ Present' = [Present EXCEPT ![id] = FALSE]
    BY <1>3, <2>1, <2>2, TouchesMaps
  <2>4. UNCHANGED Hold
    BY <2>2, <2>3 DEF Hold
  <2>5. Service!HandData(id)
    BY <1>4, <1>5, <2>3, <2>4 DEF Service!HandData, Hold, Present
  <2>6. QED
    BY <1>3, <2>5, HandsOneStream, ServesOnStream
<1>8. QED
  BY <1>6, <1>7

\* The layer above forgets the stream.
LEMMA ClosedServes ==
    ASSUME NEW id \in StreamIds, Touches(id), log'[id].hold = "none",
           UNCHANGED <<finished, next_stream_id>>
    PROVE  Serves
<1>1. TakesData(id)' = FALSE
  BY DEF TakesData
<1>2. Hold' = [Hold EXCEPT ![id] = "none"] /\ Present' = [Present EXCEPT ![id] = FALSE]
  BY <1>1, TouchesMaps
<1>3. Service!HandClosed(id)
  BY <1>2 DEF Service!HandClosed, Hold, Present
<1>4. QED
  BY <1>3, ServesOnStream

LEMMA UpdateServes ==
    ASSUME TypeOK, NEW f \in PeerFrames, ReadFrame(f), ~NegotiateAccepts(f), read_update(f)
    PROVE  Serves /\ HandsOut
<1>1. UpdateArrives(f)
  BY ReadUpdateArrives
<1>2. PICK id \in StreamIds : id = f.stream_id
  BY <1>1 DEF UpdateArrives
<1>3. /\ Touches(id) /\ id \in DOMAIN streams /\ log'[id].delivered = log[id].delivered
      /\ Closes(f) => log'[id].hold = "none"
      /\ ~Closes(f) =>
            /\ log'[id].hold = log[id].hold
            /\ id \in DOMAIN streams' /\ streams'[id].open_state = streams[id].open_state
  BY <1>1, <1>2 DEF UpdateArrives
<1>4. UNCHANGED <<finished, next_stream_id>>
  BY ReadFrameFacts DEF read_update
<1>5. HandsOut
  BY <1>3, HandsNothing
<1>6. CASE ~Closes(f)
  <2>1. UNCHANGED <<Hold, Present>>
    BY <1>3, <1>6, TouchesUnchanged DEF TakesData
  <2>2. QED
    BY <1>4, <1>5, <2>1, ServesIdle
<1>7. QED
  BY <1>3, <1>4, <1>5, <1>6, ClosedServes

LEMMA SessionFrameServes ==
    ASSUME TypeOK, NEW f \in PeerFrames, ReadFrame(f), read_session_frame_on_stream(f)
    PROVE  Serves /\ HandsOut
<1>1. PICK id \in StreamIds : id = f.stream_id /\ StreamReset(id)
  BY SessionFrameFacts
<1>2. /\ Touches(id) /\ log'[id].hold = log[id].hold
      /\ log'[id].delivered = log[id].delivered
      /\ id \in DOMAIN streams' => streams'[id].open_state = "Reset"
  BY <1>1 DEF StreamReset, SameReceipts
<1>3. UNCHANGED <<finished, next_stream_id>>
  BY ReadFrameFacts DEF read_session_frame_on_stream
<1>4. HandsOut
  BY <1>2, HandsNothing
<1>5. TakesData(id)' = FALSE
  BY <1>2 DEF TakesData
<1>6. CASE TakesData(id)
  <2>1. PICK h : h = log[id].hold
    OBVIOUS
  <2>2. Hold' = [Hold EXCEPT ![id] = h] /\ Present' = [Present EXCEPT ![id] = FALSE]
    BY <1>2, <1>5, <2>1, TouchesMaps
  <2>3. UNCHANGED Hold
    BY <2>1, <2>2 DEF Hold
  <2>4. Service!Lose(id)
    BY <1>3, <1>6, <2>2, <2>3 DEF Service!Lose, Hold, Present
  <2>5. QED
    BY <1>4, <2>4, ServesOnStream
<1>7. CASE ~TakesData(id)
  <2>1. UNCHANGED <<Hold, Present>>
    BY <1>2, <1>5, <1>7, TouchesUnchanged
  <2>2. QED
    BY <1>3, <1>4, <2>1, ServesIdle
<1>8. QED
  BY <1>6, <1>7

LEMMA HandingServes ==
    ASSUME TypeOK, ServiceInv, take_output_buf
    PROVE  Serves /\ HandsOut
<1>1. UNCHANGED <<streams, finished, next_stream_id>>
  BY TakeOutputFacts DEF ServiceInv
<1>2. PICK id \in StreamIds : HandsClosed(id) \/ \E n \in 1..MAX_FRAME_SIZE : HandsData(id, n)
  BY TakeOutputFacts DEF ServiceInv
<1>3. CASE HandsClosed(id)
  BY <1>1, <1>3, ClosedServes, HandsNothing DEF HandsClosed, SameReceipts
<1>4. CASE \E n \in 1..MAX_FRAME_SIZE : HandsData(id, n)
  <2>1. Touches(id) /\ log[id].hold # "none" /\ log'[id].hold = log[id].hold
    BY <1>4 DEF HandsData
  <2>2. UNCHANGED <<Hold, Present>>
    BY <1>1, <2>1, TouchesUnchanged DEF TakesData
  <2>3. Service!HandData(id)
    BY <1>1, <2>1, <2>2 DEF Service!HandData, Hold, Present
  <2>4. QED
    BY <2>1, <2>3, HandsOneStream, ServesOnStream
<1>5. QED
  BY <1>2, <1>3, <1>4

LEMMA ReadsServe ==
    ASSUME TypeOK, ServiceInv, Reads
    PROVE  Serves /\ HandsOut
<1>1. CASE read_error
  <2>1. UNCHANGED <<streams, log, next_stream_id>> /\ finished' = TRUE
    BY <1>1 DEF read_error, Finish, Reading, ReadHeader
  <2>2. QED
    BY <2>1, EndServes, DeliversNothing
<1>2. ASSUME NEW f \in PeerFrames, ReadFrame(f)
      PROVE  Serves /\ HandsOut
  <2>1. CASE ~read_data(f) /\ ~read_update(f) /\ ~read_session_frame_on_stream(f)
    <3>1. UNCHANGED <<streams, log, next_stream_id>>
      BY <1>2, <2>1, QuietFrame, ReadFrameFacts
    <3>2. finished' = TRUE \/ UNCHANGED finished
      BY <1>2, <2>1 DEF ReadFrame, read_data_too_large, read_data_negotiate_fails,
           read_data_refuse, read_data_ignore, read_data_after_fin, read_update_negotiate_fails,
           read_update_refuse, read_update_ignore, read_ping, read_go_away, Refuse, Ignore, Finish
    <3>3. QED
      BY <3>1, <3>2, EndServes, DeliversNothing
  <2>2. QED
    BY <1>2, <2>1, OpeningServes, DataServes, UpdateServes, SessionFrameServes
<1>3. QED
  BY <1>1, <1>2, HandingServes DEF Reads

\* The write pass takes no data away from a stream that the layer above has
\* open, and gives none back: a stream that it removes had been reset.
LEMMA RoundTakes ==
    ASSUME TypeOK, ServiceInv, NEW id \in StreamIds, id \in DOMAIN streams, log[id].hold = "open"
    PROVE  /\ TakesData(id) => id \notin streams_to_remove
           /\ AfterRound(streams[id]).open_state = streams[id].open_state
<1>1. streams[id] \in StreamState /\ HeldAt(id)
  BY DEF TypeOK, ServiceInv
<1>2. CASE Usable(id)
  BY <1>1, <1>2, RoundKeepsUsable DEF Usable
<1>3. CASE BeingReset(id)
  <2>1. ~TakesData(id)
    BY <1>3 DEF BeingReset, TakesData
  <2>2. QED
    BY <1>1, <1>3, <2>1, RoundOfReset, RoundOfIdle DEF BeingReset
<1>4. QED
  BY <1>1, <1>2, <1>3 DEF HeldAt

LEMMA WritesServe ==
    ASSUME TypeOK, ServiceInv, Writes \/ write_error
    PROVE  Serves /\ HandsOut
<1>1. CASE write_begin \/ write_global_done \/ write_bulk_done \/ write_error
  <2>1. UNCHANGED <<streams, log, next_stream_id>> /\ (finished' = TRUE \/ UNCHANGED finished)
    BY <1>1 DEF write_begin, write_global_done, write_bulk_done, write_error, shared
  <2>2. QED
    BY <2>1, EndServes, DeliversNothing
<1>2. CASE write_round \/ write_pass_end
  <2>1. UNCHANGED <<finished, next_stream_id>>
    BY <1>2 DEF write_round, write_pass_end
  <2>2. \A id \in StreamIds : log'[id].hold = log[id].hold /\ log'[id].delivered = log[id].delivered
    BY <1>2, RoundHolds DEF write_pass_end, SameReceipts
  <2>3. ASSUME NEW id \in StreamIds
        PROVE  TakesData(id)' = TakesData(id)
    <3>1. CASE log[id].hold # "open" \/ id \notin DOMAIN streams
      BY <1>2, <2>2, <3>1 DEF TakesData, write_round, write_pass_end, Without
    <3>2. CASE log[id].hold = "open" /\ id \in DOMAIN streams
      <4>1. id \in DOMAIN streams' => streams'[id].open_state = streams[id].open_state
        BY <1>2, <3>2, RoundTakes DEF write_round, write_pass_end, Without
      <4>2. id \notin DOMAIN streams' => id \in streams_to_remove
        BY <1>2, <3>2 DEF write_round, write_pass_end, Without
      <4>3. QED
        BY <2>2, <3>2, <4>1, <4>2, RoundTakes DEF TakesData
    <3>3. QED
      BY <3>1, <3>2
  <2>4. UNCHANGED <<Hold, Present>>
    BY <2>2, <2>3 DEF Hold, Present
  <2>5. QED
    BY <2>1, <2>2, <2>4, ServesIdle, DeliversNothing
<1>3. QED
  BY <1>1, <1>2 DEF Writes

\* The session implements the service that the multistream layer is built on:
\* its calls, frames and write passes are steps of StreamService or change
\* nothing of it, send_data succeeds exactly on the streams that are present,
\* and data is handed out only for a stream that the layer above holds.
THEOREM ServiceTheorem == Spec => ImplementsService
<1>1. Init => Service!ServiceInit
  BY DEF Init, Service!ServiceInit, NewHistory, TakesData
<1>2. TypeOK /\ OwnIds /\ ServiceInv /\ [Next]_vars => [Service!ServiceNext]_Service!service
  <2> SUFFICES ASSUME TypeOK, OwnIds, ServiceInv, [Next]_vars
               PROVE  Serves
    BY DEF Serves
  <2>1. CASE UNCHANGED vars
    BY <2>1, EndServes DEF vars, shared
  <2>2. QED
    BY <2>1, CallsServe, ReadsServe, WritesServe DEF Next
<1>3. TypeOK /\ OwnIds /\ ServiceInv /\ [Next]_vars => [ServesCalls]_vars
  <2> SUFFICES ASSUME TypeOK, OwnIds, ServiceInv, Next
               PROVE  ServesCalls
    OBVIOUS
  <2>1. HandsOut
    BY CallsServe, ReadsServe, WritesServe DEF Next
  <2>2. QED
    BY <2>1, SendServes, NotFoundServes, CloseServes, ResetServes DEF ServesCalls, HandsOut
<1>4. QED
  BY <1>1, <1>2, <1>3, TypeCorrect, OwnIdsInvariant, ServiceInvariant, PTL
     DEF Spec, ImplementsService, Service!ServiceSpec

=============================================================================

------------------------- MODULE ConnectionProofs --------------------------
(***************************************************************************)
(* Proofs about YamuxMultistream and Connection, for any set of streams,   *)
(* protocols and chunks.                                                   *)
(*                                                                         *)
(* The first sections are about the layer below.  They leave the layer     *)
(* above open: the lemmas about calls (ResetKeeps, OpenKeeps, ...) do not  *)
(* say who calls.  Then the caller is the connection: it keeps the layer   *)
(* below in step, a request in flight has its timer, every request has one *)
(* response, and nothing is sent before a protocol is negotiated.          *)
(***************************************************************************)
EXTENDS ConnectionFacts

\* The provers, in the order in which a step that names none is given to them. SMT has more
\* than one turn because tlapm drops an obligation that it was too slow to translate.
USE Zenon, SMTT(10), SMTT(20), SMTT(30)

-----------------------------------------------------------------------------
(* The frame buffer *)

\* What is left in a buffer without a message: nothing, or one prefix.
LEMMA DrainedBuffer ==
    ASSUME NEW b \in Multistream, Framed(b), Drained(b), b.buffer # <<>>
    PROVE  b.needs = "Len" /\ b.buffer[1] = LEN /\ Len(b.buffer) = 1
<1>1. b.buffer \in Seq(Tokens) /\ b.needs \in {"Len", "Body"}
    BY DEF Multistream
<1>2. Len(b.buffer) \in Nat \ {0}
    BY <1>1
<1>3. b.needs = "Len"
    BY <1>1 DEF Drained, HasMessage
<1>4. b.buffer[1] = LEN
    BY <1>3 DEF Framed, Drained, HasBadLength
<1>5. ~(Len(b.buffer) > 1)
    BY <1>3, <1>4 DEF Drained, HasMessage
<1>6. \A n \in Nat \ {0} : ~(n > 1) => n = 1
    OBVIOUS
<1>7. Len(b.buffer) = 1
    BY <1>2, <1>5, <1>6
<1> QED
    BY <1>3, <1>4, <1>7

\* Without a message, at most a prefix is taken, and the body is still to come.
LEMMA AfterNothingFramed ==
    ASSUME NEW b \in Multistream, Framed(b), Drained(b)
    PROVE  /\ AfterNothing(b) \in Multistream
           /\ Framed(AfterNothing(b))
           /\ Drained(AfterNothing(b))
<1> DEFINE s == b.buffer
           c == AfterNothing(b)
<1>1. s \in Seq(Tokens) /\ Len(s) \in Nat
    BY DEF Multistream
<1>2. CASE s = <<>>
    BY <1>2 DEF AfterNothing
<1>3. CASE s # <<>>
  <2>1. b.needs = "Len" /\ s[1] = LEN /\ Len(s) = 1
      BY <1>3, DrainedBuffer
  <2>2. Tail(s) = <<>>
    <3>1. Tail(s) \in Seq(Tokens) /\ Len(Tail(s)) = 0
        BY <1>1, <1>3, <2>1
    <3> QED
        BY <3>1, EmptyWhenNoLength
  <2>3. c = [b EXCEPT !.buffer = Tail(@), !.needs = "Body"]
      BY <1>3 DEF AfterNothing
  <2>4. c \in Multistream /\ c.buffer = Tail(s) /\ c.needs = "Body"
    <3>1. Tail(s) \in Seq(Tokens)
        BY <1>1, <1>3
    <3> QED
        BY <2>3, <3>1 DEF Multistream
  <2> HIDE DEF c
  <2>5. Framed(c) /\ Drained(c)
      BY <2>2, <2>4 DEF Framed, Alternate, Drained, HasMessage, HasBadLength
  <2> QED
      BY <2>4, <2>5 DEF c
<1> QED
    BY <1>2, <1>3

\* A chunk that goes on where the last one ended keeps the buffer in step.
LEMMA ExtendedFramed ==
    ASSUME NEW b \in Multistream, Framed(b), Drained(b),
           NEW chunk \in Chunks, Continues(b, chunk)
    PROVE  /\ [b EXCEPT !.buffer = @ \o chunk] \in Multistream
           /\ Framed([b EXCEPT !.buffer = @ \o chunk])
<1> DEFINE s == b.buffer
           t == s \o chunk
           c == [b EXCEPT !.buffer = @ \o chunk]
<1>1. /\ s \in Seq(Tokens)
      /\ Len(s) \in Nat
      /\ chunk \in Seq(Tokens) /\ chunk # <<>> /\ Len(chunk) \in Nat \ {0}
      /\ Alternate(chunk)
    BY MultistreamConstants DEF Multistream
<1>2. /\ t \in Seq(Tokens)
      /\ Len(t) = Len(s) + Len(chunk)
      /\ \A i \in 1 .. Len(t) : t[i] = IF i <= Len(s) THEN s[i] ELSE chunk[i - Len(s)]
    BY <1>1
<1>3. c \in Multistream /\ c.buffer = t /\ c.needs = b.needs
    BY <1>2 DEF Multistream
<1> HIDE DEF t, c
<1>4. Alternate(t) /\ t # <<>> /\ (b.needs = "Len" <=> t[1] \in {LEN, BADLEN})
  <2>1. CASE s = <<>>
    <3>1. t = chunk
        BY <1>1, <2>1 DEF t
    <3>2. chunk[1] \in {LEN, BADLEN} <=> b.needs = "Len"
        BY <1>1, <2>1 DEF Continues, Mid, Multistream
    <3> QED
        BY <1>1, <3>1, <3>2
  <2>2. CASE s # <<>>
    <3>1. b.needs = "Len" /\ s[1] = LEN /\ Len(s) = 1
        BY <2>2, DrainedBuffer
    <3>2. chunk[1] \notin {LEN, BADLEN}
        BY <1>1, <2>2, <3>1 DEF Continues, Mid
    <3>3. Alternate(t)
      <4> SUFFICES ASSUME NEW i \in 1 .. Len(t) - 1
                   PROVE  t[i] # BADLEN /\ (t[i] = LEN <=> t[i + 1] \notin {LEN, BADLEN})
          BY DEF Alternate
      <4>1. CASE i = 1
          BY <1>1, <1>2, <3>1, <3>2, <4>1 DEF LEN, BADLEN
      <4>2. CASE i > 1
        <5>1. i - 1 \in 1 .. Len(chunk) - 1
            BY <1>1, <1>2, <3>1, <4>2
        <5>2. t[i] = chunk[i - 1] /\ t[i + 1] = chunk[(i - 1) + 1]
            BY <1>1, <1>2, <3>1, <4>2
        <5> QED
            BY <1>1, <5>1, <5>2 DEF Alternate
      <4> QED
          BY <4>1, <4>2
    <3> QED
        BY <1>1, <1>2, <3>1, <3>3
  <2> QED
      BY <2>1, <2>2
<1>5. Framed(c)
    BY <1>3, <1>4 DEF Framed
<1> QED
    BY <1>3, <1>5 DEF c

\* Whether a buffer is in step, or drained, depends on the buffer alone.
LEMMA SameBuffer ==
    ASSUME NEW b, NEW c, c.buffer = b.buffer, c.needs = b.needs
    PROVE  (Framed(c) <=> Framed(b)) /\ (Drained(c) <=> Drained(b))
BY DEF Framed, Drained, HasMessage, HasBadLength

-----------------------------------------------------------------------------
(* What a step may change *)

LEMMA ServiceStep ==
    ASSUME ServiceType,
           \/ KeepService
           \/ End
           \/ OpenStream
           \/ \E ids : reset_streams(ids)
           \/ \E id \in StreamIds : Close(id) \/ Lose(id) \/ HandOpened(id) \/ HandData(id) \/ HandClosed(id)
    PROVE  ServiceType'
<1>1. CASE KeepService
    BY <1>1 DEF ServiceType, KeepService, service
<1>2. CASE End
    BY <1>2 DEF ServiceType, End
<1>3. CASE OpenStream
  <2>1. hold' \in [StreamIds -> {"none", "open", "closed"}]
      BY <1>3 DEF ServiceType, OpenStream
  <2>2. present' \in [StreamIds -> BOOLEAN]
      BY <1>3, ZenonT(40) DEF ServiceType, OpenStream
  <2>3. next_stream_id' \in Nat /\ Ours(next_stream_id)'
      BY <1>3 DEF ServiceType, OpenStream, Ours
  <2> QED
      BY <1>3, <2>1, <2>2, <2>3 DEF ServiceType, OpenStream
<1>4. CASE \E ids : reset_streams(ids)
  <2>1. PICK ids : reset_streams(ids)
      BY <1>4
  <2>2. hold' \in [StreamIds -> {"none", "open", "closed"}]
      BY <2>1 DEF ServiceType, reset_streams
  <2>3. present' \in [StreamIds -> BOOLEAN]
      BY <2>1, ZenonT(40) DEF ServiceType, reset_streams
  <2> QED
      BY <2>1, <2>2, <2>3 DEF ServiceType, reset_streams
<1>5. ASSUME NEW id \in StreamIds,
             Close(id) \/ Lose(id) \/ HandOpened(id) \/ HandData(id) \/ HandClosed(id)
      PROVE  ServiceType'
  <2>1. hold' \in [StreamIds -> {"none", "open", "closed"}]
      BY <1>5 DEF ServiceType, Close, Lose, HandOpened, HandData, HandClosed
  <2>2. present' \in [StreamIds -> BOOLEAN]
      BY <1>5, ZenonT(40) DEF ServiceType, Close, Lose, HandOpened, HandData, HandClosed
  <2>3. UNCHANGED <<next_stream_id, ended>>
      BY <1>5 DEF Close, Lose, HandOpened, HandData, HandClosed
  <2> QED
      BY <2>1, <2>2, <2>3 DEF ServiceType, Ours
<1> QED
    BY <1>1, <1>2, <1>3, <1>4, <1>5

\* What an entry keeps when neither it nor what was sent on its stream changes.
LEMMA EntriesStep ==
    ASSUME Entries, ended => ended',
           \A id \in DOMAIN bufs' :
              \/ id \in DOMAIN bufs /\ bufs'[id] = bufs[id] /\ sent'[id] = sent[id]
              \/ bufs'[id] \in Multistream /\ Framed(bufs'[id]) /\ Negotiating(id)'
    PROVE  Entries'
<1> SUFFICES ASSUME NEW id \in DOMAIN bufs', bufs'[id] = bufs[id], sent'[id] = sent[id],
                    id \in DOMAIN bufs
             PROVE  bufs'[id] \in Multistream /\ Framed(bufs'[id]) /\ Negotiating(id)'
    BY DEF Entries
<1>1. bufs[id] \in Multistream /\ Framed(bufs[id]) /\ Negotiating(id)
    BY DEF Entries
<1> QED
    BY <1>1 DEF Negotiating

\* Streams are reset: by a call, while a turn handles one of them, or when more
\* has come in than its buffer holds.
LEMMA ResetKeeps ==
    ASSUME MultistreamInv, NEW ids, reset_streams(ids), UNCHANGED sent, OutType',
           parsing \in ids \cup {0}, parsing' = 0,
           read_from_stream_buffer' \in StreamIds \cup {0},
           read_from_stream_buffer' = read_from_stream_buffer \/ read_from_stream_buffer = 0
    PROVE  MultistreamInv'
<1>1. /\ DOMAIN bufs' = DOMAIN bufs \ ids
      /\ \A id \in DOMAIN bufs' : bufs'[id] = bufs[id]
    BY DEF reset_streams, Without
<1>2. Types'
  <2>1. ServiceType'
      BY ServiceStep DEF MultistreamInv, Types
  <2> QED
      BY <1>1, <2>1 DEF MultistreamInv, Types
<1>3. StreamsKnown'
    BY <1>1 DEF MultistreamInv, Types, StreamsKnown, reset_streams
<1>4. Entries'
    BY <1>1, EntriesStep DEF MultistreamInv, reset_streams
<1>5. Turns'
    BY <1>1 DEF MultistreamInv, Turns, reset_streams
<1> QED
    BY <1>2, <1>3, <1>4, <1>5 DEF MultistreamInv

-----------------------------------------------------------------------------
(* Calls of the layer above, whoever it is: made between two turns *)

\* An output is taken, or nothing happens to this layer.
LEMMA TakeKeeps ==
    ASSUME MultistreamInv, BetweenTurns, KeepService, UNCHANGED <<bufs, sent>>
    PROVE  MultistreamInv'
BY ServiceStep, EntriesStep
   DEF MultistreamInv, BetweenTurns, KeepService, service, Types, StreamsKnown, Turns

\* The connection ends between two turns.
LEMMA EndKeeps ==
    ASSUME MultistreamInv, BetweenTurns, End, UNCHANGED <<bufs, sent>>
    PROVE  MultistreamInv'
BY ServiceStep, EntriesStep DEF MultistreamInv, BetweenTurns, End, Types, StreamsKnown, Turns

LEMMA NewOutgoingFramed ==
    ASSUME NEW protocols \in Seq(Protocols) \ {<<>>}, NEW max \in Nat
    PROVE  LET b == NewOutgoing(protocols, max)
           IN  /\ b \in Multistream /\ Framed(b) /\ Drained(b)
               /\ b.state = Outgoing /\ b.protocol = Head(protocols)
<1>1. Head(protocols) \in Protocols /\ Tail(protocols) \in Seq(Protocols)
    OBVIOUS
<1>2. NewOutgoing(protocols, max) \in Multistream
    BY <1>1 DEF NewOutgoing, Multistream, States, Messages
<1> QED
    BY <1>2 DEF NewOutgoing, Framed, Alternate, Drained, HasMessage, HasBadLength, Outgoing

LEMMA OpenKeeps ==
    ASSUME MultistreamInv, BetweenTurns,
           NEW protocols \in Seq(Protocols) \ {<<>>}, NEW max \in Nat, open_stream(protocols, max)
    PROVE  MultistreamInv'
<1>0. PICK id \in StreamIds : id = next_stream_id
    BY DEF open_stream, OpenStream
<1> DEFINE b == NewOutgoing(protocols, max)
<1>1. /\ OpenStream
      /\ bufs' = Put(bufs, id, b)
      /\ sent' = [sent EXCEPT ![id] = <<HEADER, Head(protocols)>>]
    BY <1>0 DEF open_stream
<1>2. /\ DOMAIN bufs' = DOMAIN bufs \cup {id}
      /\ bufs'[id] = b
      /\ \A x \in DOMAIN bufs \ {id} : bufs'[x] = bufs[x]
    BY <1>1 DEF Put
<1>3. /\ sent' \in [StreamIds -> Seq(Messages)]
      /\ sent'[id] = <<HEADER, Head(protocols)>>
      /\ \A x \in StreamIds \ {id} : sent'[x] = sent[x]
  <2>1. <<HEADER, Head(protocols)>> \in Seq(Messages)
      BY DEF Messages
  <2> QED
      BY <1>1, <2>1 DEF MultistreamInv, Types
<1>4. b \in Multistream /\ Framed(b) /\ Drained(b) /\ b.state = Outgoing /\ b.protocol = Head(protocols)
    BY NewOutgoingFramed
<1> HIDE DEF b
<1>5. Types'
  <2>1. ServiceType'
      BY <1>1, ServiceStep DEF MultistreamInv, Types
  <2> QED
      BY <1>1, <1>2, <1>3, <2>1 DEF MultistreamInv, Types, BetweenTurns
<1>6. StreamsKnown'
    BY <1>0, <1>1, <1>2 DEF MultistreamInv, Types, ServiceType, StreamsKnown, OpenStream, BetweenTurns
<1>7. Entries'
  <2>1. Negotiating(id)'
    <3>1. Ours(id)
        BY <1>0 DEF MultistreamInv, Types, ServiceType
    <3>2. sent'[id] # <<>> /\ sent'[id][Len(sent'[id])] = Head(protocols)
        BY <1>3
    <3>3. bufs'[id].state = Outgoing /\ bufs'[id].protocol = Head(protocols)
        BY <1>2, <1>4
    <3> QED
        BY <3>1, <3>2, <3>3 DEF Negotiating, Outgoing, IncomingStates
  <2> QED
      BY <1>1, <1>2, <1>3, <1>4, <2>1, EntriesStep DEF MultistreamInv, Types, OpenStream
<1>8. Turns'
    BY <1>1, <1>2, <1>4 DEF MultistreamInv, Turns, OpenStream, BetweenTurns
<1> QED
    BY <1>5, <1>6, <1>7, <1>8 DEF MultistreamInv

LEMMA SendKeeps ==
    ASSUME MultistreamInv, BetweenTurns, NEW id \in StreamIds, NEW message \in Messages,
           send_data(id, message), KeepService, UNCHANGED bufs
    PROVE  MultistreamInv'
<1>1. /\ sent' \in [StreamIds -> Seq(Messages)]
      /\ \A x \in StreamIds \ {id} : sent'[x] = sent[x]
  <2>1. <<message>> \in Seq(Messages)
      OBVIOUS
  <2> QED
      BY <2>1, SendType DEF MultistreamInv, Types, send_data
<1>2. Types'
    BY <1>1, ServiceStep DEF MultistreamInv, Types, BetweenTurns
<1>3. Entries'
  <2>1. Negotiating(id)' /\ id \in DOMAIN bufs
      BY DEF send_data, CanSend, Negotiating, Outgoing, IncomingStates
  <2>2. bufs[id] \in Multistream /\ Framed(bufs[id])
      BY <2>1 DEF MultistreamInv, Entries
  <2> QED
      BY <1>1, <2>1, <2>2, EntriesStep DEF MultistreamInv, Types, KeepService, service
<1> QED
    BY <1>2, <1>3 DEF MultistreamInv, StreamsKnown, Turns, KeepService, service, BetweenTurns

\* The entry of one stream changes, and its buffer does not.
LEMMA RelabelKeeps ==
    ASSUME MultistreamInv, BetweenTurns, NEW id \in DOMAIN bufs, NEW c \in Multistream,
           bufs' = [bufs EXCEPT ![id] = c],
           c.buffer = bufs[id].buffer, c.needs = bufs[id].needs,
           sent' \in [StreamIds -> Seq(Messages)],
           \A x \in StreamIds \ {id} : sent'[x] = sent[x],
           ServiceType', ended => ended', Negotiating(id)',
           \A x \in StreamIds : hold'[x] = "none" <=> hold[x] = "none"
    PROVE  MultistreamInv'
<1>1. DOMAIN bufs' = DOMAIN bufs /\ bufs'[id] = c /\ \A x \in DOMAIN bufs \ {id} : bufs'[x] = bufs[x]
    OBVIOUS
<1>2. Framed(bufs[id]) /\ id \in StreamIds
    BY DEF MultistreamInv, Entries, Types
<1>3. Framed(c) /\ (Drained(c) <=> Drained(bufs[id]))
    BY <1>2, SameBuffer
<1>4. Types'
    BY <1>1 DEF MultistreamInv, Types, BetweenTurns
<1>5. StreamsKnown'
    BY <1>1 DEF MultistreamInv, StreamsKnown, BetweenTurns
<1>6. Entries'
    BY <1>1, <1>2, <1>3, EntriesStep DEF MultistreamInv, Types
<1>7. Turns'
    BY <1>1, <1>3 DEF MultistreamInv, Turns, BetweenTurns
<1> QED
    BY <1>4, <1>5, <1>6, <1>7 DEF MultistreamInv

\* accept_protocol and reject_protocol, also when they fail: then the connection
\* may end.
LEMMA AcceptKeeps ==
    ASSUME MultistreamInv, BetweenTurns, NEW id \in StreamIds, NEW max \in Nat,
           accept_protocol(id, max), KeepService \/ End
    PROVE  MultistreamInv'
<1>0. CASE ~Waiting(id)
    BY <1>0, TakeKeeps, EndKeeps DEF accept_protocol
<1> SUFFICES ASSUME Waiting(id)
             PROVE  MultistreamInv'
    BY <1>0
<1>1. PICK b \in Multistream : b = bufs[id]
    BY DEF MultistreamInv, Entries, Waiting
<1> DEFINE c == [b EXCEPT !.state = "Open", !.max_buffer_size = max]
<1>2. /\ c \in Multistream
      /\ c.buffer = b.buffer /\ c.needs = b.needs /\ c.state = "Open"
    BY DEF Multistream, States
<1>3. bufs' = [bufs EXCEPT ![id] = c]
    BY <1>1, ZenonT(40) DEF accept_protocol
<1>4. id \in DOMAIN bufs
    BY DEF Waiting
<1>5. Negotiating(id)'
    BY <1>2, <1>3, <1>4 DEF Negotiating, Outgoing, IncomingStates
<1>6. /\ sent' \in [StreamIds -> Seq(Messages)]
      /\ \A x \in StreamIds \ {id} : sent'[x] = sent[x]
  <2>1. <<b.protocol>> \in Seq(Messages)
      BY DEF Multistream
  <2> QED
      BY <1>1, <2>1, SendType DEF MultistreamInv, Types, accept_protocol, Reply
<1>7. ServiceType'
    BY ServiceStep DEF MultistreamInv, Types
<1>8. (ended => ended') /\ hold' = hold
    BY DEF KeepService, service, End
<1> HIDE DEF c
<1> QED
    BY <1>1, <1>2, <1>3, <1>4, <1>5, <1>6, <1>7, <1>8, RelabelKeeps

LEMMA RejectKeeps ==
    ASSUME MultistreamInv, BetweenTurns, NEW id \in StreamIds, reject_protocol(id),
           KeepService \/ End
    PROVE  MultistreamInv'
<1>0. CASE ~Waiting(id)
    BY <1>0, TakeKeeps, EndKeeps DEF reject_protocol
<1> SUFFICES ASSUME Waiting(id)
             PROVE  MultistreamInv'
    BY <1>0
<1>1. PICK b \in Multistream : b = bufs[id]
    BY DEF MultistreamInv, Entries, Waiting
<1> DEFINE c == [b EXCEPT !.state = "NewIncomingProtocol"]
<1>2. /\ c \in Multistream
      /\ c.buffer = b.buffer /\ c.needs = b.needs /\ c.state = "NewIncomingProtocol"
    BY DEF Multistream, States
<1>3. bufs' = [bufs EXCEPT ![id] = c]
    BY <1>1, ZenonT(40) DEF reject_protocol
<1>4. id \in DOMAIN bufs /\ bufs[id].state \in IncomingStates
    BY DEF Waiting, IncomingStates
<1>5. Negotiating(id)'
  <2>1. ~Ours(id)
      BY <1>4 DEF MultistreamInv, Entries, Negotiating
  <2> QED
      BY <1>2, <1>3, <1>4, <2>1 DEF Negotiating, Outgoing
<1>6. /\ sent' \in [StreamIds -> Seq(Messages)]
      /\ \A x \in StreamIds \ {id} : sent'[x] = sent[x]
  <2>1. <<NA>> \in Seq(Messages)
      BY DEF Messages
  <2> QED
      BY <2>1, SendType DEF MultistreamInv, Types, reject_protocol, Reply
<1>7. ServiceType'
    BY ServiceStep DEF MultistreamInv, Types
<1>8. (ended => ended') /\ hold' = hold
    BY DEF KeepService, service, End
<1> HIDE DEF c
<1> QED
    BY <1>1, <1>2, <1>3, <1>4, <1>5, <1>6, <1>7, <1>8, RelabelKeeps

\* A stream is closed, possibly right after a last message was sent on it.
LEMMA CloseKeeps ==
    ASSUME MultistreamInv, BetweenTurns, NEW id \in StreamIds, close_stream(id),
           \/ UNCHANGED sent
           \/ \E message \in Messages : send_data(id, message)
    PROVE  MultistreamInv'
<1>1. CASE id \notin DOMAIN bufs
  <2>1. UNCHANGED sent
      BY <1>1 DEF send_data, CanSend
  <2> QED
      BY <1>1, <2>1, TakeKeeps DEF close_stream
<1>2. CASE id \in DOMAIN bufs
  <2>1. PICK b \in Multistream : b = bufs[id]
      BY <1>2 DEF MultistreamInv, Entries
  <2> DEFINE c == [b EXCEPT !.state = "ClosedByUs"]
  <2>2. /\ c \in Multistream
        /\ c.buffer = b.buffer /\ c.needs = b.needs /\ c.state = "ClosedByUs"
      BY DEF Multistream, States
  <2>3. bufs' = [bufs EXCEPT ![id] = c] /\ Close(id)
      BY <1>2, <2>1, ZenonT(40) DEF close_stream
  <2>4. Negotiating(id)'
      BY <1>2, <2>2, <2>3 DEF Negotiating, Outgoing, IncomingStates
  <2>5. /\ sent' \in [StreamIds -> Seq(Messages)]
        /\ \A x \in StreamIds \ {id} : sent'[x] = sent[x]
    <3>1. CASE UNCHANGED sent
        BY <3>1 DEF MultistreamInv, Types
    <3>2. ASSUME NEW message \in Messages, send_data(id, message)
          PROVE  /\ sent' \in [StreamIds -> Seq(Messages)]
                 /\ \A x \in StreamIds \ {id} : sent'[x] = sent[x]
      <4>1. <<message>> \in Seq(Messages)
          OBVIOUS
      <4> QED
          BY <3>2, <4>1, SendType DEF MultistreamInv, Types, send_data
    <3> QED
        BY <3>1, <3>2
  <2>6. ServiceType' /\ ended' = ended
      BY <2>3, ServiceStep DEF MultistreamInv, Types, Close
  <2>7. \A x \in StreamIds : hold'[x] = "none" <=> hold[x] = "none"
      BY <2>3 DEF MultistreamInv, Types, ServiceType, Close
  <2> HIDE DEF c
  <2> QED
      BY <1>2, <2>1, <2>2, <2>3, <2>4, <2>5, <2>6, <2>7, RelabelKeeps
<1> QED
    BY <1>1, <1>2

-----------------------------------------------------------------------------
(* The second half of a turn *)

\* A message is taken from the buffer of stream id, whose entry becomes c.
ParseStep(id, c) ==
    /\ parsing = id
    /\ parsing' = 0
    /\ KeepReading
    /\ bufs' = [bufs EXCEPT ![id] = c]

LEMMA ParseKeeps ==
    ASSUME MultistreamInv, NEW id \in DOMAIN bufs, NEW c \in Multistream, ParseStep(id, c),
           Framed(c), Negotiating(id)',
           sent' \in [StreamIds -> Seq(Messages)],
           \A x \in StreamIds \ {id} : sent'[x] = sent[x],
           ServiceType', hold' = hold, ended => ended', OutType'
    PROVE  MultistreamInv'
<1>1. /\ DOMAIN bufs' = DOMAIN bufs
      /\ bufs'[id] = c
      /\ \A x \in DOMAIN bufs \ {id} : bufs'[x] = bufs[x]
      /\ id \in StreamIds
    BY DEF ParseStep, MultistreamInv, Types
<1>2. Types'
    BY <1>1 DEF MultistreamInv, Types, ParseStep, KeepReading
<1>3. StreamsKnown'
    BY <1>1 DEF MultistreamInv, StreamsKnown, ParseStep
<1>4. Entries'
    BY <1>1, EntriesStep DEF MultistreamInv, Types
<1>5. Turns'
  <2>1. 0 \notin StreamIds
      BY StreamServiceConstants
  <2>2. read_from_stream_buffer = 0 /\ ~ended /\ parsing' = 0 /\ read_from_stream_buffer' = id
      BY <1>1, <2>1 DEF MultistreamInv, Turns, ParseStep, KeepReading
  <2> QED
      BY <1>1, <2>1, <2>2 DEF MultistreamInv, Types, Turns, ParseStep
<1> QED
    BY <1>2, <1>3, <1>4, <1>5 DEF MultistreamInv

LEMMA AnswerKeeps ==
    ASSUME MultistreamInv, NEW id \in DOMAIN bufs, NEW c \in Multistream, ParseStep(id, c),
           Framed(c), NEW message \in Messages, Answer(c, <<message>>),
           \/ c.state \in IncomingStates /\ ~Ours(id)
           \/ c.state = Outgoing /\ Ours(id) /\ message = c.protocol
    PROVE  MultistreamInv'
<1>1. id \in StreamIds /\ parsing = id /\ bufs'[id] = c
    BY DEF MultistreamInv, Types, ParseStep
<1>2. <<message>> \in Seq(Messages)
    OBVIOUS
<1>3. CASE present[id]
  <2>1. SendOn(id, <<message>>) /\ KeepService
      BY <1>1, <1>3 DEF Answer
  <2>2. /\ sent' \in [StreamIds -> Seq(Messages)]
        /\ sent'[id] = sent[id] \o <<message>>
        /\ \A x \in StreamIds \ {id} : sent'[x] = sent[x]
      BY <1>1, <1>2, <2>1, SendType DEF MultistreamInv, Types
  <2>3. sent'[id] # <<>> /\ sent'[id][Len(sent'[id])] = message
    <3>1. sent[id] \in Seq(Messages)
        BY <1>1 DEF MultistreamInv, Types
    <3> QED
        BY <2>2, <3>1
  <2>4. Negotiating(id)'
      BY <1>1, <2>3 DEF Negotiating, Outgoing, IncomingStates
  <2>5. ServiceType' /\ hold' = hold /\ ended' = ended
      BY <2>1, ServiceStep DEF MultistreamInv, Types, KeepService, service
  <2> QED
      BY <2>2, <2>4, <2>5, ParseKeeps DEF MultistreamInv, Types, OutType, Answer
<1>4. CASE ~present[id]
  <2>1. UNCHANGED sent /\ End
      BY <1>1, <1>4 DEF Answer
  <2>2. Negotiating(id)'
      BY <1>1, <2>1 DEF Negotiating, End, Outgoing, IncomingStates
  <2>3. ServiceType' /\ hold' = hold /\ ended'
      BY <2>1, ServiceStep DEF MultistreamInv, Types, End
  <2> QED
      BY <2>1, <2>2, <2>3, ParseKeeps DEF MultistreamInv, Types, OutType, Answer
<1> QED
    BY <1>3, <1>4

LEMMA EmitKeeps ==
    ASSUME MultistreamInv, NEW id \in DOMAIN bufs, NEW c \in Multistream, ParseStep(id, c),
           Framed(c), NEW state \in OutputStates, Emit(c, state), Msg \in Messages,
           c.state \in {"Open", "ClosedByUs"} \/ (c.state \in IncomingStates /\ ~Ours(id))
    PROVE  MultistreamInv'
<1>1. id \in StreamIds /\ parsing = id /\ bufs'[id] = c /\ KeepService /\ UNCHANGED sent
    BY DEF MultistreamInv, Types, ParseStep, Emit
<1>2. Negotiating(id)'
    BY <1>1 DEF Negotiating, Outgoing, IncomingStates
<1>3. ServiceType' /\ hold' = hold /\ ended' = ended
    BY <1>1, ServiceStep DEF MultistreamInv, Types, KeepService, service
<1>4. OutType'
    BY <1>1 DEF Emit, OutType
<1> QED
    BY <1>1, <1>2, <1>3, <1>4, ParseKeeps DEF MultistreamInv, Types

LEMMA AbortKeeps ==
    ASSUME MultistreamInv, NEW states, Parse(states), Abort
    PROVE  MultistreamInv'
<1>1. parsing \in StreamIds /\ read_from_stream_buffer = 0
    BY DEF MultistreamInv, StreamsKnown, Types, Turns, Parse
<1>2. OutType'
    BY DEF Abort, MultistreamInv, Types, OutType
<1> QED
    BY <1>1, <1>2, ResetKeeps DEF Abort, reset_stream_immediately, Parse, KeepReading

LEMMA IncomingTurnKeeps ==
    ASSUME MultistreamInv,
           parse_new_incoming \/ parse_incoming_protocol \/ parse_waiting_for_accept
    PROVE  MultistreamInv'
<1>1. CASE parse_new_incoming
  <2>1. Parse({"NewIncoming"})
      BY <1>1 DEF parse_new_incoming
  <2>2. CASE Msg # HEADER
      BY <1>1, <2>1, <2>2, AbortKeeps DEF parse_new_incoming
  <2>3. CASE Msg = HEADER
    <3>1. PICK id \in DOMAIN bufs, b \in Multistream, c \in Multistream :
              /\ parsing = id /\ parsing' = 0 /\ KeepReading
              /\ b = bufs[id] /\ b.state = "NewIncoming"
              /\ c = AfterMessage(b) /\ Framed(c) /\ ~Ours(id)
        BY <2>1, Parsed DEF IncomingStates
    <3> DEFINE d == [c EXCEPT !.state = "NewIncomingProtocol"]
    <3>2. Answer(d, <<HEADER>>)
        BY <1>1, <2>3, <3>1 DEF parse_new_incoming
    <3>3. d \in Multistream /\ d.buffer = c.buffer /\ d.needs = c.needs /\ d.state = "NewIncomingProtocol"
        BY DEF Multistream, States
    <3> HIDE DEF d
    <3>4. Framed(d)
        BY <3>1, <3>3, SameBuffer
    <3>5. ParseStep(id, d)
        BY <3>1, <3>2 DEF ParseStep, Answer
    <3> QED
        BY <3>1, <3>2, <3>3, <3>4, <3>5, AnswerKeeps DEF IncomingStates, Messages
  <2> QED
      BY <2>2, <2>3
<1>2. CASE parse_incoming_protocol
  <2>1. Parse({"NewIncomingProtocol"})
      BY <1>2 DEF parse_incoming_protocol
  <2>2. CASE Msg = GARBAGE
      BY <1>2, <2>1, <2>2, AbortKeeps DEF parse_incoming_protocol
  <2>3. CASE Msg # GARBAGE
    <3>1. PICK id \in DOMAIN bufs, b \in Multistream, c \in Multistream :
              /\ parsing = id /\ parsing' = 0 /\ KeepReading
              /\ b = bufs[id]
              /\ c = AfterMessage(b) /\ Framed(c) /\ ~Ours(id) /\ Msg \in Messages
        BY <2>1, Parsed DEF IncomingStates
    <3> DEFINE d == [c EXCEPT !.state = "NewIncomingProtocolWaitingForAccept", !.protocol = Msg]
    <3>2. Emit(d, "IncomingProtocol")
        BY <1>2, <2>3, <3>1 DEF parse_incoming_protocol
    <3>3. /\ d \in Multistream /\ d.buffer = c.buffer /\ d.needs = c.needs
          /\ d.state = "NewIncomingProtocolWaitingForAccept"
        BY <3>1 DEF Multistream, States
    <3> HIDE DEF d
    <3>4. Framed(d)
        BY <3>1, <3>3, SameBuffer
    <3>5. ParseStep(id, d)
        BY <3>1, <3>2 DEF ParseStep, Emit
    <3> QED
        BY <3>1, <3>2, <3>3, <3>4, <3>5, EmitKeeps DEF IncomingStates, OutputStates
  <2> QED
      BY <2>2, <2>3
<1>3. CASE parse_waiting_for_accept
    BY <1>3, AbortKeeps DEF parse_waiting_for_accept
<1> QED
    BY <1>1, <1>2, <1>3

LEMMA OutgoingHeaderKeeps ==
    ASSUME MultistreamInv, parse_outgoing_header
    PROVE  MultistreamInv'
<1>1. Parse({Outgoing})
    BY DEF parse_outgoing_header, Outgoing
<1>2. CASE Msg # HEADER
    BY <1>1, <1>2, AbortKeeps DEF parse_outgoing_header
<1>3. CASE Msg = HEADER
  <2>1. PICK id \in DOMAIN bufs, b \in Multistream, c \in Multistream :
            /\ parsing = id /\ parsing' = 0 /\ KeepReading
            /\ b = bufs[id] /\ b.state = Outgoing
            /\ c = AfterMessage(b) /\ Framed(c) /\ c.state = b.state /\ c.protocol = b.protocol
      BY <1>1, Parsed
  <2> DEFINE d == [c EXCEPT !.seen_header = TRUE]
  <2>2. bufs' = [bufs EXCEPT ![id] = d] /\ KeepService /\ UNCHANGED <<out, sent>>
      BY <1>3, <2>1 DEF parse_outgoing_header
  <2>3. /\ d \in Multistream /\ d.buffer = c.buffer /\ d.needs = c.needs
        /\ d.state = c.state /\ d.protocol = c.protocol
      BY DEF Multistream
  <2> HIDE DEF d
  <2>4. Framed(d)
      BY <2>1, <2>3, SameBuffer
  <2>5. ParseStep(id, d)
      BY <2>1, <2>2 DEF ParseStep
  <2>6. Negotiating(id)'
    <3>1. Negotiating(id) /\ ended' = ended /\ bufs'[id] = d
        BY <2>2 DEF MultistreamInv, Entries, KeepService, service
    <3> QED
        BY <2>1, <2>2, <2>3, <3>1 DEF Negotiating
  <2>7. ServiceType' /\ hold' = hold /\ ended' = ended
      BY <2>2, ServiceStep DEF MultistreamInv, Types, KeepService, service
  <2> QED
      BY <2>2, <2>3, <2>4, <2>5, <2>6, <2>7, ParseKeeps DEF MultistreamInv, Types, OutType
<1> QED
    BY <1>2, <1>3

LEMMA OutgoingAnswerKeeps ==
    ASSUME MultistreamInv,
           parse_outgoing_accepted \/ parse_outgoing_try_next \/ parse_outgoing_rejected
    PROVE  MultistreamInv'
<1>1. Parse({Outgoing})
    BY DEF parse_outgoing_accepted, parse_outgoing_try_next, parse_outgoing_rejected, Outgoing
<1>2. PICK id \in DOMAIN bufs, b \in Multistream, c \in Multistream :
          /\ parsing = id /\ parsing' = 0 /\ KeepReading /\ id \in StreamIds
          /\ b = bufs[id] /\ b.state = Outgoing /\ Ours(id)
          /\ c = AfterMessage(b) /\ Framed(c) /\ c.state = b.state /\ c.rest = b.rest
          /\ Msg \in Messages
    BY <1>1, Parsed
<1>3. CASE parse_outgoing_accepted
  <2> DEFINE d == [c EXCEPT !.state = "Open"]
  <2>1. Emit(d, "OutgoingAccepted")
      BY <1>2, <1>3 DEF parse_outgoing_accepted
  <2>2. d \in Multistream /\ d.buffer = c.buffer /\ d.needs = c.needs /\ d.state = "Open"
      BY DEF Multistream, States
  <2> HIDE DEF d
  <2>3. Framed(d)
      BY <1>2, <2>2, SameBuffer
  <2>4. ParseStep(id, d)
      BY <1>2, <2>1 DEF ParseStep, Emit
  <2> QED
      BY <1>2, <2>1, <2>2, <2>3, <2>4, EmitKeeps DEF OutputStates
<1>4. CASE parse_outgoing_try_next
  <2>0. b.rest # <<>> /\ b.rest \in Seq(Protocols)
      BY <1>2, <1>4 DEF parse_outgoing_try_next, Multistream
  <2> DEFINE d == [c EXCEPT !.protocol = Head(b.rest), !.rest = Tail(@)]
  <2>1. Answer(d, <<Head(b.rest)>>)
      BY <1>2, <1>4 DEF parse_outgoing_try_next
  <2>2. Head(b.rest) \in Messages /\ Tail(b.rest) \in Seq(Protocols)
      BY <2>0 DEF Messages
  <2>3. /\ d \in Multistream /\ d.buffer = c.buffer /\ d.needs = c.needs
        /\ d.state = Outgoing /\ d.protocol = Head(b.rest)
      BY <1>2, <2>2 DEF Multistream
  <2> HIDE DEF d
  <2>4. Framed(d)
      BY <1>2, <2>3, SameBuffer
  <2>5. ParseStep(id, d)
      BY <1>2, <2>1 DEF ParseStep, Answer
  <2> QED
      BY <1>2, <2>1, <2>2, <2>3, <2>4, <2>5, AnswerKeeps
<1>5. CASE parse_outgoing_rejected
  <2>1. reset_streams({parsing}) /\ UNCHANGED sent
      BY <1>5 DEF parse_outgoing_rejected, reset_stream_immediately
  <2>2. OutType'
      BY <1>2, <1>5 DEF parse_outgoing_rejected, OutType, OutputStates, Messages
  <2>3. read_from_stream_buffer = 0
      BY <1>1 DEF MultistreamInv, Turns, Parse
  <2> QED
      BY <1>2, <2>1, <2>2, <2>3, ResetKeeps DEF KeepReading
<1> QED
    BY <1>3, <1>4, <1>5

LEMMA DataKeeps ==
    ASSUME MultistreamInv, parse_data
    PROVE  MultistreamInv'
<1>1. Parse({"Open", "ClosedByUs"})
    BY DEF parse_data
<1>2. PICK id \in DOMAIN bufs, b \in Multistream, c \in Multistream :
          /\ parsing = id /\ parsing' = 0 /\ KeepReading
          /\ b = bufs[id] /\ b.state \in {"Open", "ClosedByUs"}
          /\ c = AfterMessage(b) /\ Framed(c) /\ c.state = b.state
          /\ Msg \in Messages
    BY <1>1, Parsed
<1>3. Emit(c, "Data")
    BY <1>2 DEF parse_data
<1>4. ParseStep(id, c)
    BY <1>2, <1>3 DEF ParseStep, Emit
<1> QED
    BY <1>2, <1>3, <1>4, EmitKeeps DEF OutputStates

\* No message: the turn ends, or the connection does.
LEMMA NothingKeeps ==
    ASSUME MultistreamInv, parse_nothing \/ parse_bad_length
    PROVE  MultistreamInv'
<1>1. PICK id \in DOMAIN bufs : parsing = id /\ id \in StreamIds
    BY DEF MultistreamInv, StreamsKnown, Types, parse_nothing, parse_bad_length
<1>2. read_from_stream_buffer = 0 /\ ~ended /\ out = <<>>
    BY DEF MultistreamInv, Turns, parse_nothing, parse_bad_length
<1>3. CASE parse_nothing
  <2>1. PICK b \in Multistream : b = bufs[id] /\ Framed(b) /\ Negotiating(id) /\ Drained(b)
      BY <1>1, <1>3 DEF MultistreamInv, Entries, parse_nothing, Drained
  <2>2. PICK c \in Multistream : c = AfterNothing(b) /\ Framed(c) /\ Drained(c)
      BY <2>1, AfterNothingFramed
  <2>3. c.state = b.state /\ c.protocol = b.protocol
      BY <2>2 DEF AfterNothing, Multistream
  <2>4. /\ bufs' = [bufs EXCEPT ![id] = c]
        /\ parsing' = 0 /\ KeepService /\ UNCHANGED <<read_from_stream_buffer, out, sent>>
      BY <1>1, <1>3, <2>1, <2>2 DEF parse_nothing
  <2>5. /\ DOMAIN bufs' = DOMAIN bufs
        /\ bufs'[id] = c
        /\ \A x \in DOMAIN bufs \ {id} : bufs'[x] = bufs[x]
      BY <2>4
  <2>6. Types'
      BY <2>4, <2>5, ServiceStep DEF MultistreamInv, Types, OutType
  <2>7. StreamsKnown'
      BY <2>4, <2>5 DEF MultistreamInv, StreamsKnown, KeepService, service
  <2>8. Entries'
    <3>1. Negotiating(id)'
        BY <2>1, <2>3, <2>4, <2>5 DEF Negotiating, KeepService, service
    <3> QED
        BY <2>2, <2>4, <2>5, <3>1, EntriesStep DEF MultistreamInv, KeepService, service
  <2>9. Turns'
      BY <1>1, <1>2, <2>2, <2>4, <2>5 DEF MultistreamInv, Turns
  <2> QED
      BY <2>6, <2>7, <2>8, <2>9 DEF MultistreamInv
<1>4. CASE parse_bad_length
  <2>1. End /\ parsing' = 0 /\ UNCHANGED <<bufs, read_from_stream_buffer, out, sent>>
      BY <1>4 DEF parse_bad_length
  <2> QED
      BY <2>1, ServiceStep, EntriesStep
      DEF MultistreamInv, Types, OutType, StreamsKnown, Turns, End
<1> QED
    BY <1>3, <1>4

LEMMA TakeBufferKeeps ==
    ASSUME MultistreamInv, take_buffer
    PROVE  MultistreamInv'
<1>1. ServiceType'
    BY ServiceStep DEF MultistreamInv, Types, take_buffer
<1>2. Types'
    BY <1>1 DEF MultistreamInv, Types, OutType, take_buffer
<1>3. StreamsKnown'
    BY DEF MultistreamInv, StreamsKnown, take_buffer, KeepService, service
<1>4. Entries'
    BY EntriesStep DEF MultistreamInv, take_buffer, KeepService, service
<1>5. Turns'
    BY DEF MultistreamInv, Turns, take_buffer, AtLoopHead, KeepService, service
<1> QED
    BY <1>2, <1>3, <1>4, <1>5 DEF MultistreamInv

\* A turn of next_inner's loop.
LEMMA TurnKeeps ==
    ASSUME MultistreamInv, Turn
    PROVE  MultistreamInv'
BY TakeBufferKeeps, NothingKeeps, IncomingTurnKeeps, OutgoingHeaderKeeps, OutgoingAnswerKeeps,
   DataKeeps DEF Turn

-----------------------------------------------------------------------------
(* The first half of a turn: what the session below has to say *)

LEMMA OpenedKeeps ==
    ASSUME MultistreamInv, NEW id \in StreamIds, recv_opened(id)
    PROVE  MultistreamInv'
<1>1. /\ parsing = 0 /\ out = <<>> /\ ~ended /\ read_from_stream_buffer = 0
      /\ UNCHANGED <<read_from_stream_buffer, out>>
      /\ HandOpened(id) /\ ~Ours(id)
      /\ parsing' = id
    BY DEF recv_opened, Receive, AtLoopHead, HandOpened
<1>2. /\ DOMAIN bufs' = DOMAIN bufs \cup {id}
      /\ \A x \in DOMAIN bufs : bufs'[x] = bufs[x]
      /\ id \notin DOMAIN bufs => bufs'[id] = NewIncoming
    BY DEF recv_opened, Put
<1>3. /\ sent' \in [StreamIds -> Seq(Messages)]
      /\ \A x \in StreamIds \ {id} : sent'[x] = sent[x]
    BY DEF recv_opened, MultistreamInv, Types
<1>4. Types'
    BY <1>1, <1>2, <1>3, ServiceStep DEF MultistreamInv, Types, OutType
<1>5. StreamsKnown'
    BY <1>1, <1>2 DEF MultistreamInv, Types, ServiceType, StreamsKnown, HandOpened
<1>6. Entries'
  <2>1. bufs'[id] \in Multistream /\ Framed(bufs'[id]) /\ Negotiating(id)'
    <3>1. CASE id \in DOMAIN bufs
      <4>1. bufs'[id] = bufs[id] /\ bufs[id] \in Multistream /\ Framed(bufs[id]) /\ Negotiating(id)
          BY <1>2, <3>1 DEF MultistreamInv, Entries
      <4> QED
          BY <1>1, <4>1 DEF Negotiating
    <3>2. CASE id \notin DOMAIN bufs
      <4>1. bufs'[id] = NewIncoming
          BY <1>2, <3>2
      <4>2. NewIncoming \in Multistream
          BY MultistreamConstants DEF NewIncoming, Multistream, States, Messages
      <4> QED
          BY <1>1, <4>1, <4>2 DEF NewIncoming, Framed, Alternate, Negotiating, Outgoing
    <3> QED
        BY <3>1, <3>2
  <2> QED
      BY <1>1, <1>2, <1>3, <2>1, EntriesStep DEF MultistreamInv, Types, HandOpened
<1>7. Turns'
    BY <1>1, <1>2 DEF MultistreamInv, Turns, HandOpened
<1> QED
    BY <1>4, <1>5, <1>6, <1>7 DEF MultistreamInv

LEMMA ReceivedKeeps ==
    ASSUME MultistreamInv, NEW id \in StreamIds, NEW chunk \in Chunks, recv_data(id, chunk)
    PROVE  MultistreamInv'
<1>1. /\ parsing = 0 /\ out = <<>> /\ ~ended /\ read_from_stream_buffer = 0
      /\ UNCHANGED <<read_from_stream_buffer, out, sent>>
      /\ HandData(id) /\ parsing' = id /\ id \in DOMAIN bufs
    BY DEF recv_data, Receive, AtLoopHead
<1>2. PICK b \in Multistream : b = bufs[id] /\ Framed(b) /\ Drained(b) /\ Negotiating(id)
  <2>1. id # 0
      BY StreamServiceConstants
  <2> QED
      BY <1>1, <2>1 DEF MultistreamInv, Entries, Turns
<1> DEFINE c == [b EXCEPT !.buffer = @ \o chunk]
<1>3. c \in Multistream /\ Framed(c)
    BY <1>2, ExtendedFramed DEF recv_data
<1>4. c.state = b.state /\ c.protocol = b.protocol
    BY DEF Multistream
<1>5. bufs' = [bufs EXCEPT ![id] = c]
    BY <1>2, ZenonT(40) DEF recv_data
<1> HIDE DEF c
<1>6. /\ DOMAIN bufs' = DOMAIN bufs
      /\ bufs'[id] = c
      /\ \A x \in DOMAIN bufs \ {id} : bufs'[x] = bufs[x]
    BY <1>1, <1>5
<1>7. Types'
    BY <1>1, <1>6, ServiceStep DEF MultistreamInv, Types, OutType
<1>8. StreamsKnown'
    BY <1>1, <1>6 DEF MultistreamInv, StreamsKnown, HandData
<1>9. Entries'
  <2>1. Negotiating(id)'
      BY <1>1, <1>2, <1>4, <1>6 DEF Negotiating, HandData
  <2> QED
      BY <1>1, <1>3, <1>6, <2>1, EntriesStep DEF MultistreamInv, HandData
<1>10. Turns'
    BY <1>1, <1>6 DEF MultistreamInv, Turns, HandData
<1> QED
    BY <1>7, <1>8, <1>9, <1>10 DEF MultistreamInv

LEMMA RemoteClosedKeeps ==
    ASSUME MultistreamInv, NEW id \in StreamIds, recv_closed(id)
    PROVE  MultistreamInv'
<1>1. /\ parsing = 0 /\ ~ended /\ read_from_stream_buffer = 0
      /\ UNCHANGED <<parsing, read_from_stream_buffer, sent>>
      /\ HandClosed(id)
    BY DEF recv_closed, Receive, AtLoopHead
<1>2. /\ DOMAIN bufs' = DOMAIN bufs \ {id}
      /\ \A x \in DOMAIN bufs' : bufs'[x] = bufs[x]
    BY DEF recv_closed, Without
<1>3. OutType'
    BY DEF recv_closed, OutType, OutputStates, Messages
<1>4. Types'
    BY <1>1, <1>2, <1>3, ServiceStep DEF MultistreamInv, Types
<1>5. StreamsKnown'
    BY <1>1, <1>2 DEF MultistreamInv, Types, ServiceType, StreamsKnown, HandClosed
<1>6. Entries'
    BY <1>1, <1>2, EntriesStep DEF MultistreamInv, HandClosed
<1>7. Turns'
    BY <1>1, <1>2 DEF MultistreamInv, Turns, HandClosed
<1> QED
    BY <1>4, <1>5, <1>6, <1>7 DEF MultistreamInv

\* The session below hands something out, ends or loses a stream.
LEMMA RemoteKeeps ==
    ASSUME MultistreamInv, Remote
    PROVE  MultistreamInv'
<1>1. CASE recv_end
  <2>1. BetweenTurns /\ End /\ UNCHANGED <<bufs, sent>>
      BY <1>1 DEF recv_end, Receive, AtLoopHead, BetweenTurns, MultistreamInv, Types, OutType
  <2> QED
      BY <2>1, EndKeeps
<1>2. ASSUME NEW id \in StreamIds, lose(id)
      PROVE  MultistreamInv'
    BY <1>2, ServiceStep, EntriesStep
    DEF lose, Lose, AtLoopHead, MultistreamInv, Types, OutType, StreamsKnown, Turns
<1>3. ASSUME NEW id \in StreamIds, NEW chunk \in Chunks, recv_data_too_large(id, chunk)
      PROVE  MultistreamInv'
  <2>1. /\ reset_streams({id}) /\ UNCHANGED <<sent, read_from_stream_buffer>>
        /\ parsing = 0 /\ parsing' = 0
      BY <1>3 DEF recv_data_too_large, reset_stream_immediately, Receive, AtLoopHead
  <2>2. OutType'
      BY <1>3 DEF recv_data_too_large, OutType, OutputStates, Messages
  <2> QED
      BY <2>1, <2>2, ResetKeeps DEF MultistreamInv, Types
<1> QED
    BY <1>1, <1>2, <1>3, OpenedKeeps, ReceivedKeeps, RemoteClosedKeeps DEF Remote

-----------------------------------------------------------------------------
(* The layer above, and the invariant *)

LEMMA Sequences1Type == Sequences1(Protocols) \subseteq Seq(Protocols) \ {<<>>}
<1> SUFFICES ASSUME NEW protocols \in Sequences1(Protocols)
             PROVE  protocols \in Seq(Protocols) \ {<<>>}
    OBVIOUS
<1>1. CASE \E x \in Protocols : protocols = <<x>>
    BY <1>1
<1>2. CASE \E x, y \in Protocols : protocols = <<x, y>>
    BY <1>2
<1> QED
    BY <1>1, <1>2 DEF Sequences1

LEMMA AboveKeeps ==
    ASSUME MultistreamInv, Above
    PROVE  MultistreamInv'
<1>1. CASE /\ out # <<>>
           /\ out' = <<>>
           /\ KeepService
           /\ UNCHANGED <<bufs, read_from_stream_buffer, parsing, sent, events>>
  <2>1. BetweenTurns
      BY <1>1 DEF MultistreamInv, Turns, BetweenTurns, OutType
  <2> QED
      BY <1>1, <2>1, TakeKeeps
<1>2. ASSUME NEW protocols \in Sequences1(Protocols), NEW max \in BufferSizes,
             Call(open_stream(protocols, max))
      PROVE  MultistreamInv'
  <2>1. max \in Nat
      BY MultistreamConstants
  <2>2. protocols \in Seq(Protocols) \ {<<>>}
      BY Sequences1Type
  <2> QED
      BY <1>2, <2>1, <2>2, CallBetweenTurns, OpenKeeps DEF Call
<1>3. ASSUME NEW id \in DOMAIN bufs, NEW message \in Payloads,
             Call(Len(sent[id]) < MaxSent /\ send_data(id, message) /\ KeepService /\ UNCHANGED bufs)
      PROVE  MultistreamInv'
  <2>1. id \in StreamIds /\ message \in Messages
      BY DEF MultistreamInv, Types, Messages
  <2> QED
      BY <1>3, <2>1, CallBetweenTurns, SendKeeps DEF Call
<1>4. ASSUME NEW id \in DOMAIN bufs, NEW max \in BufferSizes,
             Call(bufs[id].protocol \in Protocols /\ accept_protocol(id, max) /\ KeepService)
      PROVE  MultistreamInv'
  <2>1. id \in StreamIds /\ max \in Nat
      BY MultistreamConstants DEF MultistreamInv, Types
  <2> QED
      BY <1>4, <2>1, CallBetweenTurns, AcceptKeeps DEF Call
<1>5. ASSUME NEW id \in DOMAIN bufs,
             \/ Call(reject_protocol(id) /\ KeepService)
             \/ Call(close_stream(id) /\ UNCHANGED sent)
             \/ Call(reset_stream_immediately(id) /\ UNCHANGED sent)
      PROVE  MultistreamInv'
  <2>0. parsing = 0 /\ UNCHANGED <<read_from_stream_buffer, parsing, out>>
      BY <1>5, ZenonT(40) DEF Call
  <2>1. id \in StreamIds /\ BetweenTurns
      BY <2>0, CallBetweenTurns DEF MultistreamInv, Types
  <2>2. CASE reject_protocol(id) /\ KeepService
      BY <2>1, <2>2, RejectKeeps
  <2>3. CASE close_stream(id) /\ UNCHANGED sent
      BY <2>1, <2>3, CloseKeeps
  <2>4. CASE reset_stream_immediately(id) /\ UNCHANGED sent
      BY <2>1, <2>4, ResetKeeps
      DEF reset_stream_immediately, BetweenTurns, MultistreamInv, Types
  <2> QED
      BY <1>5, <2>2, <2>3, <2>4, ZenonT(40) DEF Call
<1> QED
    BY <1>1, <1>2, <1>3, <1>4, <1>5 DEF Above

LEMMA InitInv == MultistreamInit => MultistreamInv
<1> SUFFICES ASSUME MultistreamInit PROVE MultistreamInv
    OBVIOUS
<1>1. DOMAIN bufs = {}
    BY DEF MultistreamInit
<1>2. ServiceType
  <2>1. hold \in [StreamIds -> {"none", "open", "closed"}] /\ next_stream_id \in Nat /\ Ours(next_stream_id)
      BY DEF MultistreamInit, ServiceInit, Ours
  <2>2. present \in [StreamIds -> BOOLEAN] /\ ended \in BOOLEAN
      BY ZenonT(40) DEF MultistreamInit, ServiceInit
  <2> QED
      BY <2>1, <2>2 DEF ServiceType
<1>3. sent \in [StreamIds -> Seq(Messages)]
    BY DEF MultistreamInit
<1> QED
    BY <1>1, <1>2, <1>3
    DEF MultistreamInit, ServiceInit, MultistreamInv, Types, OutType, StreamsKnown, Entries, Turns

LEMMA StutterKeeps ==
    ASSUME MultistreamInv, UNCHANGED mvars
    PROVE  MultistreamInv'
BY DEF mvars, service, MultistreamInv, Types, ServiceType, OutType, StreamsKnown, Entries,
       Negotiating, Turns

LEMMA InvHolds == MultistreamSpec => []MultistreamInv
<1>1. MultistreamInv /\ [Turn \/ Remote \/ Above]_mvars => MultistreamInv'
    BY TurnKeeps, RemoteKeeps, AboveKeeps, StutterKeeps
<1> QED
    BY <1>1, InitInv, PTL DEF MultistreamSpec

LEMMA DrainedAtLoopHead == MultistreamInv => NoMessageStranded
<1> SUFFICES ASSUME MultistreamInv, AtLoopHead, read_from_stream_buffer = 0, NEW id \in DOMAIN bufs
             PROVE  ~HasMessage(bufs[id]) /\ ~HasBadLength(bufs[id])
    BY DEF NoMessageStranded
<1>1. id # 0
    BY StreamServiceConstants DEF MultistreamInv, Types
<1> QED
    BY <1>1 DEF MultistreamInv, Turns, AtLoopHead, Drained

\* The two layers agree on which streams there are, whatever the remote sends
\* and whoever calls (next_inner, reset_stream_immediately, close_stream).
THEOREM StreamsKnownTheorem == MultistreamSpec => []StreamsKnown
<1>1. MultistreamInv => StreamsKnown
    BY DEF MultistreamInv
<1> QED
    BY <1>1, InvHolds, PTL

\* next_inner waits for the network only when every message that has arrived in
\* full was handled, for every way of cutting the messages into chunks.
THEOREM NoMessageStrandedTheorem == MultistreamSpec => []NoMessageStranded
BY DrainedAtLoopHead, InvHolds, PTL

-----------------------------------------------------------------------------
(* Streams open on agreement *)

LEMMA NoneOpens ==
    ASSUME \A id \in DOMAIN bufs \cap DOMAIN bufs' : bufs'[id].state = "Open" => bufs[id].state = "Open"
    PROVE  OpensOnAgreement
BY DEF OpensOnAgreement

\* One entry changes, and becomes c.
LEMMA OneOpens ==
    ASSUME NEW id \in DOMAIN bufs, NEW c, bufs' = [bufs EXCEPT ![id] = c],
           bufs[id].state # "Open" /\ c.state = "Open" =>
              IF Ours(id)
              THEN bufs[id].seen_header /\ Message(bufs[id]) = sent[id][Len(sent[id])]
              ELSE /\ Waiting(id)
                   /\ sent'[id] = IF present[id] THEN Append(sent[id], bufs[id].protocol) ELSE sent[id]
    PROVE  OpensOnAgreement
BY DEF OpensOnAgreement

LEMMA FewerEntries ==
    ASSUME NEW ids, bufs' = Without(bufs, ids)
    PROVE  OpensOnAgreement
BY NoneOpens DEF Without

LEMMA TurnAgrees ==
    ASSUME MultistreamInv, Turn
    PROVE  OpensOnAgreement
<1>1. CASE take_buffer \/ parse_bad_length
    BY <1>1, NoneOpens DEF take_buffer, parse_bad_length
<1>2. CASE parse_nothing
  <2>1. PICK id \in DOMAIN bufs, b \in Multistream : parsing = id /\ b = bufs[id]
      BY <1>2 DEF MultistreamInv, StreamsKnown, Entries, parse_nothing
  <2>2. AfterNothing(b).state = b.state
      BY DEF AfterNothing, Multistream
  <2>3. bufs' = [bufs EXCEPT ![id] = AfterNothing(b)]
      BY <1>2, <2>1 DEF parse_nothing
  <2> QED
      BY <2>1, <2>2, <2>3, OneOpens
<1>3. CASE Abort \/ parse_outgoing_rejected
    BY <1>3, FewerEntries DEF Abort, parse_outgoing_rejected, reset_stream_immediately, reset_streams
<1>4. CASE parse_new_incoming /\ ~Abort
  <2>1. PICK id \in DOMAIN bufs, c \in Multistream : parsing = id /\ c = AfterMessage(bufs[id])
      BY <1>4, Parsed DEF parse_new_incoming
  <2>2. bufs' = [bufs EXCEPT ![id] = [c EXCEPT !.state = "NewIncomingProtocol"]]
      BY <1>4, <2>1 DEF parse_new_incoming, Answer
  <2>3. [c EXCEPT !.state = "NewIncomingProtocol"].state = "NewIncomingProtocol"
      BY DEF Multistream
  <2> QED
      BY <2>2, <2>3, OneOpens
<1>5. CASE parse_incoming_protocol /\ ~Abort
  <2>1. PICK id \in DOMAIN bufs, c \in Multistream : parsing = id /\ c = AfterMessage(bufs[id])
      BY <1>5, Parsed DEF parse_incoming_protocol
  <2> DEFINE d == [c EXCEPT !.state = "NewIncomingProtocolWaitingForAccept", !.protocol = Msg]
  <2>2. bufs' = [bufs EXCEPT ![id] = d]
      BY <1>5, <2>1 DEF parse_incoming_protocol, Emit
  <2>3. d.state = "NewIncomingProtocolWaitingForAccept"
      BY DEF Multistream
  <2> HIDE DEF d
  <2> QED
      BY <2>2, <2>3, OneOpens
<1>6. CASE parse_outgoing_header /\ ~Abort
  <2>1. PICK id \in DOMAIN bufs, c \in Multistream :
            parsing = id /\ c = AfterMessage(bufs[id]) /\ c.state = bufs[id].state
      BY <1>6, Parsed DEF parse_outgoing_header
  <2> DEFINE d == [c EXCEPT !.seen_header = TRUE]
  <2>2. bufs' = [bufs EXCEPT ![id] = d]
      BY <1>6, <2>1 DEF parse_outgoing_header
  <2>3. d.state = bufs[id].state
      BY <2>1 DEF Multistream
  <2> HIDE DEF d
  <2> QED
      BY <2>2, <2>3, OneOpens
<1>7. CASE parse_outgoing_accepted
  <2>1. PICK id \in DOMAIN bufs, c \in Multistream :
            /\ parsing = id /\ c = AfterMessage(bufs[id])
            /\ bufs[id].state = Outgoing /\ Ours(id)
      BY <1>7, Parsed DEF parse_outgoing_accepted, Outgoing
  <2>2. bufs' = [bufs EXCEPT ![id] = [c EXCEPT !.state = "Open"]]
      BY <1>7, <2>1 DEF parse_outgoing_accepted, Emit
  <2>3. bufs[id].seen_header /\ Message(bufs[id]) = bufs[id].protocol /\ ~ended
      BY <1>7, <2>1 DEF parse_outgoing_accepted, Agrees, Parse, MultistreamInv, Turns
  <2>4. sent[id][Len(sent[id])] = bufs[id].protocol
      BY <2>1, <2>3 DEF MultistreamInv, Entries, Negotiating
  <2> QED
      BY <2>1, <2>2, <2>3, <2>4, OneOpens
<1>8. CASE parse_outgoing_try_next
  <2>1. PICK id \in DOMAIN bufs, c \in Multistream :
            parsing = id /\ c = AfterMessage(bufs[id]) /\ c.state = Outgoing
      BY <1>8, Parsed DEF parse_outgoing_try_next, Outgoing
  <2> DEFINE d == [c EXCEPT !.protocol = Head(bufs[id].rest), !.rest = Tail(@)]
  <2>2. bufs' = [bufs EXCEPT ![id] = d]
      BY <1>8, <2>1 DEF parse_outgoing_try_next, Answer
  <2>3. d.state = Outgoing
      BY <2>1 DEF Multistream
  <2> HIDE DEF d
  <2> QED
      BY <2>2, <2>3, OneOpens DEF Outgoing
<1>9. CASE parse_data
  <2>1. PICK id \in DOMAIN bufs, c \in Multistream :
            parsing = id /\ c = AfterMessage(bufs[id]) /\ c.state = bufs[id].state
      BY <1>9, Parsed DEF parse_data
  <2>2. bufs' = [bufs EXCEPT ![id] = c]
      BY <1>9, <2>1 DEF parse_data, Emit
  <2> QED
      BY <2>1, <2>2, OneOpens
<1> QED
    BY <1>1, <1>2, <1>3, <1>4, <1>5, <1>6, <1>7, <1>8, <1>9 DEF Turn, parse_waiting_for_accept

LEMMA RemoteAgrees ==
    ASSUME MultistreamInv, Remote
    PROVE  OpensOnAgreement
<1>1. CASE recv_end \/ \E id \in StreamIds : lose(id)
    BY <1>1, NoneOpens DEF recv_end, lose
<1>2. ASSUME NEW id \in StreamIds, recv_opened(id)
      PROVE  OpensOnAgreement
    BY <1>2, NoneOpens DEF recv_opened, Put
<1>3. ASSUME NEW id \in StreamIds, recv_closed(id)
      PROVE  OpensOnAgreement
    BY <1>3, FewerEntries DEF recv_closed
<1>4. ASSUME NEW id \in StreamIds, NEW chunk \in Chunks, recv_data_too_large(id, chunk)
      PROVE  OpensOnAgreement
    BY <1>4, FewerEntries DEF recv_data_too_large, reset_stream_immediately, reset_streams
<1>5. ASSUME NEW id \in StreamIds, NEW chunk \in Chunks, recv_data(id, chunk)
      PROVE  OpensOnAgreement
  <2>1. PICK b \in Multistream : b = bufs[id] /\ id \in DOMAIN bufs
      BY <1>5 DEF recv_data, MultistreamInv, Entries
  <2> DEFINE c == [b EXCEPT !.buffer = @ \o chunk]
  <2>2. bufs' = [bufs EXCEPT ![id] = c]
      BY <1>5, <2>1, ZenonT(40) DEF recv_data
  <2>3. c.state = b.state
      BY DEF Multistream
  <2> HIDE DEF c
  <2> QED
      BY <2>1, <2>2, <2>3, OneOpens
<1> QED
    BY <1>1, <1>2, <1>3, <1>4, <1>5 DEF Remote

LEMMA AboveAgrees ==
    ASSUME MultistreamInv, Above
    PROVE  OpensOnAgreement
<1>1. CASE UNCHANGED bufs
    BY <1>1, NoneOpens
<1>2. ASSUME NEW protocols, NEW max, open_stream(protocols, max)
      PROVE  OpensOnAgreement
    BY <1>2, NoneOpens DEF open_stream, Put, NewOutgoing
<1>3. ASSUME NEW id \in DOMAIN bufs, NEW max, accept_protocol(id, max)
      PROVE  OpensOnAgreement
  <2>0. CASE ~Waiting(id)
      BY <1>3, <2>0, NoneOpens DEF accept_protocol
  <2> SUFFICES ASSUME Waiting(id)
               PROVE  OpensOnAgreement
      BY <2>0
  <2>1. PICK b \in Multistream : b = bufs[id]
      BY DEF MultistreamInv, Entries
  <2>2. bufs' = [bufs EXCEPT ![id] = [b EXCEPT !.state = "Open", !.max_buffer_size = max]]
      BY <1>3, <2>1, ZenonT(40) DEF accept_protocol
  <2>3. ~Ours(id)
      BY DEF MultistreamInv, Entries, Negotiating, IncomingStates, Waiting
  <2>4. sent'[id] = IF present[id] THEN Append(sent[id], bufs[id].protocol) ELSE sent[id]
    <3>1. sent \in [StreamIds -> Seq(Messages)] /\ id \in StreamIds /\ b.protocol \in Messages
        BY DEF MultistreamInv, Types, Multistream
    <3>2. CASE present[id]
      <4>1. sent'[id] = sent[id] \o <<b.protocol>>
          BY <1>3, <2>1, <3>1, <3>2 DEF accept_protocol, Reply, SendOn
      <4> QED
          BY <2>1, <3>1, <3>2, <4>1, AppendedIsJoined
    <3>3. CASE ~present[id]
        BY <1>3, <3>3 DEF accept_protocol, Reply
    <3> QED
        BY <3>2, <3>3
  <2> QED
      BY <2>2, <2>3, <2>4, OneOpens
<1>4. ASSUME NEW id \in DOMAIN bufs, NEW state, state # "Open", bufs' = [bufs EXCEPT ![id].state = state]
      PROVE  OpensOnAgreement
  <2>1. PICK b \in Multistream : b = bufs[id]
      BY DEF MultistreamInv, Entries
  <2>2. bufs' = [bufs EXCEPT ![id] = [b EXCEPT !.state = state]]
      BY <1>4, <2>1, ZenonT(40)
  <2>3. [b EXCEPT !.state = state].state = state
      BY DEF Multistream
  <2> QED
      BY <1>4, <2>2, <2>3, OneOpens
<1>5. ASSUME NEW id \in DOMAIN bufs, reset_stream_immediately(id)
      PROVE  OpensOnAgreement
    BY <1>5, FewerEntries DEF reset_stream_immediately, reset_streams
<1>6. ASSUME NEW id \in DOMAIN bufs, reject_protocol(id) \/ close_stream(id)
      PROVE  OpensOnAgreement
    BY <1>1, <1>4, <1>6 DEF reject_protocol, close_stream
<1>7. ASSUME NEW id \in DOMAIN bufs,
             \/ Call(reject_protocol(id) /\ KeepService)
             \/ Call(close_stream(id) /\ UNCHANGED sent)
             \/ Call(reset_stream_immediately(id) /\ UNCHANGED sent)
      PROVE  OpensOnAgreement
  <2>1. reject_protocol(id) \/ close_stream(id) \/ reset_stream_immediately(id)
      BY <1>7, ZenonT(40) DEF Call
  <2> QED
      BY <1>5, <1>6, <2>1
<1> QED
    BY <1>1, <1>2, <1>3, <1>7 DEF Above, Call

\* A stream of ours opens only when the remote repeats the protocol that we sent
\* last, a stream of theirs only when we accept theirs, which repeats it unless
\* the session has lost the stream: whatever arrives, and whatever the layer
\* above does in between (parse_outgoing_accepted, accept_protocol).
THEOREM OpenOnAgreementTheorem == MultistreamSpec => OpenOnAgreement
<1>1. MultistreamInv /\ [Turn \/ Remote \/ Above]_mvars => [OpensOnAgreement]_mvars
    BY TurnAgrees, RemoteAgrees, AboveAgrees
<1> QED
    BY <1>1, InvHolds, PTL DEF MultistreamSpec, OpenOnAgreement

-----------------------------------------------------------------------------
(* Negotiation comes first *)

LEMMA NegotiatedStep ==
    ASSUME Negotiated, ended => ended', RemoteReopensOnlyClosed,
           \A id \in DOMAIN bufs' :
              \/ /\ id \in DOMAIN bufs
                 /\ sent'[id] = sent[id]
                 /\ bufs'[id].state = bufs[id].state
                 /\ bufs'[id].protocol = bufs[id].protocol
              \/ NegotiatedStream(id)'
    PROVE  Negotiated'
<1> SUFFICES ASSUME NEW id \in DOMAIN bufs, sent'[id] = sent[id], bufs'[id].state = bufs[id].state,
                    bufs'[id].protocol = bufs[id].protocol
             PROVE  NegotiatedStream(id)'
    BY DEF Negotiated
<1>1. NegotiatedStream(id) /\ (present'[id] => present[id])
    BY DEF Negotiated, RemoteReopensOnlyClosed
<1> QED
    BY <1>1 DEF NegotiatedStream

LEMMA FewerNegotiated ==
    ASSUME Negotiated, NEW ids, bufs' = Without(bufs, ids), UNCHANGED sent, ended => ended',
           RemoteReopensOnlyClosed
    PROVE  Negotiated'
<1>1. DOMAIN bufs' \subseteq DOMAIN bufs /\ \A id \in DOMAIN bufs' : bufs'[id] = bufs[id]
    BY DEF Without
<1> QED
    BY <1>1, NegotiatedStep

LEMMA OneNegotiated ==
    ASSUME Negotiated, NEW id \in DOMAIN bufs, NEW c, bufs' = [bufs EXCEPT ![id] = c],
           \A x \in DOMAIN bufs \ {id} : sent'[x] = sent[x],
           ended => ended', NegotiatedStream(id)', RemoteReopensOnlyClosed
    PROVE  Negotiated'
BY NegotiatedStep

\* One more message on a stream.
LEMMA SentOneMore ==
    ASSUME NEW s \in Seq(Messages), NEW m \in Messages, NEW t, t = s \o <<m>>,
           s # <<>>, s[1] = HEADER, PayloadsLast(s),
           m \in Payloads => \E j \in DOMAIN s : s[j] \in Protocols
    PROVE  /\ t # <<>> /\ t[1] = HEADER /\ PayloadsLast(t)
           /\ (m \notin Payloads /\ \A i \in DOMAIN s : s[i] \notin Payloads)
                 => \A i \in DOMAIN t : t[i] \notin Payloads
           /\ (m \in Protocols \/ \E j \in DOMAIN s : s[j] \in Protocols)
                 => \E j \in DOMAIN t : t[j] \in Protocols
<1>1. /\ Len(s) \in Nat \ {0} /\ DOMAIN s = 1 .. Len(s)
      /\ t \in Seq(Messages) /\ DOMAIN t = 1 .. Len(t) /\ Len(t) = Len(s) + 1
    OBVIOUS
<1>2. t[Len(s) + 1] = m /\ \A i \in 1 .. Len(s) : t[i] = s[i]
    OBVIOUS
<1>3. t # <<>> /\ t[1] = HEADER
    BY <1>1, <1>2
<1>4. PayloadsLast(t)
  <2> SUFFICES ASSUME NEW i \in 1 .. Len(s) + 1, t[i] \in Payloads
               PROVE  \E j \in 1 .. i - 1 : t[j] \in Protocols
      BY <1>1, <1>3 DEF PayloadsLast
  <2>1. CASE i = Len(s) + 1
      BY <1>1, <1>2, <2>1
  <2>2. CASE i \in 1 .. Len(s)
    <3>1. PICK j \in 1 .. i - 1 : s[j] \in Protocols
        BY <1>1, <1>2, <2>2 DEF PayloadsLast
    <3>2. j \in 1 .. Len(s)
        BY <1>1, <2>2
    <3> QED
        BY <1>2, <3>1, <3>2
  <2> QED
      BY <1>1, <2>1, <2>2
<1>5. ASSUME m \notin Payloads, \A i \in DOMAIN s : s[i] \notin Payloads
      PROVE  \A i \in DOMAIN t : t[i] \notin Payloads
    BY <1>1, <1>2, <1>5
<1>6. ASSUME m \in Protocols \/ \E j \in DOMAIN s : s[j] \in Protocols
      PROVE  \E j \in DOMAIN t : t[j] \in Protocols
    BY <1>1, <1>2, <1>6
<1> QED
    BY <1>3, <1>4, <1>5, <1>6

LEMMA OpenNegotiates ==
    ASSUME MultistreamInv, Negotiated, NEW protocols \in Seq(Protocols) \ {<<>>}, NEW max,
           open_stream(protocols, max), RemoteReopensOnlyClosed
    PROVE  Negotiated'
<1>1. PICK id \in StreamIds : id = next_stream_id
    BY DEF open_stream, OpenStream
<1>2. /\ bufs' = Put(bufs, id, NewOutgoing(protocols, max))
      /\ sent' = [sent EXCEPT ![id] = <<HEADER, Head(protocols)>>]
      /\ UNCHANGED ended
    BY <1>1 DEF open_stream, OpenStream
<1>3. /\ bufs'[id].state = Outgoing /\ bufs'[id].protocol = Head(protocols)
      /\ \A x \in DOMAIN bufs' \ {id} : x \in DOMAIN bufs /\ bufs'[x] = bufs[x]
    BY <1>2 DEF Put, NewOutgoing, Outgoing
<1>4. /\ sent'[id] = <<HEADER, Head(protocols)>>
      /\ \A x \in StreamIds \ {id} : sent'[x] = sent[x]
    BY <1>2 DEF MultistreamInv, Types
<1>5. Head(protocols) \in Protocols
    OBVIOUS
<1>6. NegotiatedStream(id)'
    BY <1>3, <1>4, <1>5, MultistreamConstants DEF NegotiatedStream, PayloadsLast, Outgoing
<1> QED
    BY <1>2, <1>3, <1>4, <1>6, NegotiatedStep DEF MultistreamInv, Types

\* A payload is sent, and the stream may be closed behind it.
LEMMA SendNegotiates ==
    ASSUME MultistreamInv, Negotiated, ~ended, UNCHANGED ended,
           NEW id \in StreamIds, NEW message \in Payloads, send_data(id, message),
           UNCHANGED bufs \/ close_stream(id), RemoteReopensOnlyClosed
    PROVE  Negotiated'
<1>1. PICK b \in Multistream : b = bufs[id] /\ b.state = "Open" /\ id \in DOMAIN bufs
    BY DEF send_data, CanSend, MultistreamInv, Entries
<1>2. /\ DOMAIN bufs' = DOMAIN bufs
      /\ bufs'[id].state \in {"Open", "ClosedByUs"}
      /\ \A x \in DOMAIN bufs \ {id} : bufs'[x] = bufs[x]
  <2>1. CASE UNCHANGED bufs
      BY <1>1, <2>1
  <2>2. CASE close_stream(id)
    <3>1. bufs' = [bufs EXCEPT ![id] = [b EXCEPT !.state = "ClosedByUs"]]
        BY <1>1, <2>2, ZenonT(40) DEF close_stream
    <3>2. [b EXCEPT !.state = "ClosedByUs"].state = "ClosedByUs"
        BY DEF Multistream
    <3> QED
        BY <1>1, <3>1, <3>2
  <2> QED
      BY <2>1, <2>2
<1>3. message \in Messages /\ <<message>> \in Seq(Messages)
    BY DEF Messages
<1>4. /\ sent'[id] = sent[id] \o <<message>> /\ sent[id] \in Seq(Messages)
      /\ \A x \in StreamIds \ {id} : sent'[x] = sent[x]
    BY <1>3, SendType DEF send_data, MultistreamInv, Types
<1>5. NegotiatedStream(id)
    BY <1>1 DEF Negotiated
<1>6. /\ sent'[id] # <<>> /\ sent'[id][1] = HEADER /\ PayloadsLast(sent'[id])
      /\ \E j \in DOMAIN sent'[id] : sent'[id][j] \in Protocols
  <2>1. /\ sent[id] # <<>> /\ sent[id][1] = HEADER /\ PayloadsLast(sent[id])
        /\ \E j \in DOMAIN sent[id] : sent[id][j] \in Protocols
      BY <1>1, <1>5 DEF NegotiatedStream, send_data, CanSend
  <2>2. PICK s \in Seq(Messages), t \in Seq(Messages) : s = sent[id] /\ t = sent'[id] /\ t = s \o <<message>>
      BY <1>3, <1>4, SendType DEF send_data, MultistreamInv, Types
  <2>3. /\ t # <<>> /\ t[1] = HEADER /\ PayloadsLast(t)
        /\ \E j \in DOMAIN t : t[j] \in Protocols
      BY <1>3, <2>1, <2>2, SentOneMore, ZenonT(40)
  <2> QED
      BY <2>2, <2>3
<1>7. NegotiatedStream(id)'
    BY <1>2, <1>6 DEF NegotiatedStream, Outgoing
<1> QED
    BY <1>1, <1>2, <1>4, <1>7, NegotiatedStep DEF MultistreamInv, Types

\* We answer the remote's proposal, if the session still has the stream: state
\* says how.
LEMMA ReplyNegotiates ==
    ASSUME MultistreamInv, Negotiated, ~ended, RemoteReopensOnlyClosed,
           NEW id \in StreamIds, Waiting(id), NEW c, bufs' = [bufs EXCEPT ![id] = c],
           NEW message \in Messages \ Payloads, Reply(id, message),
           \/ c.state = "Open" /\ message \in Protocols
           \/ c.state = "NewIncomingProtocol"
    PROVE  Negotiated'
<1>1. /\ id \in DOMAIN bufs /\ bufs[id].state = "NewIncomingProtocolWaitingForAccept"
      /\ NegotiatedStream(id) /\ bufs'[id] = c
    BY DEF Waiting, Negotiated
<1>2. /\ sent[id] # <<>> /\ sent[id][1] = HEADER /\ PayloadsLast(sent[id])
      /\ \A i \in DOMAIN sent[id] : sent[id][i] \notin Payloads
    BY <1>1 DEF NegotiatedStream
<1>3. CASE present[id]
  <2>1. /\ sent'[id] = sent[id] \o <<message>> /\ sent[id] \in Seq(Messages)
        /\ \A x \in StreamIds \ {id} : sent'[x] = sent[x]
    <3>1. <<message>> \in Seq(Messages)
        OBVIOUS
    <3> QED
        BY <1>3, <3>1, SendType DEF MultistreamInv, Types, Reply
  <2>2. /\ sent'[id] # <<>> /\ sent'[id][1] = HEADER /\ PayloadsLast(sent'[id])
        /\ \A i \in DOMAIN sent'[id] : sent'[id][i] \notin Payloads
        /\ message \in Protocols => \E j \in DOMAIN sent'[id] : sent'[id][j] \in Protocols
      BY ZenonT(40), <1>2, <2>1, SentOneMore
  <2>3. NegotiatedStream(id)'
      BY <1>1, <2>2 DEF NegotiatedStream, Outgoing
  <2> QED
      BY <1>1, <2>1, <2>3, OneNegotiated DEF MultistreamInv, Types
<1>4. CASE ~present[id]
  <2>1. UNCHANGED sent /\ ~present'[id]
      BY <1>1, <1>4 DEF Reply, RemoteReopensOnlyClosed
  <2>2. NegotiatedStream(id)'
      BY <1>1, <1>2, <2>1 DEF NegotiatedStream, Outgoing
  <2> QED
      BY <1>1, <2>1, <2>2, OneNegotiated
<1> QED
    BY <1>3, <1>4

LEMMA AcceptNegotiates ==
    ASSUME MultistreamInv, Negotiated, ~ended, RemoteReopensOnlyClosed, NEW id \in StreamIds, NEW max,
           accept_protocol(id, max), bufs[id].protocol \in Protocols
    PROVE  Negotiated'
<1>0. CASE ~Waiting(id)
    BY <1>0, NegotiatedStep DEF accept_protocol
<1> SUFFICES ASSUME Waiting(id)
             PROVE  Negotiated'
    BY <1>0
<1>1. PICK b \in Multistream : b = bufs[id]
    BY DEF Waiting, MultistreamInv, Entries
<1> DEFINE c == [b EXCEPT !.state = "Open", !.max_buffer_size = max]
<1>2. bufs' = [bufs EXCEPT ![id] = c]
    BY <1>1, ZenonT(40) DEF accept_protocol
<1>3. c.state = "Open"
    BY DEF Multistream
<1>4. bufs[id].protocol \in Messages \ Payloads
    BY MultistreamConstants DEF Messages
<1> HIDE DEF c
<1> QED
    BY <1>2, <1>3, <1>4, ReplyNegotiates DEF accept_protocol

LEMMA RejectNegotiates ==
    ASSUME MultistreamInv, Negotiated, ~ended, RemoteReopensOnlyClosed, NEW id \in StreamIds,
           reject_protocol(id)
    PROVE  Negotiated'
<1>0. CASE ~Waiting(id)
    BY <1>0, NegotiatedStep DEF reject_protocol
<1> SUFFICES ASSUME Waiting(id)
             PROVE  Negotiated'
    BY <1>0
<1>1. PICK b \in Multistream : b = bufs[id]
    BY DEF Waiting, MultistreamInv, Entries
<1> DEFINE c == [b EXCEPT !.state = "NewIncomingProtocol"]
<1>2. bufs' = [bufs EXCEPT ![id] = c]
    BY <1>1, ZenonT(40) DEF reject_protocol
<1>3. c.state = "NewIncomingProtocol"
    BY DEF Multistream
<1>4. NA \in Messages \ Payloads
    BY MultistreamConstants DEF Messages
<1> HIDE DEF c
<1> QED
    BY <1>2, <1>3, <1>4, ReplyNegotiates DEF reject_protocol

LEMMA CloseNegotiates ==
    ASSUME MultistreamInv, Negotiated, UNCHANGED <<ended, sent>>, NEW id \in StreamIds,
           close_stream(id), RemoteReopensOnlyClosed
    PROVE  Negotiated'
<1>1. CASE id \notin DOMAIN bufs
    BY <1>1, NegotiatedStep DEF close_stream
<1>2. CASE id \in DOMAIN bufs
  <2>1. PICK b \in Multistream : b = bufs[id]
      BY <1>2 DEF MultistreamInv, Entries
  <2> DEFINE c == [b EXCEPT !.state = "ClosedByUs"]
  <2>2. bufs' = [bufs EXCEPT ![id] = c]
      BY <1>2, <2>1, ZenonT(40) DEF close_stream
  <2>3. c.state = "ClosedByUs"
      BY DEF Multistream
  <2> HIDE DEF c
  <2>4. NegotiatedStream(id)'
    <3>1. NegotiatedStream(id) /\ bufs'[id] = c
        BY <1>2, <2>2 DEF Negotiated
    <3> QED
        BY <2>3, <3>1 DEF NegotiatedStream, Outgoing
  <2> QED
      BY <1>2, <2>2, <2>4, OneNegotiated
<1> QED
    BY <1>1, <1>2

LEMMA TurnNegotiates ==
    ASSUME MultistreamInv, Negotiated, Turn, RemoteReopensOnlyClosed
    PROVE  Negotiated'
<1>1. CASE take_buffer \/ parse_bad_length
    BY <1>1, NegotiatedStep DEF take_buffer, parse_bad_length, KeepService, service, End
<1>2. CASE parse_nothing
  <2>1. PICK id \in DOMAIN bufs, b \in Multistream : parsing = id /\ b = bufs[id]
      BY <1>2 DEF MultistreamInv, StreamsKnown, Entries, parse_nothing
  <2>2. AfterNothing(b).state = b.state /\ AfterNothing(b).protocol = b.protocol
      BY DEF AfterNothing, Multistream
  <2>3. bufs' = [bufs EXCEPT ![id] = AfterNothing(b)] /\ UNCHANGED <<sent, ended>>
      BY <1>2, <2>1 DEF parse_nothing, KeepService, service
  <2> QED
      BY <2>1, <2>2, <2>3, NegotiatedStep
<1>3. CASE Abort \/ parse_outgoing_rejected
  <2>1. bufs' = Without(bufs, {parsing}) /\ UNCHANGED <<sent, ended>>
      BY <1>3 DEF Abort, parse_outgoing_rejected, reset_stream_immediately, reset_streams
  <2> QED
      BY <2>1, FewerNegotiated
<1>4. CASE parse_new_incoming /\ ~Abort
  <2>1. PICK id \in DOMAIN bufs, c \in Multistream :
            parsing = id /\ id \in StreamIds /\ c = AfterMessage(bufs[id]) /\ bufs[id].state = "NewIncoming"
      BY <1>4, Parsed DEF parse_new_incoming
  <2> DEFINE d == [c EXCEPT !.state = "NewIncomingProtocol"]
  <2>2. Answer(d, <<HEADER>>) /\ d.state = "NewIncomingProtocol"
      BY <1>4, <2>1 DEF parse_new_incoming, Multistream
  <2> HIDE DEF d
  <2>3. sent[id] = <<>> /\ bufs' = [bufs EXCEPT ![id] = d] /\ bufs'[id] = d
      BY <2>1, <2>2 DEF Negotiated, NegotiatedStream, Answer
  <2>4. CASE present[id]
    <3>1. SendOn(id, <<HEADER>>) /\ KeepService
        BY <2>1, <2>2, <2>4 DEF Answer
    <3>2. sent'[id] = <<>> \o <<HEADER>> /\ \A x \in StreamIds \ {id} : sent'[x] = sent[x]
        BY <2>1, <2>3, <3>1 DEF SendOn, MultistreamInv, Types
    <3>3. sent'[id] = <<HEADER>>
        BY <3>2
    <3>4. NegotiatedStream(id)'
        BY <2>2, <2>3, <3>3, MultistreamConstants DEF NegotiatedStream, PayloadsLast, Outgoing
    <3> QED
        BY <2>3, <3>1, <3>2, <3>4, OneNegotiated DEF KeepService, service, MultistreamInv, Types
  <2>5. CASE ~present[id]
    <3>1. UNCHANGED sent /\ ended'
        BY <2>1, <2>2, <2>5 DEF Answer, End
    <3>2. NegotiatedStream(id)'
        BY <2>2, <2>3, <3>1 DEF NegotiatedStream, PayloadsLast, Outgoing
    <3> QED
        BY <2>3, <3>1, <3>2, OneNegotiated
  <2> QED
      BY <2>4, <2>5
<1>5. CASE parse_incoming_protocol /\ ~Abort
  <2>1. PICK id \in DOMAIN bufs, c \in Multistream :
            parsing = id /\ c = AfterMessage(bufs[id]) /\ bufs[id].state = "NewIncomingProtocol"
      BY <1>5, Parsed DEF parse_incoming_protocol
  <2> DEFINE d == [c EXCEPT !.state = "NewIncomingProtocolWaitingForAccept", !.protocol = Msg]
  <2>2. bufs' = [bufs EXCEPT ![id] = d] /\ UNCHANGED <<sent, ended>>
      BY <1>5, <2>1 DEF parse_incoming_protocol, Emit, KeepService, service
  <2>3. d.state = "NewIncomingProtocolWaitingForAccept"
      BY DEF Multistream
  <2> HIDE DEF d
  <2>4. NegotiatedStream(id) /\ bufs'[id] = d
      BY <2>2 DEF Negotiated
  <2>5. NegotiatedStream(id)'
      BY <2>1, <2>2, <2>3, <2>4 DEF NegotiatedStream, Outgoing
  <2> QED
      BY <2>2, <2>5, OneNegotiated
<1>6. CASE parse_outgoing_header /\ ~Abort
  <2>1. PICK id \in DOMAIN bufs, b \in Multistream, c \in Multistream :
            /\ parsing = id /\ b = bufs[id] /\ c = AfterMessage(b)
            /\ c.state = b.state /\ c.protocol = b.protocol
      BY <1>6, Parsed DEF parse_outgoing_header
  <2> DEFINE d == [c EXCEPT !.seen_header = TRUE]
  <2>2. bufs' = [bufs EXCEPT ![id] = d] /\ UNCHANGED <<sent, ended>>
      BY <1>6, <2>1 DEF parse_outgoing_header, KeepService, service
  <2>3. d.state = b.state /\ d.protocol = b.protocol
      BY <2>1 DEF Multistream
  <2> HIDE DEF d
  <2> QED
      BY <2>1, <2>2, <2>3, NegotiatedStep
<1>7. CASE parse_outgoing_accepted
  <2>1. PICK id \in DOMAIN bufs, c \in Multistream :
            /\ parsing = id /\ id \in StreamIds /\ c = AfterMessage(bufs[id])
            /\ bufs[id].state = Outgoing
      BY <1>7, Parsed DEF parse_outgoing_accepted, Outgoing
  <2> DEFINE d == [c EXCEPT !.state = "Open"]
  <2>2. bufs' = [bufs EXCEPT ![id] = d] /\ UNCHANGED <<sent, ended>>
      BY <1>7, <2>1 DEF parse_outgoing_accepted, Emit, KeepService, service
  <2>3. d.state = "Open"
      BY DEF Multistream
  <2> HIDE DEF d
  <2>4. NegotiatedStream(id) /\ bufs'[id] = d
      BY <2>2 DEF Negotiated
  <2>5. ~ended /\ sent[id] # <<>> /\ sent[id] \in Seq(Messages) /\ sent[id][Len(sent[id])] \in Protocols
      BY <1>7, <2>1, <2>4
      DEF parse_outgoing_accepted, Parse, MultistreamInv, Types, Turns, Entries, Negotiating, NegotiatedStream
  <2>6. Len(sent[id]) \in DOMAIN sent[id]
      BY <2>5
  <2>7. NegotiatedStream(id)'
      BY <2>1, <2>2, <2>3, <2>4, <2>5, <2>6 DEF NegotiatedStream, Outgoing
  <2> QED
      BY <2>2, <2>7, OneNegotiated
<1>8. CASE parse_outgoing_try_next
  <2>1. PICK id \in DOMAIN bufs, b \in Multistream, c \in Multistream :
            /\ parsing = id /\ id \in StreamIds /\ b = bufs[id] /\ b.state = Outgoing
            /\ c = AfterMessage(b) /\ c.state = Outgoing
      BY <1>8, Parsed DEF parse_outgoing_try_next, Outgoing
  <2>2. b.rest # <<>> /\ b.rest \in Seq(Protocols)
      BY <1>8, <2>1 DEF parse_outgoing_try_next, Multistream
  <2>3. PICK p \in Protocols : p = Head(b.rest)
      BY <2>2
  <2> DEFINE d == [c EXCEPT !.protocol = Head(b.rest), !.rest = Tail(@)]
  <2>4. Answer(d, <<p>>) /\ bufs' = [bufs EXCEPT ![id] = d]
      BY <1>8, <2>1, <2>3 DEF parse_outgoing_try_next, Answer
  <2>5. d.state = Outgoing /\ d.protocol = p
      BY <2>1, <2>3 DEF Multistream
  <2> HIDE DEF d
  <2>6. NegotiatedStream(id) /\ bufs'[id] = d /\ ~ended
      BY <1>8, <2>4 DEF Negotiated, MultistreamInv, Turns, parse_outgoing_try_next, Parse
  <2>7. CASE present[id]
    <3>1. SendOn(id, <<p>>) /\ KeepService
        BY <2>1, <2>4, <2>7 DEF Answer
    <3>2. p \in Messages /\ p \notin Payloads /\ <<p>> \in Seq(Messages)
        BY MultistreamConstants DEF Messages
    <3>3. PICK s \in Seq(Messages), t \in Seq(Messages) :
              /\ s = sent[id] /\ t = sent'[id] /\ t = s \o <<p>>
              /\ \A x \in StreamIds \ {id} : sent'[x] = sent[x]
        BY <2>1, <3>1, <3>2, SendType DEF MultistreamInv, Types
    <3>4. s # <<>> /\ s[1] = HEADER /\ PayloadsLast(s) /\ \A i \in DOMAIN s : s[i] \notin Payloads
        BY <2>1, <2>6, <3>3 DEF NegotiatedStream, Outgoing
    <3>. p \in Messages /\ p \notin Payloads /\ t = s \o <<p>>
        BY <3>2, <3>3
    <3>5. t # <<>> /\ t[1] = HEADER /\ PayloadsLast(t) /\ \A i \in DOMAIN t : t[i] \notin Payloads
        BY <3>4, SentOneMore
    <3>6. NegotiatedStream(id)'
        BY <3>2, <3>4, <2>5, <2>6, <3>3, <3>5 DEF NegotiatedStream, Outgoing
    <3> QED
        BY <2>4, <3>1, <3>3, <3>6, OneNegotiated DEF KeepService, service, MultistreamInv, Types
  <2>8. CASE ~present[id]
    <3>1. UNCHANGED sent /\ ended'
        BY <2>1, <2>4, <2>8 DEF Answer, End
    <3>2. NegotiatedStream(id)'
        BY <2>1, <2>5, <2>6, <3>1 DEF NegotiatedStream, Outgoing
    <3> QED
        BY <2>4, <3>1, <3>2, OneNegotiated
  <2> QED
      BY <2>7, <2>8
<1>9. CASE parse_data
  <2>1. PICK id \in DOMAIN bufs, b \in Multistream, c \in Multistream :
            /\ parsing = id /\ b = bufs[id] /\ c = AfterMessage(b)
            /\ c.state = b.state /\ c.protocol = b.protocol
      BY <1>9, Parsed DEF parse_data
  <2>2. bufs' = [bufs EXCEPT ![id] = c] /\ UNCHANGED <<sent, ended>>
      BY <1>9, <2>1 DEF parse_data, Emit, KeepService, service
  <2> QED
      BY <2>1, <2>2, NegotiatedStep
<1> QED
    BY <1>1, <1>2, <1>3, <1>4, <1>5, <1>6, <1>7, <1>8, <1>9 DEF Turn, parse_waiting_for_accept

LEMMA RemoteNegotiates ==
    ASSUME MultistreamInv, Negotiated, Remote, RemoteReopensOnlyClosed
    PROVE  Negotiated'
<1>1. CASE recv_end \/ \E id \in StreamIds : lose(id)
    BY <1>1, NegotiatedStep DEF recv_end, End, lose, Lose
<1>2. ASSUME NEW id \in StreamIds, recv_opened(id)
      PROVE  Negotiated'
  <2>1. id \notin DOMAIN bufs
    <3>1. ~present[id] /\ present'[id]
        BY <1>2 DEF recv_opened, HandOpened, MultistreamInv, Types, ServiceType
    <3> QED
        BY <3>1 DEF RemoteReopensOnlyClosed
  <2>2. /\ DOMAIN bufs' = DOMAIN bufs \cup {id}
        /\ bufs'[id] = NewIncoming
        /\ \A x \in DOMAIN bufs : bufs'[x] = bufs[x]
      BY <1>2, <2>1 DEF recv_opened, Put
  <2>3. /\ sent'[id] = <<>> /\ UNCHANGED ended
        /\ \A x \in StreamIds \ {id} : sent'[x] = sent[x]
      BY <1>2 DEF recv_opened, HandOpened, MultistreamInv, Types
  <2>4. NegotiatedStream(id)'
      BY <2>2, <2>3 DEF NegotiatedStream, PayloadsLast, NewIncoming, Outgoing
  <2> QED
      BY <2>1, <2>2, <2>3, <2>4, NegotiatedStep DEF MultistreamInv, Types
<1>3. ASSUME NEW id \in StreamIds, recv_closed(id)
      PROVE  Negotiated'
    BY <1>3, FewerNegotiated DEF recv_closed, HandClosed
<1>4. ASSUME NEW id \in StreamIds, NEW chunk \in Chunks, recv_data_too_large(id, chunk)
      PROVE  Negotiated'
    BY <1>4, FewerNegotiated DEF recv_data_too_large, reset_stream_immediately, reset_streams
<1>5. ASSUME NEW id \in StreamIds, NEW chunk \in Chunks, recv_data(id, chunk)
      PROVE  Negotiated'
  <2>1. PICK b \in Multistream : b = bufs[id] /\ id \in DOMAIN bufs
      BY <1>5 DEF recv_data, MultistreamInv, Entries
  <2> DEFINE c == [b EXCEPT !.buffer = @ \o chunk]
  <2>2. bufs' = [bufs EXCEPT ![id] = c]
      BY <1>5, <2>1, ZenonT(40) DEF recv_data
  <2>3. c.state = b.state /\ c.protocol = b.protocol /\ UNCHANGED <<sent, ended>>
      BY <1>5 DEF Multistream, recv_data, HandData
  <2> HIDE DEF c
  <2> QED
      BY <2>1, <2>2, <2>3, NegotiatedStep
<1> QED
    BY <1>1, <1>2, <1>3, <1>4, <1>5 DEF Remote

LEMMA AboveNegotiates ==
    ASSUME MultistreamInv, Negotiated, Above, RemoteReopensOnlyClosed
    PROVE  Negotiated'
<1>1. CASE /\ out # <<>>
           /\ out' = <<>>
           /\ KeepService
           /\ UNCHANGED <<bufs, read_from_stream_buffer, parsing, sent, events>>
    BY <1>1, NegotiatedStep DEF KeepService, service
<1>2. ASSUME NEW protocols \in Sequences1(Protocols), NEW max \in BufferSizes,
             Call(open_stream(protocols, max))
      PROVE  Negotiated'
    BY <1>2, Sequences1Type, OpenNegotiates DEF Call
<1>3. ASSUME NEW id \in DOMAIN bufs, NEW message \in Payloads,
             Call(Len(sent[id]) < MaxSent /\ send_data(id, message) /\ KeepService /\ UNCHANGED bufs)
      PROVE  Negotiated'
  <2>1. id \in StreamIds
      BY DEF MultistreamInv, Types
  <2> QED
      BY <1>3, <2>1, SendNegotiates DEF Call, KeepService, service
<1>4. ASSUME NEW id \in DOMAIN bufs, NEW max \in BufferSizes,
             Call(bufs[id].protocol \in Protocols /\ accept_protocol(id, max) /\ KeepService)
      PROVE  Negotiated'
  <2>1. id \in StreamIds
      BY DEF MultistreamInv, Types
  <2> QED
      BY <1>4, <2>1, AcceptNegotiates DEF Call, KeepService, service
<1>5. ASSUME NEW id \in DOMAIN bufs,
             \/ Call(reject_protocol(id) /\ KeepService)
             \/ Call(close_stream(id) /\ UNCHANGED sent)
             \/ Call(reset_stream_immediately(id) /\ UNCHANGED sent)
      PROVE  Negotiated'
  <2>1. id \in StreamIds
      BY DEF MultistreamInv, Types
  <2>2. ~ended
      BY <1>5, ZenonT(40) DEF Call
  <2>3. CASE reject_protocol(id) /\ KeepService
      BY <2>1, <2>2, <2>3, RejectNegotiates DEF KeepService, service
  <2>4. CASE close_stream(id) /\ UNCHANGED sent
      BY <2>1, <2>4, CloseNegotiates, ZenonT(40) DEF close_stream, KeepService, service, Close
  <2>5. CASE reset_stream_immediately(id) /\ UNCHANGED sent
      BY <2>5, FewerNegotiated DEF reset_stream_immediately, reset_streams
  <2> QED
      BY <1>5, <2>3, <2>4, <2>5, ZenonT(40) DEF Call
<1> QED
    BY <1>1, <1>2, <1>3, <1>4, <1>5 DEF Above

LEMMA InitNegotiated == MultistreamInit => Negotiated
<1>1. MultistreamInit => DOMAIN bufs = {}
    BY DEF MultistreamInit
<1> QED
    BY <1>1, ZenonT(40) DEF Negotiated

LEMMA NegotiatedMeansFirst == MultistreamInv /\ Negotiated => NegotiationFirst
<1> SUFFICES ASSUME MultistreamInv, Negotiated, NEW id \in DOMAIN bufs, NEW i \in DOMAIN sent[id],
                    sent[id][i] \in Payloads
             PROVE  sent[id][1] = HEADER /\ \E j \in 1 .. i - 1 : sent[id][j] \in Protocols
    BY DEF NegotiationFirst
<1>1. NegotiatedStream(id)
    BY DEF Negotiated
<1> QED
    BY <1>1 DEF NegotiatedStream, PayloadsLast

\* What we send on a stream begins with the header, and no payload precedes a
\* protocol, whatever the remote sends and whoever calls, as long as the remote
\* opens no stream again before the layer above was told that it is gone.
THEOREM NegotiationFirstTheorem ==
    MultistreamSpec /\ [][RemoteReopensOnlyClosed]_mvars => []NegotiationFirst
<1>1. /\ MultistreamInv /\ Negotiated
      /\ [Turn \/ Remote \/ Above]_mvars /\ [RemoteReopensOnlyClosed]_mvars
      => Negotiated'
  <2> SUFFICES ASSUME MultistreamInv, Negotiated, [Turn \/ Remote \/ Above]_mvars,
                      [RemoteReopensOnlyClosed]_mvars
               PROVE  Negotiated'
      OBVIOUS
  <2>1. CASE UNCHANGED mvars
      BY <2>1, NegotiatedStep DEF mvars, service, RemoteReopensOnlyClosed
  <2> QED
      BY <2>1, TurnNegotiates, RemoteNegotiates, AboveNegotiates
<1> QED
    BY <1>1, InvHolds, InitNegotiated, NegotiatedMeansFirst, PTL DEF MultistreamSpec

-----------------------------------------------------------------------------
(* The layer below keeps its invariant when the connection calls it *)

LEMMA ResetBetweenTurns ==
    ASSUME Base, BetweenTurns, NEW ids, reset_streams(ids), UNCHANGED sent
    PROVE  MultistreamInv'
BY ResetKeeps DEF Base, BetweenTurns, MultistreamInv, Types

LEMMA CallsKeepStreams ==
    ASSUME Base, Calls
    PROVE  MultistreamInv'
<1>1. ASSUME NEW p \in RequestNames, request(p)
      PROVE  MultistreamInv'
    BY <1>1, UserBetweenTurns, OpenKeeps, ConnectionTypes DEF request, Base
<1>2. ASSUME NEW id \in StreamIds, cancel_request(id)
      PROVE  MultistreamInv'
    BY <1>2, UserBetweenTurns, ResetBetweenTurns DEF cancel_request, reset_stream_immediately
<1>3. ASSUME NEW id \in StreamIds, respond(id)
      PROVE  MultistreamInv'
  <2>1. UNCHANGED sent \/ \E message \in Messages : send_data(id, message)
      BY <1>3, ConnectionTypes DEF respond, send_data
  <2> QED
      BY <1>3, <2>1, UserBetweenTurns, CloseKeeps DEF respond, Base
<1>4. ASSUME NEW p \in SubscriptionProtocols, subscribe(p)
      PROVE  MultistreamInv'
    BY <1>4, UserBetweenTurns, OpenKeeps, ConnectionTypes DEF subscribe, Base
<1>5. ASSUME NEW p \in SubscriptionProtocols, send_notification(p)
      PROVE  MultistreamInv'
  <2>1. PICK id \in StreamIds : id = our_stream[p].stream_id
      BY <1>5 DEF send_notification, send_data, CanSend, Base, MultistreamInv, Types
  <2> QED
      BY <1>5, <2>1, UserBetweenTurns, SendKeeps, ConnectionTypes DEF send_notification, Base
<1>6. ASSUME NEW p \in SubscriptionProtocols, cancel_subscription(p)
      PROVE  MultistreamInv'
    BY <1>6, UserBetweenTurns, ResetBetweenTurns DEF cancel_subscription, cancel_subscription_silently
<1> QED
    BY <1>1, <1>2, <1>3, <1>4, <1>5, <1>6 DEF Calls

\* The remote's proposal is accepted, and a stream of ours is opened with it.
LEMMA AcceptAndOpenKeeps ==
    ASSUME MultistreamInv, BetweenTurns, ~ended, NEW id \in StreamIds, CanReply(id),
           NEW p \in Protocols, NEW max \in Nat, OpenStream,
           bufs' = Put([bufs EXCEPT ![id].state = "Open", ![id].max_buffer_size = max],
                       next_stream_id, NewOutgoing(<<p>>, max)),
           sent' = [sent EXCEPT ![id] = Append(@, p), ![next_stream_id] = <<HEADER, p>>]
    PROVE  MultistreamInv'
<1>1. PICK new \in StreamIds : new = next_stream_id
    BY DEF OpenStream
<1>2. PICK b \in Multistream : b = bufs[id]
    BY DEF MultistreamInv, Entries, CanReply, Waiting
<1> DEFINE c == [b EXCEPT !.state = "Open", !.max_buffer_size = max]
           d == NewOutgoing(<<p>>, max)
<1>3. c \in Multistream /\ c.buffer = b.buffer /\ c.needs = b.needs /\ c.state = "Open"
    BY DEF Multistream, States
<1>4. d \in Multistream /\ Framed(d) /\ Drained(d) /\ d.state = Outgoing /\ d.protocol = p
  <2>1. <<p>> \in Seq(Protocols) \ {<<>>} /\ Head(<<p>>) = p
      OBVIOUS
  <2> QED
      BY <2>1, NewOutgoingFramed
<1>5. bufs' = Put([bufs EXCEPT ![id] = c], new, d)
    BY <1>1, <1>2, ZenonT(40)
<1> HIDE DEF c, d
<1>6. id # new /\ ~Ours(id) /\ Ours(new) /\ id \in DOMAIN bufs
    BY <1>1 DEF MultistreamInv, Types, ServiceType, Entries, Negotiating, CanReply, Waiting, IncomingStates
<1>7. /\ DOMAIN bufs' = DOMAIN bufs \cup {new}
      /\ bufs'[new] = d /\ bufs'[id] = c
      /\ \A x \in DOMAIN bufs \ {id, new} : bufs'[x] = bufs[x]
    BY <1>5, <1>6 DEF Put
<1>8. /\ sent' \in [StreamIds -> Seq(Messages)]
      /\ sent'[new] = <<HEADER, p>>
      /\ \A x \in StreamIds \ {id, new} : sent'[x] = sent[x]
  <2>1. Append(sent[id], p) \in Seq(Messages) /\ <<HEADER, p>> \in Seq(Messages)
      BY DEF MultistreamInv, Types, Messages
  <2> QED
      BY <1>1, <1>6, <2>1 DEF MultistreamInv, Types
<1>9. Types'
  <2>1. ServiceType'
      BY ServiceStep DEF MultistreamInv, Types
  <2> QED
      BY <1>7, <1>8, <2>1 DEF MultistreamInv, Types, BetweenTurns
<1>10. StreamsKnown'
  <2>1. hold' = [hold EXCEPT ![new] = "open"] /\ hold \in [StreamIds -> {"none", "open", "closed"}]
      BY <1>1 DEF OpenStream, MultistreamInv, Types, ServiceType
  <2> QED
      BY <1>7, <2>1 DEF MultistreamInv, StreamsKnown, BetweenTurns
<1>11. Framed(c) /\ (Drained(c) <=> Drained(b))
  <2>1. Framed(b)
      BY <1>2, <1>6 DEF MultistreamInv, Entries
  <2> QED
      BY <1>3, <2>1, SameBuffer
<1>12. ~ended'
    BY DEF OpenStream
<1>13. Entries'
  <2>1. Negotiating(new)'
    <3>1. <<HEADER, p>> # <<>> /\ <<HEADER, p>>[Len(<<HEADER, p>>)] = p
        OBVIOUS
    <3> QED
        BY <1>4, <1>6, <1>7, <1>8, <3>1 DEF Negotiating, IncomingStates, Outgoing
  <2>2. Negotiating(id)'
      BY <1>3, <1>7 DEF Negotiating, IncomingStates, Outgoing
  <2>3. Entries /\ DOMAIN bufs \subseteq StreamIds
      BY DEF MultistreamInv, Types
  <2> QED
      BY ZenonT(40), <1>3, <1>4, <1>7, <1>8, <1>11, <1>12, <2>1, <2>2, <2>3, EntriesStep
<1>14. Turns'
    BY ZenonT(40), <1>2, <1>4, <1>6, <1>7, <1>11 DEF MultistreamInv, Turns, BetweenTurns
<1> QED
    BY <1>9, <1>10, <1>13, <1>14 DEF MultistreamInv

\* The connection fails, or takes the output and does nothing else to its streams.
LEMMA HandledKeeps ==
    ASSUME Base, Handles, Fail \/ KeepStreams
    PROVE  MultistreamInv'
BY HandlesBetweenTurns, EndKeeps, TakeKeeps DEF Base, Fail, Finish, KeepStreams

LEMMA HandshakeKeeps ==
    ASSUME Base, Handles, SendHandshake
    PROVE  MultistreamInv'
<1>1. PICK id \in StreamIds : id = Id
    BY HandlesBetweenTurns
<1> QED
    BY <1>1, HandlesBetweenTurns, SendKeeps, ConnectionTypes DEF SendHandshake, Base

LEMMA AcceptedKeeps ==
    ASSUME Base, Handles, accept_protocol(Id, MaxSize), KeepService \/ Finish
    PROVE  MultistreamInv'
<1>1. PICK id \in StreamIds : id = Id
    BY HandlesBetweenTurns
<1> QED
    BY <1>1, HandlesBetweenTurns, AcceptKeeps, ConnectionTypes DEF Base, Finish

LEMMA RequestOutputKeepsStreams ==
    ASSUME Base,
           \/ on_request_accepted \/ on_request_over \/ on_incoming_request
           \/ on_request_proposed \/ on_unknown_protocol \/ on_unknown_stream
    PROVE  MultistreamInv'
<1>0. Handles
    BY DEF on_request_accepted, on_request_over, on_incoming_request, on_request_proposed,
           on_unknown_protocol, on_unknown_stream
<1>1. BetweenTurns
    BY <1>0, HandlesBetweenTurns
<1>2. PICK id \in StreamIds : id = Id
    BY <1>0, HandlesBetweenTurns
<1>3. CASE on_request_accepted
  <2>1. CASE CanSend(Id)
    <3>1. send_data(id, RequestPayload) /\ close_stream(id)
        BY <1>2, <1>3, <2>1 DEF on_request_accepted
    <3> QED
        BY <1>1, <3>1, CloseKeeps, ConnectionTypes DEF Base
  <2>2. CASE ~CanSend(Id)
      BY <1>0, <1>3, <2>2, HandledKeeps DEF on_request_accepted
  <2> QED
      BY <2>1, <2>2
<1>4. CASE on_request_over
    BY <1>1, <1>4, ResetBetweenTurns DEF on_request_over
<1>5. CASE on_incoming_request
    BY <1>0, <1>1, <1>5, HandledKeeps, ResetBetweenTurns
    DEF on_incoming_request, reset_stream_immediately
<1>6. CASE on_request_proposed
    BY <1>0, <1>6, AcceptedKeeps DEF on_request_proposed
<1>7. CASE on_unknown_protocol
  <2>1. reject_protocol(id) /\ (KeepService \/ End)
      BY <1>2, <1>7 DEF on_unknown_protocol, Finish
  <2> QED
      BY <1>1, <2>1, RejectKeeps DEF Base
<1>8. CASE on_unknown_stream
    BY <1>1, <1>8, ResetBetweenTurns DEF on_unknown_stream
<1> QED
    BY <1>3, <1>4, <1>5, <1>6, <1>7, <1>8

LEMMA SubscriptionOutputKeepsStreams ==
    ASSUME Base, NEW p \in SubscriptionProtocols, OnSubscriptionOutput(p)
    PROVE  MultistreamInv'
<1>0. Handles
    BY DEF OnSubscriptionOutput, on_our_stream_accepted, on_our_handshake, on_our_stream_over,
           on_subscription_unwanted, on_subscription_proposed, on_subscription_opened_by_remote,
           on_their_handshake, on_notification, on_their_stream_over
<1>1. BetweenTurns
    BY <1>0, HandlesBetweenTurns
<1>2. CASE on_our_stream_accepted(p)
    BY <1>0, <1>2, HandledKeeps, HandshakeKeeps DEF on_our_stream_accepted
<1>3. CASE on_our_handshake(p) \/ on_notification(p)
    BY <1>0, <1>3, HandledKeeps DEF on_our_handshake, on_notification
<1>4. CASE on_our_stream_over(p) \/ on_their_stream_over(p)
    BY <1>1, <1>4, ResetBetweenTurns
    DEF on_our_stream_over, on_their_stream_over, SubscriptionOver, cancel_subscription_silently
<1>5. CASE on_subscription_unwanted(p)
    BY <1>1, <1>5, ResetBetweenTurns DEF on_subscription_unwanted, reset_stream_immediately
<1>6. CASE on_subscription_proposed(p)
    BY <1>0, <1>6, AcceptedKeeps DEF on_subscription_proposed
<1>7. CASE on_subscription_opened_by_remote(p)
  <2>1. CASE CanReply(Id)
    <3>1. PICK id \in StreamIds : id = Id
        BY <1>0, HandlesBetweenTurns
    <3>2. /\ CanReply(id) /\ OpenStream
          /\ bufs' = Put([bufs EXCEPT ![id].state = "Open", ![id].max_buffer_size = MaxSize],
                         next_stream_id, NewOutgoing(<<p>>, MaxSize))
          /\ sent' = [sent EXCEPT ![id] = Append(@, p), ![next_stream_id] = <<HEADER, p>>]
        BY <1>7, <2>1, <3>1 DEF on_subscription_opened_by_remote
    <3>3. ~ended /\ p \in Protocols /\ MaxSize \in Nat
        BY <1>0, HandlesBetweenTurns, ConnectionTypes
    <3> QED
        BY <1>1, <3>2, <3>3, AcceptAndOpenKeeps DEF Base
  <2>2. CASE ~CanReply(Id)
      BY <1>0, <1>7, <2>2, AcceptedKeeps DEF on_subscription_opened_by_remote
  <2> QED
      BY <2>1, <2>2
<1>8. CASE on_their_handshake(p)
    BY <1>0, <1>8, HandledKeeps, HandshakeKeeps DEF on_their_handshake
<1> QED
    BY <1>2, <1>3, <1>4, <1>5, <1>6, <1>7, <1>8 DEF OnSubscriptionOutput

LEMMA OutputKeepsStreams ==
    ASSUME Base, OnOutput
    PROVE  MultistreamInv'
BY RequestOutputKeepsStreams, SubscriptionOutputKeepsStreams DEF OnOutput, OnSubscriptionOutput

LEMMA LoopKeepsStreams ==
    ASSUME Base, next \/ LoopHead \/ yamux_next \/ drop_next \/ \E p \in Timed : sleep_ends(p)
    PROVE  MultistreamInv'
<1>1. CASE handle_request_timeouts
  <2>1. BetweenTurns /\ UNCHANGED sent
      BY <1>1, CallBetweenTurns DEF handle_request_timeouts, Base, Placed
  <2>2. \E ids : reset_streams(ids)
      BY <1>1 DEF handle_request_timeouts, reset_stream_immediately
  <2> QED
      BY <2>1, <2>2, ResetBetweenTurns
<1>2. CASE yamux_next
    BY <1>2, TurnKeeps, RemoteKeeps DEF yamux_next, Base
<1>3. CASE UNCHANGED mvars
    BY <1>3, StutterKeeps DEF Base
<1> QED
    BY <1>1, <1>2, <1>3 DEF next, LoopHead, next_emit, next_await, drop_next, sleep_ends

-----------------------------------------------------------------------------
(* The tables keep their types *)

LEMMA SubscriptionTablesStep ==
    ASSUME NEW table \in SubscriptionTables, NEW p \in SubscriptionProtocols
    PROVE  /\ [table EXCEPT ![p] = Closed] \in SubscriptionTables
           /\ \A id \in StreamIds : /\ [table EXCEPT ![p] = Handshake(id)] \in SubscriptionTables
                                    /\ [table EXCEPT ![p] = Open(id)] \in SubscriptionTables
BY DEF SubscriptionTables, Closed, Handshake, Open

\* Some requests are over; the others are as they were.
LEMMA FewerRequests ==
    ASSUME Tables, UNCHANGED <<our_stream, their_stream, timeouts>>,
           \/ UNCHANGED inflight_requests
           \/ \E ids : inflight_requests' = Without(inflight_requests, ids),
           \/ UNCHANGED incoming_requests
           \/ \E ids : incoming_requests' = Without(incoming_requests, ids)
    PROVE  Tables'
BY DEF Tables, Without

LEMMA CancelledTables ==
    ASSUME Tables, NEW p \in SubscriptionProtocols, cancel_subscription_silently(p),
           UNCHANGED <<inflight_requests, incoming_requests, timeouts>>
    PROVE  Tables'
BY SubscriptionTablesStep DEF Tables, cancel_subscription_silently

LEMMA TakeTimersType ==
    ASSUME Tables, NEW last, TakeTimers(last)
    PROVE  timeouts' \in [RequestNames -> Seq(StreamIds)]
<1>1. \A p \in RequestNames : timeouts[p] \in Seq(StreamIds) /\ (Elapsed(p) => Tail(timeouts[p]) \in Seq(StreamIds))
    BY DEF Tables, Elapsed
<1> QED
    BY <1>1 DEF TakeTimers

LEMMA CallsKeepTables ==
    ASSUME Base, Calls
    PROVE  Tables'
<1>1. ASSUME NEW p \in RequestNames, request(p)
      PROVE  Tables'
  <2>1. PICK id \in StreamIds : id = next_stream_id
      BY <1>1 DEF request, open_stream, OpenStream
  <2> DEFINE r == [protocol_id |-> p, state |-> "AwaitingProtocolConfirmation"]
  <2>2. inflight_requests' = Put(inflight_requests, id, r)
      BY <1>1, <2>1 DEF request
  <2>3. r \in [protocol_id : RequestNames, state : RequestStates]
      BY DEF RequestStates
  <2>4. timeouts' \in [RequestNames -> Seq(StreamIds)]
    <3>1. timeouts \in [RequestNames -> Seq(StreamIds)]
        BY DEF Base, Tables
    <3>2. Append(timeouts[p], id) \in Seq(StreamIds)
        BY <3>1
    <3> QED
        BY <1>1, <2>1, <3>1, <3>2 DEF request
  <2> HIDE DEF r
  <2> QED
      BY <1>1, <2>2, <2>3, <2>4 DEF Base, Tables, request, UserCalls, Put
<1>2. ASSUME NEW id \in StreamIds, cancel_request(id) \/ respond(id)
      PROVE  Tables'
    BY <1>2, FewerRequests DEF Base, cancel_request, respond, UserCalls
<1>3. ASSUME NEW p \in SubscriptionProtocols, subscribe(p)
      PROVE  Tables'
  <2>1. PICK id \in StreamIds : id = next_stream_id
      BY <1>3 DEF subscribe, open_stream, OpenStream
  <2> QED
      BY <1>3, <2>1, SubscriptionTablesStep DEF subscribe, UserCalls, Base, Tables
<1>4. ASSUME NEW p \in SubscriptionProtocols, send_notification(p)
      PROVE  Tables'
    BY <1>4, FewerRequests DEF Base, send_notification, UserCalls
<1>5. ASSUME NEW p \in SubscriptionProtocols, cancel_subscription(p)
      PROVE  Tables'
    BY <1>5, CancelledTables DEF Base, cancel_subscription, UserCalls
<1> QED
    BY <1>1, <1>2, <1>3, <1>4, <1>5 DEF Calls

LEMMA LoopKeepsTables ==
    ASSUME Base, next \/ LoopHead \/ yamux_next \/ drop_next \/ \E p \in Timed : sleep_ends(p)
    PROVE  Tables'
<1>1. CASE handle_request_timeouts
  <2>1. \E last : TakeTimers(last)
      BY <1>1 DEF handle_request_timeouts
  <2>2. \E ids : inflight_requests' = Without(inflight_requests, ids)
      BY <1>1 DEF handle_request_timeouts
  <2>3. UNCHANGED <<incoming_requests, our_stream, their_stream>>
      BY <1>1 DEF handle_request_timeouts
  <2> QED
      BY <2>1, <2>2, <2>3, TakeTimersType DEF Base, Tables, Without
<1>2. CASE next_await
    BY <1>2, TakeTimersType DEF next_await, KeepTables, Base, Tables
<1>3. CASE KeepTables /\ UNCHANGED timeouts
    BY <1>3, FewerRequests DEF KeepTables, Base
<1> QED
    BY <1>1, <1>2, <1>3 DEF next, LoopHead, next_emit, yamux_next, drop_next, sleep_ends

LEMMA OutputKeepsTables ==
    ASSUME Base, OnOutput
    PROVE  Tables'
<1>1. CASE on_request_accepted
  <2>1. CASE CanSend(Id)
    <3>1. PICK id \in DOMAIN inflight_requests : id = Id
        BY <1>1 DEF on_request_accepted, ForRequest
    <3>2. PICK r \in [protocol_id : RequestNames, state : RequestStates] : r = inflight_requests[id]
        BY <3>1 DEF Base, Tables
    <3> DEFINE s == [r EXCEPT !.state = "AwaitingResponsePayload"]
    <3>3. s \in [protocol_id : RequestNames, state : RequestStates]
        BY DEF RequestStates
    <3>4. inflight_requests' = [inflight_requests EXCEPT ![id] = s]
        BY <1>1, <2>1, <3>1, <3>2, ZenonT(40) DEF on_request_accepted
    <3> HIDE DEF s
    <3> QED
        BY <1>1, <2>1, <3>3, <3>4 DEF Base, Tables, on_request_accepted, Handles
  <2>2. CASE ~CanSend(Id)
      BY <1>1, <2>2, FewerRequests DEF on_request_accepted, Fail, Finish, KeepTables, Handles, Base
  <2> QED
      BY <2>1, <2>2
<1>2. CASE on_request_over \/ on_incoming_request
    BY <1>2, FewerRequests DEF on_request_over, on_incoming_request, Handles, Base
<1>3. CASE on_request_proposed
  <2>1. Id \in StreamIds
      BY <1>3, HandlesBetweenTurns DEF on_request_proposed
  <2> QED
      BY <1>3, <2>1 DEF on_request_proposed, Handles, Fail, Finish, KeepTables, Base, Tables, Put
<1>4. CASE on_unknown_protocol \/ on_unknown_stream
    BY <1>4, FewerRequests DEF on_unknown_protocol, on_unknown_stream, Handles, Fail, Finish, KeepTables, Base
<1>5. ASSUME NEW p \in SubscriptionProtocols,
             \/ on_our_stream_accepted(p) \/ on_subscription_unwanted(p) \/ on_notification(p)
      PROVE  Tables'
    BY <1>5, FewerRequests
    DEF on_our_stream_accepted, on_subscription_unwanted, on_notification, Handles, Fail, Finish, KeepTables, Base
<1>6. ASSUME NEW p \in SubscriptionProtocols, on_our_stream_over(p) \/ on_their_stream_over(p)
      PROVE  Tables'
    BY <1>6, CancelledTables
    DEF on_our_stream_over, on_their_stream_over, SubscriptionOver, Handles, Base
<1>7. ASSUME NEW p \in SubscriptionProtocols, on_our_handshake(p)
      PROVE  Tables'
  <2>1. Id \in StreamIds
      BY <1>7, HandlesBetweenTurns DEF on_our_handshake
  <2> QED
      BY <1>7, <2>1, SubscriptionTablesStep DEF on_our_handshake, Handles, Base, Tables
<1>8. ASSUME NEW p \in SubscriptionProtocols, on_subscription_proposed(p) \/ on_their_handshake(p)
      PROVE  Tables'
  <2>1. Id \in StreamIds
      BY <1>8, HandlesBetweenTurns DEF on_subscription_proposed, on_their_handshake
  <2>2. UNCHANGED timeouts
      BY <1>8 DEF on_subscription_proposed, on_their_handshake, Handles
  <2>3. \/ KeepTables
        \/ their_stream' = [their_stream EXCEPT ![p] = Handshake(Id)]
        \/ their_stream' = [their_stream EXCEPT ![p] = Open(Id)]
      BY <1>8 DEF on_subscription_proposed, on_their_handshake, Fail, Finish
  <2>4. UNCHANGED <<inflight_requests, incoming_requests, our_stream>>
      BY <1>8 DEF on_subscription_proposed, on_their_handshake, Fail, Finish, KeepTables
  <2>5. their_stream' \in SubscriptionTables
    <3>1. their_stream \in SubscriptionTables
        BY DEF Base, Tables
    <3>2. \/ their_stream' = their_stream
          \/ their_stream' = [their_stream EXCEPT ![p] = Handshake(Id)]
          \/ their_stream' = [their_stream EXCEPT ![p] = Open(Id)]
        BY <2>3, ZenonT(40) DEF KeepTables
    <3> QED
        BY <2>1, <3>1, <3>2, SubscriptionTablesStep, ZenonT(40)
  <2> QED
      BY <2>2, <2>4, <2>5 DEF Base, Tables
<1>9. ASSUME NEW p \in SubscriptionProtocols, on_subscription_opened_by_remote(p)
      PROVE  Tables'
  <2>1. Id \in StreamIds
      BY <1>9, HandlesBetweenTurns DEF on_subscription_opened_by_remote
  <2>2. UNCHANGED timeouts
      BY <1>9 DEF on_subscription_opened_by_remote, Handles
  <2>3. \/ KeepTables
        \/ /\ their_stream' = [their_stream EXCEPT ![p] = Handshake(Id)]
           /\ our_stream' = [our_stream EXCEPT ![p] = Handshake(next_stream_id)]
           /\ next_stream_id \in StreamIds
      BY <1>9 DEF on_subscription_opened_by_remote, Fail, Finish, OpenStream
  <2>4. UNCHANGED <<inflight_requests, incoming_requests>>
      BY <1>9 DEF on_subscription_opened_by_remote, Fail, Finish, KeepTables
  <2>5. our_stream' \in SubscriptionTables /\ their_stream' \in SubscriptionTables
    <3>1. our_stream \in SubscriptionTables /\ their_stream \in SubscriptionTables
        BY DEF Base, Tables
    <3>2. \/ their_stream' = their_stream
          \/ their_stream' = [their_stream EXCEPT ![p] = Handshake(Id)]
        BY <2>3, ZenonT(40) DEF KeepTables
    <3>3. \/ our_stream' = our_stream
          \/ /\ our_stream' = [our_stream EXCEPT ![p] = Handshake(next_stream_id)]
             /\ next_stream_id \in StreamIds
        BY <2>3, ZenonT(40) DEF KeepTables
    <3>4. their_stream' \in SubscriptionTables
        BY <2>1, <3>1, <3>2, SubscriptionTablesStep, ZenonT(40)
    <3>5. our_stream' \in SubscriptionTables
        BY <3>1, <3>3, SubscriptionTablesStep, ZenonT(40)
    <3> QED
        BY <3>4, <3>5
  <2> QED
      BY <2>2, <2>4, <2>5 DEF Base, Tables
<1> QED
    BY <1>1, <1>2, <1>3, <1>4, <1>5, <1>6, <1>7, <1>8, <1>9 DEF OnOutput

LEMMA NextKeepsPlaces ==
    ASSUME Base, Next
    PROVE  Placed'
<1>1. CASE Calls
  <2>1. UserCalls
      BY <1>1 DEF Calls, request, cancel_request, respond, subscribe, send_notification, cancel_subscription
  <2> QED
      BY <2>1 DEF Base, Placed, UserCalls
<1>2. CASE next \/ next_emit \/ next_await \/ drop_next
    BY <1>2 DEF next, next_emit, next_await, drop_next, Give, Goto, AtLoopHead, mvars, service, Base, Placed
<1>3. CASE handle_request_timeouts
  <2>1. at = "Head" /\ at' = "Out" /\ UNCHANGED <<parsing, out>>
      BY <1>3 DEF handle_request_timeouts, Give
  <2> QED
      BY <2>1 DEF Base, Placed
<1>4. CASE yamux_next
    BY <1>4 DEF yamux_next, Goto, Base, Placed
<1>5. ASSUME NEW p \in Timed, sleep_ends(p)
      PROVE  Placed'
    BY <1>5 DEF sleep_ends, Goto, mvars, service, Base, Placed
<1>6. CASE OnOutput
  <2>1. Handles
      BY <1>6 DEF OnOutput, on_request_accepted, on_request_over, on_incoming_request, on_request_proposed,
           on_unknown_protocol, on_unknown_stream,
           on_our_stream_accepted, on_our_handshake, on_our_stream_over,
           on_subscription_unwanted, on_subscription_proposed, on_subscription_opened_by_remote,
           on_their_handshake, on_notification, on_their_stream_over
  <2>2. /\ at' = "Out" \/ at' = "Head"
        /\ at' # "Out" => UNCHANGED ended
    <3>1. CASE \/ on_request_accepted \/ on_request_over \/ on_incoming_request
               \/ on_request_proposed \/ on_unknown_protocol \/ on_unknown_stream
        BY <3>1 DEF on_request_accepted, on_request_over, on_incoming_request, on_request_proposed,
               on_unknown_protocol, on_unknown_stream, Fail, Finish, Goto, Give, KeepStreams, KeepService, service,
               close_stream, Close, reset_stream_immediately, reset_streams
    <3>2. ASSUME NEW p \in SubscriptionProtocols, OnSubscriptionOutput(p)
          PROVE  /\ at' = "Out" \/ at' = "Head"
                 /\ at' # "Out" => UNCHANGED ended
        BY <3>2 DEF OnSubscriptionOutput, on_our_stream_accepted, on_our_handshake, on_our_stream_over,
               on_subscription_unwanted, on_subscription_proposed, on_subscription_opened_by_remote,
               on_their_handshake, on_notification, on_their_stream_over, SubscriptionOver, OpenedIf,
               Fail, Finish, Goto, Give, SendHandshake, KeepStreams, KeepService, service, OpenStream,
               reset_stream_immediately, reset_streams, cancel_subscription_silently
    <3> QED
        BY <1>6, <3>1, <3>2 DEF OnOutput, OnSubscriptionOutput
  <2> QED
      BY <2>1, <2>2, HandlesBetweenTurns DEF Base, Placed, Handles
<1> QED
    BY <1>1, <1>2, <1>3, <1>4, <1>5, <1>6 DEF Next, LoopHead

LEMMA BaseStep ==
    ASSUME Base, [Next]_vars
    PROVE  Base'
<1>1. CASE UNCHANGED vars
    BY <1>1, StutterKeeps, FewerRequests DEF vars, cvars, mvars, service, Base, Placed
<1> QED
    BY <1>1, CallsKeepStreams, OutputKeepsStreams, LoopKeepsStreams, CallsKeepTables, OutputKeepsTables,
       LoopKeepsTables, NextKeepsPlaces DEF Next, Base

LEMMA InitBase == Init => Base
<1> SUFFICES ASSUME Init PROVE Base
    OBVIOUS
<1>1. MultistreamInv
    BY InitInv DEF Init
<1>2. Placed
    BY DEF Init, Placed, MultistreamInit
<1>3. Tables
    BY DEF Init, Tables, SubscriptionTables, Closed
<1> QED
    BY <1>1, <1>2, <1>3 DEF Base

\* The connection keeps the layer below in step: what MultistreamProofs shows for
\* any caller holds for this one (connection.rs calls it at 334-365, 539-918).
LEMMA BaseHolds == Spec => []Base
BY InitBase, BaseStep, PTL DEF Spec

-----------------------------------------------------------------------------
(* A request in flight has its timer *)

LEMMA TimersKept ==
    ASSUME TimerOutlivesRequest, UNCHANGED timeouts,
           \A id \in DOMAIN inflight_requests' :
              /\ id \in DOMAIN inflight_requests
              /\ inflight_requests'[id].protocol_id = inflight_requests[id].protocol_id
    PROVE  TimerOutlivesRequest'
BY DEF TimerOutlivesRequest

\* try_next takes only timers of requests that are over (946-955).
LEMMA TimersTaken ==
    ASSUME Tables, TimerOutlivesRequest, NEW last, TakeTimers(last),
           \A id \in DOMAIN inflight_requests' :
              /\ id \in DOMAIN inflight_requests
              /\ inflight_requests'[id] = inflight_requests[id],
           \A i \in DOMAIN RequestProtocols :
              i <= last /\ Elapsed(RequestProtocols[i])
                  => Head(timeouts[RequestProtocols[i]]) \notin DOMAIN inflight_requests'
    PROVE  TimerOutlivesRequest'
<1> SUFFICES ASSUME NEW id \in DOMAIN inflight_requests', NEW p \in RequestNames, p \in Timed,
                    p = inflight_requests[id].protocol_id
             PROVE  \E i \in DOMAIN timeouts'[p] : timeouts'[p][i] = id
  <2>1. \A id \in DOMAIN inflight_requests' : inflight_requests[id].protocol_id \in RequestNames
      BY DEF Tables
  <2> QED
      BY <2>1 DEF TimerOutlivesRequest
<1>1. PICK s \in Seq(StreamIds) : s = timeouts[p]
    BY DEF Tables
<1>2. PICK i \in DOMAIN s : s[i] = id
    BY <1>1 DEF TimerOutlivesRequest
<1>3. CASE timeouts'[p] = s
    BY <1>2, <1>3
<1>4. CASE timeouts'[p] # s
  <2>1. Elapsed(p) /\ timeouts'[p] = Tail(s) /\ Head(s) # id
      BY <1>1, <1>4 DEF TakeTimers
  <2>2. Len(s) \in Nat \ {0} /\ i \in 1 .. Len(s) /\ Head(s) = s[1] /\ s # <<>>
      BY <1>2
  <2>3. i - 1 \in 1 .. Len(s) - 1
      BY <1>2, <2>1, <2>2
  <2>4. DOMAIN Tail(s) = 1 .. Len(s) - 1 /\ Tail(s)[i - 1] = s[i]
      BY <2>2, <2>3
  <2> QED
      BY <1>2, <2>1, <2>3, <2>4
<1> QED
    BY <1>3, <1>4

LEMMA LoopKeepsTimers ==
    ASSUME Base, TimerOutlivesRequest,
           next \/ LoopHead \/ yamux_next \/ drop_next \/ \E p \in Timed : sleep_ends(p)
    PROVE  TimerOutlivesRequest'
<1>1. CASE handle_request_timeouts
  <2>1. PICK first \in TimedOut, id \in DOMAIN inflight_requests :
            /\ first \in Nat
            /\ \A j \in TimedOut : first <= j
            /\ id = Head(timeouts[RequestProtocols[first]])
            /\ TakeTimers(first)
            /\ inflight_requests' = Without(inflight_requests, {id})
      BY <1>1, FirstTimedOut
  <2>2. /\ DOMAIN inflight_requests' = DOMAIN inflight_requests \ {id}
        /\ \A x \in DOMAIN inflight_requests' : inflight_requests'[x] = inflight_requests[x]
      BY <2>1 DEF Without
  <2>3. ASSUME NEW i \in DOMAIN RequestProtocols, i <= first, Elapsed(RequestProtocols[i])
        PROVE  Head(timeouts[RequestProtocols[i]]) \notin DOMAIN inflight_requests'
    <3>1. CASE i = first
        BY <2>1, <2>2, <3>1
    <3>2. CASE i # first
      <4>1. i \notin TimedOut
        <5>1. i \in Nat /\ first \in Nat
            BY <2>1, ConnectionConstants
        <5> QED
            BY <2>1, <2>3, <3>2, <5>1
      <4> QED
          BY <2>2, <2>3, <4>1 DEF TimedOut
    <3> QED
        BY <3>1, <3>2
  <2> QED
      BY <2>1, <2>2, <2>3, TimersTaken DEF Base
<1>2. CASE next_await
  <2>1. \A i \in DOMAIN RequestProtocols :
            Elapsed(RequestProtocols[i]) => Head(timeouts[RequestProtocols[i]]) \notin DOMAIN inflight_requests
      BY <1>2 DEF next_await, TimedOut
  <2> QED
      BY <1>2, <2>1, TimersTaken DEF next_await, KeepTables, Base
<1>3. CASE KeepTables /\ UNCHANGED timeouts
    BY <1>3, TimersKept DEF KeepTables
<1> QED
    BY <1>1, <1>2, <1>3 DEF next, LoopHead, next_emit, yamux_next, drop_next, sleep_ends

LEMMA CallsKeepTimers ==
    ASSUME Base, TimerOutlivesRequest, Calls
    PROVE  TimerOutlivesRequest'
<1>1. ASSUME NEW p \in RequestNames, request(p)
      PROVE  TimerOutlivesRequest'
  <2>1. PICK id \in StreamIds : id = next_stream_id
      BY <1>1 DEF request, open_stream, OpenStream
  <2> DEFINE r == [protocol_id |-> p, state |-> "AwaitingProtocolConfirmation"]
  <2>2. inflight_requests' = Put(inflight_requests, id, r) /\ r.protocol_id = p
      BY <1>1, <2>1 DEF request
  <2> HIDE DEF r
  <2>3. /\ DOMAIN inflight_requests' = DOMAIN inflight_requests \cup {id}
        /\ inflight_requests'[id] = r
        /\ \A x \in DOMAIN inflight_requests \ {id} : inflight_requests'[x] = inflight_requests[x]
      BY <2>2 DEF Put
  <2>4. PICK s \in Seq(StreamIds) : s = timeouts[p]
      BY DEF Base, Tables
  <2>5. /\ Len(s) + 1 \in DOMAIN Append(s, id) /\ Append(s, id)[Len(s) + 1] = id
        /\ \A i \in DOMAIN s : i \in DOMAIN Append(s, id) /\ Append(s, id)[i] = s[i]
      OBVIOUS
  <2>6. /\ p \in Timed => timeouts'[p] = Append(s, id)
        /\ p \notin Timed => UNCHANGED timeouts
        /\ \A q \in RequestNames \ {p} : timeouts'[q] = timeouts[q]
      BY <1>1, <2>1, <2>4 DEF request, Base, Tables
  <2> SUFFICES ASSUME NEW x \in DOMAIN inflight_requests', NEW q \in Timed,
                      q = inflight_requests'[x].protocol_id
               PROVE  \E i \in DOMAIN timeouts'[q] : timeouts'[q][i] = x
      BY DEF TimerOutlivesRequest
  <2>7. CASE x = id
      BY <2>2, <2>3, <2>5, <2>6, <2>7
  <2>8. CASE x # id
    <3>1. x \in DOMAIN inflight_requests /\ q = inflight_requests[x].protocol_id /\ q \in RequestNames
        BY <2>3, <2>8, ConnectionConstants
    <3>2. PICK i \in DOMAIN timeouts[q] : timeouts[q][i] = x
        BY <3>1 DEF TimerOutlivesRequest
    <3> QED
        BY <2>4, <2>5, <2>6, <3>1, <3>2
  <2> QED
      BY <2>7, <2>8
<1>2. ASSUME NEW id \in StreamIds, cancel_request(id) \/ respond(id)
      PROVE  TimerOutlivesRequest'
    BY <1>2, TimersKept DEF cancel_request, respond, Without
<1>3. ASSUME NEW p \in SubscriptionProtocols,
             subscribe(p) \/ send_notification(p) \/ cancel_subscription(p)
      PROVE  TimerOutlivesRequest'
    BY <1>3, TimersKept DEF subscribe, send_notification, cancel_subscription
<1> QED
    BY <1>1, <1>2, <1>3 DEF Calls

LEMMA OutputKeepsTimers ==
    ASSUME Base, TimerOutlivesRequest, OnOutput
    PROVE  TimerOutlivesRequest'
<1>1. CASE on_request_accepted
  <2>1. CASE CanSend(Id)
    <3>1. PICK id \in DOMAIN inflight_requests : id = Id
        BY <1>1 DEF on_request_accepted, ForRequest
    <3>2. PICK r \in [protocol_id : RequestNames, state : RequestStates] : r = inflight_requests[id]
        BY <3>1 DEF Base, Tables
    <3> DEFINE s == [r EXCEPT !.state = "AwaitingResponsePayload"]
    <3>3. s.protocol_id = r.protocol_id
        OBVIOUS
    <3>4. inflight_requests' = [inflight_requests EXCEPT ![id] = s]
        BY <1>1, <2>1, <3>1, <3>2, ZenonT(40) DEF on_request_accepted
    <3> HIDE DEF s
    <3> QED
        BY <1>1, <3>2, <3>3, <3>4, TimersKept DEF on_request_accepted, Handles
  <2>2. CASE ~CanSend(Id)
      BY <1>1, <2>2, TimersKept DEF on_request_accepted, Fail, Finish, KeepTables, Handles
  <2> QED
      BY <2>1, <2>2
<1>2. CASE \/ on_request_over \/ on_incoming_request
           \/ on_request_proposed \/ on_unknown_protocol \/ on_unknown_stream
  <2>1. \/ UNCHANGED inflight_requests
        \/ inflight_requests' = Without(inflight_requests, {Id})
      BY <1>2 DEF on_request_over, on_incoming_request, on_request_proposed, on_unknown_protocol,
             on_unknown_stream, Fail, Finish, KeepTables
  <2>2. UNCHANGED timeouts
      BY <1>2 DEF on_request_over, on_incoming_request, on_request_proposed, on_unknown_protocol,
             on_unknown_stream, Handles
  <2> QED
      BY <2>1, <2>2, TimersKept DEF Without
<1>3. ASSUME NEW p \in SubscriptionProtocols, OnSubscriptionOutput(p)
      PROVE  TimerOutlivesRequest'
  <2>1. UNCHANGED <<inflight_requests, timeouts>>
      BY <1>3 DEF OnSubscriptionOutput, on_our_stream_accepted, on_our_handshake, on_our_stream_over,
           on_subscription_unwanted, on_subscription_proposed, on_subscription_opened_by_remote,
           on_their_handshake, on_notification, on_their_stream_over, SubscriptionOver, Handles,
           Fail, Finish, KeepTables
  <2> QED
      BY <2>1, TimersKept
<1> QED
    BY <1>1, <1>2, <1>3 DEF OnOutput, OnSubscriptionOutput

\* A request with a timeout keeps its timer as long as it is in flight, whatever
\* order the requests of a protocol are answered, cancelled and timed out in
\* (request, handle_request_timeouts, Timers::try_next).
THEOREM TimerOutlivesRequestTheorem == Spec => []TimerOutlivesRequest
<1>1. Init => TimerOutlivesRequest
  <2>1. Init => DOMAIN inflight_requests = {}
      BY DEF Init
  <2> QED
      BY <2>1, ZenonT(40) DEF TimerOutlivesRequest
<1>2. Base /\ TimerOutlivesRequest /\ [Next]_vars => TimerOutlivesRequest'
  <2>1. ASSUME TimerOutlivesRequest, UNCHANGED vars
        PROVE  TimerOutlivesRequest'
      BY <2>1, TimersKept DEF vars, cvars
  <2> QED
      BY <2>1, CallsKeepTimers, LoopKeepsTimers, OutputKeepsTimers DEF Next
<1> QED
    BY <1>1, <1>2, BaseHolds, PTL DEF Spec

-----------------------------------------------------------------------------
(* Every request has one response *)

\* What next_buf and the histories of requests hold.
Histories ==
    /\ next_buf \in Seq(UserMessages)
    /\ \A i \in DOMAIN next_buf : next_buf[i].kind = "Response" => next_buf[i].id \in StreamIds
    /\ responses \in [StreamIds -> Nat]
    /\ requested \subseteq {id \in StreamIds : id < next_stream_id}

\* The places of a queue where a response to a request waits.
Waits(s, id) == {i \in DOMAIN s : s[i].kind = "Response" /\ s[i].id = id}

One(condition) == IF condition THEN 1 ELSE 0

LEMMA WaitsAppend ==
    ASSUME NEW s \in Seq(UserMessages), NEW m \in UserMessages, NEW id
    PROVE  Waits(Append(s, m), id) =
               IF m.kind = "Response" /\ m.id = id THEN Waits(s, id) \cup {Len(s) + 1} ELSE Waits(s, id)
<1> DEFINE t == Append(s, m)
           n == Len(s) + 1
<1>1. /\ n \notin DOMAIN s
      /\ DOMAIN t = DOMAIN s \cup {n} /\ t[n] = m
      /\ \A i \in DOMAIN s : t[i] = s[i]
    OBVIOUS
<1> HIDE DEF t, n
<1>2. Waits(t, id) = IF m.kind = "Response" /\ m.id = id THEN Waits(s, id) \cup {n} ELSE Waits(s, id)
    BY <1>1 DEF Waits
<1> QED
    BY <1>2 DEF t, n

LEMMA WaitsTail ==
    ASSUME NEW s \in Seq(UserMessages), s # <<>>, NEW id
    PROVE  /\ Waits(s, id) \subseteq 1 .. Len(s) /\ Len(s) \in Nat
           /\ Waits(Tail(s), id) = {i \in 1 .. Len(s) - 1 : i + 1 \in Waits(s, id)}
           /\ 1 \in Waits(s, id) <=> Head(s).kind = "Response" /\ Head(s).id = id
<1> DEFINE t == Tail(s)
<1>1. /\ Len(s) \in Nat \ {0} /\ DOMAIN s = 1 .. Len(s) /\ Head(s) = s[1]
      /\ t \in Seq(UserMessages) /\ DOMAIN t = 1 .. Len(s) - 1
      /\ \A i \in 1 .. Len(s) - 1 : t[i] = s[i + 1]
    OBVIOUS
<1> HIDE DEF t
<1>2. Waits(t, id) = {i \in 1 .. Len(s) - 1 : i + 1 \in Waits(s, id)}
    BY <1>1 DEF Waits
<1> QED
    BY <1>1, <1>2 DEF Waits, t

\* The first message of a queue goes: what is left of the responses that wait.
LEMMA OneLess ==
    ASSUME NEW s \in Seq(UserMessages), s # <<>>, NEW id, \A i, j \in Waits(s, id) : i = j
    PROVE  /\ \A i, j \in Waits(Tail(s), id) : i = j
           /\ IF Head(s).kind = "Response" /\ Head(s).id = id
              THEN Waits(s, id) # {} /\ Waits(Tail(s), id) = {}
              ELSE Waits(Tail(s), id) # {} <=> Waits(s, id) # {}
<1>1. /\ Waits(s, id) \subseteq 1 .. Len(s) /\ Len(s) \in Nat
      /\ Waits(Tail(s), id) = {i \in 1 .. Len(s) - 1 : i + 1 \in Waits(s, id)}
      /\ 1 \in Waits(s, id) <=> Head(s).kind = "Response" /\ Head(s).id = id
    BY WaitsTail
<1>2. \A i, j \in Waits(Tail(s), id) : i = j
    BY <1>1
<1>3. CASE 1 \in Waits(s, id)
  <2>1. \A i \in 1 .. Len(s) - 1 : i + 1 # 1
      BY <1>1
  <2> QED
      BY <1>1, <1>2, <1>3, <2>1
<1>4. CASE 1 \notin Waits(s, id)
  <2>1. \A j \in Waits(s, id) : j - 1 \in 1 .. Len(s) - 1 /\ (j - 1) + 1 = j
      BY <1>1, <1>4
  <2> QED
      BY <1>1, <1>2, <1>4, <2>1
<1> QED
    BY <1>3, <1>4

Counted ==
    \A id \in StreamIds :
        /\ \A i, j \in Waits(next_buf, id) : i = j
        /\ responses[id] + One(Waits(next_buf, id) # {}) + One(id \in DOMAIN inflight_requests)
              = One(id \in requested)

LEMMA CountedMeansOne == OneResponse <=> Counted
BY DEF OneResponse, Counted, Waits, One

\* What Counted says of one request: waiting tells whether a response waits.
LEMMA CountOf ==
    ASSUME Histories, Counted, NEW x \in StreamIds
    PROVE  \E waiting \in {0, 1} :
              /\ waiting = 1 <=> Waits(next_buf, x) # {}
              /\ \A i, j \in Waits(next_buf, x) : i = j
              /\ responses[x] \in Nat
              /\ responses[x] + waiting + One(x \in DOMAIN inflight_requests) = One(x \in requested)
<1>1. One(Waits(next_buf, x) # {}) \in {0, 1} /\ (One(Waits(next_buf, x) # {}) = 1 <=> Waits(next_buf, x) # {})
    BY DEF One
<1>2. /\ \A i, j \in Waits(next_buf, x) : i = j
      /\ responses[x] \in Nat
      /\ responses[x] + One(Waits(next_buf, x) # {}) + One(x \in DOMAIN inflight_requests) = One(x \in requested)
    BY DEF Counted, Histories
<1> QED
    BY <1>1, <1>2, ZenonT(40)

LEMMA CountedStep ==
    ASSUME \A x \in StreamIds : \E waiting \in {0, 1} :
              /\ waiting = 1 <=> Waits(next_buf', x) # {}
              /\ \A i, j \in Waits(next_buf', x) : i = j
              /\ responses'[x] + waiting + One(x \in DOMAIN inflight_requests') = One(x \in requested')
    PROVE  Counted'
BY DEF Counted, One

\* A step that has nothing to do with requests.
LEMMA QuietStep ==
    ASSUME Base, Next, Histories, Counted, UNCHANGED <<next_buf, responses, requested>>,
           DOMAIN inflight_requests' = DOMAIN inflight_requests
    PROVE  Histories' /\ Counted'
BY OlderIds DEF Histories, Counted

\* A request in flight is over, and its response is returned.
LEMMA AnswerStep ==
    ASSUME Base, Next, Histories, Counted, NEW id \in DOMAIN inflight_requests, NEW m, m.kind = "Response",
           m.id = id, Give(m), inflight_requests' = Without(inflight_requests, {id}), UNCHANGED next_buf
    PROVE  Histories' /\ Counted'
<1>1. id \in StreamIds /\ responses \in [StreamIds -> Nat]
    BY DEF Base, Tables, Histories
<1>2. responses' = [responses EXCEPT ![id] = @ + 1] /\ UNCHANGED requested
    BY DEF Give
<1>3. DOMAIN inflight_requests' = DOMAIN inflight_requests \ {id}
    BY DEF Without
<1>4. Histories'
    BY <1>1, <1>2, OlderIds DEF Histories
<1>5. ASSUME NEW x \in StreamIds
      PROVE  \E waiting \in {0, 1} :
                /\ waiting = 1 <=> Waits(next_buf', x) # {}
                /\ \A i, j \in Waits(next_buf', x) : i = j
                /\ responses'[x] + waiting + One(x \in DOMAIN inflight_requests') = One(x \in requested')
  <2>1. PICK waiting \in {0, 1} :
            /\ waiting = 1 <=> Waits(next_buf, x) # {}
            /\ \A i, j \in Waits(next_buf, x) : i = j
            /\ responses[x] \in Nat
            /\ responses[x] + waiting + One(x \in DOMAIN inflight_requests) = One(x \in requested)
      BY CountOf
  <2>2. Waits(next_buf', x) = Waits(next_buf, x)
      OBVIOUS
  <2>3. responses'[x] + waiting + One(x \in DOMAIN inflight_requests') = One(x \in requested')
    <3>1. CASE x = id
        BY <1>1, <1>2, <1>3, <2>1, <3>1 DEF One
    <3>2. CASE x # id
        BY <1>1, <1>2, <1>3, <2>1, <3>2 DEF One
    <3> QED
        BY <3>1, <3>2
  <2> QED
      BY <2>1, <2>2, <2>3
<1> QED
    BY <1>4, <1>5, CountedStep

LEMMA CallsKeepCount ==
    ASSUME Base, Histories, Counted, Calls
    PROVE  Histories' /\ Counted'
<1>0. Next
    BY DEF Next
<1>1. ASSUME NEW p \in RequestNames, request(p)
      PROVE  Histories' /\ Counted'
  <2>1. PICK id \in StreamIds : id = next_stream_id
      BY <1>1 DEF request, open_stream, OpenStream
  <2>2. /\ UNCHANGED <<next_buf, responses>>
        /\ requested' = requested \cup {id}
        /\ DOMAIN inflight_requests' = DOMAIN inflight_requests \cup {id}
      BY <1>1, <2>1 DEF request, UserCalls, Put
  <2>3. next_stream_id \in Nat /\ next_stream_id' = next_stream_id + 2
      BY <1>1 DEF request, open_stream, OpenStream, Base, MultistreamInv, Types, ServiceType
  <2>4. Histories'
    <3>1. requested' \subseteq {x \in StreamIds : x < next_stream_id'}
        BY <1>0, <2>1, <2>2, <2>3, OlderIds DEF Histories
    <3> QED
        BY <2>2, <3>1 DEF Histories
  <2>5. ASSUME NEW x \in StreamIds
        PROVE  \E waiting \in {0, 1} :
                  /\ waiting = 1 <=> Waits(next_buf', x) # {}
                  /\ \A i, j \in Waits(next_buf', x) : i = j
                  /\ responses'[x] + waiting + One(x \in DOMAIN inflight_requests') = One(x \in requested')
    <3>1. PICK waiting \in {0, 1} :
              /\ waiting = 1 <=> Waits(next_buf, x) # {}
              /\ \A i, j \in Waits(next_buf, x) : i = j
              /\ responses[x] \in Nat
              /\ responses[x] + waiting + One(x \in DOMAIN inflight_requests) = One(x \in requested)
        BY CountOf
    <3>2. id \notin requested /\ Waits(next_buf', x) = Waits(next_buf, x)
        BY <2>1, <2>2, <2>3 DEF Histories
    <3>3. responses'[x] + waiting + One(x \in DOMAIN inflight_requests') = One(x \in requested')
        BY <2>2, <3>1, <3>2 DEF One
    <3> QED
        BY <3>1, <3>2, <3>3
  <2> QED
      BY <2>4, <2>5, CountedStep
<1>2. ASSUME NEW id \in StreamIds, cancel_request(id)
      PROVE  Histories' /\ Counted'
  <2>1. PICK m \in UserMessages : m = Response(id, "Cancelled") /\ m.kind = "Response" /\ m.id = id
      BY ResponseMessage DEF Results
  <2>2. /\ next_buf' = Append(next_buf, m) /\ UNCHANGED <<requested, responses>>
        /\ id \in DOMAIN inflight_requests
        /\ DOMAIN inflight_requests' = DOMAIN inflight_requests \ {id}
      BY <1>2, <2>1 DEF cancel_request, UserCalls, Without
  <2>3. Histories'
      BY <1>0, <2>1, <2>2, OlderIds DEF Histories
  <2>4. ASSUME NEW x \in StreamIds
        PROVE  \E waiting \in {0, 1} :
                  /\ waiting = 1 <=> Waits(next_buf', x) # {}
                  /\ \A i, j \in Waits(next_buf', x) : i = j
                  /\ responses'[x] + waiting + One(x \in DOMAIN inflight_requests') = One(x \in requested')
    <3>1. PICK waiting \in {0, 1} :
              /\ waiting = 1 <=> Waits(next_buf, x) # {}
              /\ \A i, j \in Waits(next_buf, x) : i = j
              /\ responses[x] \in Nat
              /\ responses[x] + waiting + One(x \in DOMAIN inflight_requests) = One(x \in requested)
        BY CountOf
    <3>2. Waits(next_buf', x) = IF x = id THEN Waits(next_buf, x) \cup {Len(next_buf) + 1} ELSE Waits(next_buf, x)
        BY <2>1, <2>2, WaitsAppend DEF Histories
    <3>3. CASE x # id
      <4>1. responses'[x] + waiting + One(x \in DOMAIN inflight_requests') = One(x \in requested')
          BY <2>2, <3>1, <3>3 DEF One
      <4> QED
          BY <3>1, <3>2, <3>3, <4>1
    <3>4. CASE x = id
      <4>1. waiting = 0 /\ responses'[x] + 1 + One(x \in DOMAIN inflight_requests') = One(x \in requested')
          BY <2>2, <3>1, <3>4 DEF One
      <4>2. Waits(next_buf', x) = {Len(next_buf) + 1}
          BY <3>1, <3>2, <3>4, <4>1
      <4> QED
          BY <4>1, <4>2
    <3> QED
        BY <3>3, <3>4
  <2> QED
      BY <2>3, <2>4, CountedStep
<1>3. ASSUME NEW p \in SubscriptionProtocols, cancel_subscription(p)
      PROVE  Histories' /\ Counted'
  <2>1. PICK m \in UserMessages : m = Notification(p, "Closed") /\ m.kind = "Notification"
      BY NotificationMessage DEF Results
  <2>2. next_buf' = Append(next_buf, m) /\ UNCHANGED <<requested, responses, inflight_requests>>
      BY <1>3, <2>1 DEF cancel_subscription, UserCalls
  <2>3. Histories'
      BY <1>0, <2>1, <2>2, OlderIds DEF Histories
  <2>4. ASSUME NEW x \in StreamIds
        PROVE  Waits(next_buf', x) = Waits(next_buf, x)
      BY <2>1, <2>2, WaitsAppend DEF Histories
  <2> QED
      BY <2>2, <2>3, <2>4 DEF Counted
<1>4. CASE \/ \E id \in StreamIds : respond(id)
           \/ \E p \in SubscriptionProtocols : subscribe(p) \/ send_notification(p)
  <2>1. UNCHANGED <<next_buf, responses, requested, inflight_requests>>
      BY <1>4 DEF respond, subscribe, send_notification, UserCalls
  <2> QED
      BY <1>0, <2>1, QuietStep
<1> QED
    BY <1>1, <1>2, <1>3, <1>4 DEF Calls

LEMMA LoopKeepsCount ==
    ASSUME Base, Histories, Counted,
           next \/ LoopHead \/ yamux_next \/ drop_next \/ \E p \in Timed : sleep_ends(p)
    PROVE  Histories' /\ Counted'
<1>0. Next
    BY DEF Next
<1>1. CASE handle_request_timeouts
  <2>1. PICK id \in DOMAIN inflight_requests :
            inflight_requests' = Without(inflight_requests, {id}) /\ Give(Response(id, "Timeout"))
      BY <1>1, FirstTimedOut
  <2>2. UNCHANGED next_buf
      BY <1>1 DEF handle_request_timeouts
  <2>3. Response(id, "Timeout").kind = "Response" /\ Response(id, "Timeout").id = id
      BY DEF Response
  <2> QED
      BY <1>0, <2>1, <2>2, <2>3, AnswerStep
<1>2. CASE next_emit
  <2>1. next_buf \in Seq(UserMessages) /\ next_buf # <<>> /\ next_buf' = Tail(next_buf)
      BY <1>2 DEF next_emit, Histories
  <2>2. PICK m \in UserMessages : m = Head(next_buf)
      BY <2>1
  <2>3. m.kind = "Response" => m.id \in StreamIds
      BY <2>1, <2>2 DEF Histories
  <2>4. /\ responses' = IF m.kind = "Response" THEN [responses EXCEPT ![m.id] = @ + 1] ELSE responses
        /\ UNCHANGED <<requested, inflight_requests>>
      BY <1>2, <2>2 DEF next_emit, Give, KeepTables
  <2>5. responses \in [StreamIds -> Nat]
      BY DEF Histories
  <2>6. Histories'
    <3>1. /\ next_buf' \in Seq(UserMessages)
          /\ \A i \in DOMAIN next_buf' : i + 1 \in DOMAIN next_buf /\ next_buf'[i] = next_buf[i + 1]
        BY <2>1
    <3>2. \A i \in DOMAIN next_buf' : next_buf'[i].kind = "Response" => next_buf'[i].id \in StreamIds
        BY <3>1 DEF Histories
    <3>3. responses' \in [StreamIds -> Nat]
        BY <2>3, <2>4, <2>5
    <3>4. requested' \subseteq {id \in StreamIds : id < next_stream_id'}
        BY <1>0, <2>4, OlderIds DEF Histories
    <3> QED
        BY <3>1, <3>2, <3>3, <3>4 DEF Histories
  <2>7. ASSUME NEW x \in StreamIds
        PROVE  \E waiting \in {0, 1} :
                  /\ waiting = 1 <=> Waits(next_buf', x) # {}
                  /\ \A i, j \in Waits(next_buf', x) : i = j
                  /\ responses'[x] + waiting + One(x \in DOMAIN inflight_requests') = One(x \in requested')
    <3>1. PICK waiting \in {0, 1} :
              /\ waiting = 1 <=> Waits(next_buf, x) # {}
              /\ \A i, j \in Waits(next_buf, x) : i = j
              /\ responses[x] \in Nat
              /\ responses[x] + waiting + One(x \in DOMAIN inflight_requests) = One(x \in requested)
        BY CountOf
    <3>2. /\ \A i, j \in Waits(next_buf', x) : i = j
          /\ IF m.kind = "Response" /\ m.id = x
             THEN Waits(next_buf, x) # {} /\ Waits(next_buf', x) = {}
             ELSE Waits(next_buf', x) # {} <=> Waits(next_buf, x) # {}
        BY <2>1, <2>2, <3>1, OneLess
    <3>3. CASE m.kind = "Response" /\ m.id = x
      <4>1. waiting = 1 /\ responses'[x] = responses[x] + 1
          BY <2>4, <2>5, <3>1, <3>2, <3>3
      <4>2. responses'[x] + 0 + One(x \in DOMAIN inflight_requests') = One(x \in requested')
          BY <2>4, <3>1, <4>1 DEF One
      <4>3. 0 \in {0, 1} /\ 0 # 1
          OBVIOUS
      <4> QED
          BY ZenonT(40), <3>2, <3>3, <4>2, <4>3
    <3>4. CASE ~(m.kind = "Response" /\ m.id = x)
      <4>1. responses'[x] = responses[x]
          BY <2>3, <2>4, <2>5, <3>4
      <4>2. responses'[x] + waiting + One(x \in DOMAIN inflight_requests') = One(x \in requested')
          BY <2>4, <3>1, <4>1 DEF One
      <4> QED
          BY <3>1, <3>2, <3>4, <4>2
    <3> QED
        BY <3>3, <3>4
  <2> QED
      BY <2>6, <2>7, CountedStep
<1>3. CASE next \/ next_await \/ yamux_next \/ drop_next \/ \E p \in Timed : sleep_ends(p)
  <2>1. UNCHANGED <<next_buf, responses, requested, inflight_requests>>
      BY <1>3 DEF next, next_await, yamux_next, drop_next, sleep_ends, Goto, KeepTables
  <2> QED
      BY <1>0, <2>1, QuietStep
<1> QED
    BY <1>1, <1>2, <1>3 DEF LoopHead

LEMMA OutputKeepsCount ==
    ASSUME Base, Histories, Counted, OnOutput
    PROVE  Histories' /\ Counted'
<1>0. Next
    BY DEF Next
<1>1. CASE on_request_over
  <2>1. PICK id \in DOMAIN inflight_requests : id = Id
      BY <1>1 DEF on_request_over, ForRequest
  <2>2. PICK m : m = Response(id, RequestResult(inflight_requests[Id].state))
      OBVIOUS
  <2>3. Give(m) /\ inflight_requests' = Without(inflight_requests, {id}) /\ UNCHANGED next_buf
      BY <1>1, <2>1, <2>2 DEF on_request_over, Handles
  <2>4. m.kind = "Response" /\ m.id = id
      BY <2>2 DEF Response
  <2> QED
      BY <1>0, <2>3, <2>4, AnswerStep
<1>2. CASE on_request_accepted
  <2>1. UNCHANGED <<next_buf, responses, requested>>
      BY <1>2 DEF on_request_accepted, Fail, Finish, Goto, Handles
  <2>2. DOMAIN inflight_requests' = DOMAIN inflight_requests
      BY <1>2 DEF on_request_accepted, Fail, Finish, KeepTables
  <2> QED
      BY <1>0, <2>1, <2>2, QuietStep
<1>3. CASE on_incoming_request \/ on_request_proposed \/ on_unknown_protocol \/ on_unknown_stream
  <2>1. UNCHANGED <<next_buf, responses, requested, inflight_requests>>
      BY <1>3 DEF on_incoming_request, on_request_proposed, on_unknown_protocol, on_unknown_stream,
             Fail, Finish, Goto, Give, Request, KeepTables, Handles
  <2> QED
      BY <1>0, <2>1, QuietStep
<1>4. ASSUME NEW p \in SubscriptionProtocols, OnSubscriptionOutput(p)
      PROVE  Histories' /\ Counted'
  <2>1. UNCHANGED <<next_buf, responses, requested, inflight_requests>>
      BY <1>4 DEF OnSubscriptionOutput, on_our_stream_accepted, on_our_handshake, on_our_stream_over,
           on_subscription_unwanted, on_subscription_proposed, on_subscription_opened_by_remote,
           on_their_handshake, on_notification, on_their_stream_over, SubscriptionOver, OpenedIf,
           Fail, Finish, Goto, Give, Notification, KeepTables, Handles
  <2> QED
      BY <1>0, <2>1, QuietStep
<1> QED
    BY <1>1, <1>2, <1>3, <1>4 DEF OnOutput, OnSubscriptionOutput

LEMMA InitCounted == Init => Histories /\ Counted
<1> SUFFICES ASSUME Init PROVE Histories /\ Counted
    OBVIOUS
<1>1. DOMAIN next_buf = {} /\ DOMAIN inflight_requests = {} /\ requested = {}
    BY DEF Init
<1>2. ASSUME NEW id \in StreamIds
      PROVE  Waits(next_buf, id) = {}
    BY <1>1, ZenonT(40) DEF Waits
<1>3. responses = [id \in StreamIds |-> 0] /\ next_buf \in Seq(UserMessages)
    BY DEF Init
<1>4. Histories
    BY <1>1, <1>3 DEF Histories
<1>5. ASSUME NEW id \in StreamIds
      PROVE  /\ responses[id] = 0
             /\ id \notin DOMAIN inflight_requests
             /\ id \notin requested
    BY <1>1, <1>3
<1>6. Counted
  <2> SUFFICES ASSUME NEW id \in StreamIds
               PROVE  /\ \A i, j \in Waits(next_buf, id) : i = j
                      /\ responses[id] + One(Waits(next_buf, id) # {}) + One(id \in DOMAIN inflight_requests)
                            = One(id \in requested)
      BY DEF Counted
  <2> QED
      BY <1>2, <1>5 DEF One
<1> QED
    BY <1>4, <1>6

LEMMA CountHolds == Spec => [](Histories /\ Counted)
<1>1. Base /\ Histories /\ Counted /\ [Next]_vars => Histories' /\ Counted'
  <2>1. ASSUME Histories, Counted, UNCHANGED vars
        PROVE  Histories' /\ Counted'
      BY <2>1 DEF vars, cvars, mvars, service, Histories, Counted
  <2> QED
      BY <2>1, CallsKeepCount, LoopKeepsCount, OutputKeepsCount DEF Next
<1> QED
    BY <1>1, InitCounted, BaseHolds, PTL DEF Spec

\* request() promises "exactly one" response: answers, refusals, closes, timeouts
\* and cancellations race for it, and one of them wins (connection.rs, 319-320).
THEOREM OneResponseTheorem == Spec => []OneResponse
    BY CountHolds, CountedMeansOne, PTL

-----------------------------------------------------------------------------
(* Nothing but the negotiation precedes the protocol *)

LEMMA AcceptAndOpenNegotiates ==
    ASSUME MultistreamInv, Negotiated, ~ended, RemoteReopensOnlyClosed, NEW id \in StreamIds, CanReply(id),
           NEW p \in Protocols, OpenStream,
           bufs' = Put([bufs EXCEPT ![id].state = "Open", ![id].max_buffer_size = MaxSize],
                       next_stream_id, NewOutgoing(<<p>>, MaxSize)),
           sent' = [sent EXCEPT ![id] = Append(@, p), ![next_stream_id] = <<HEADER, p>>]
    PROVE  Negotiated'
<1>1. PICK n \in StreamIds : n = next_stream_id
    BY DEF OpenStream
<1>2. PICK b \in Multistream : b = bufs[id]
    BY DEF MultistreamInv, Entries, CanReply, Waiting
<1> DEFINE c == [b EXCEPT !.state = "Open", !.max_buffer_size = MaxSize]
           d == NewOutgoing(<<p>>, MaxSize)
<1>3. c.state = "Open" /\ d.state = Outgoing /\ d.protocol = p
    BY DEF Multistream, NewOutgoing, Outgoing
<1>4. bufs' = Put([bufs EXCEPT ![id] = c], n, d)
    BY <1>1, <1>2, ZenonT(40)
<1> HIDE DEF c, d
<1>5. /\ id # n /\ id \in DOMAIN bufs
      /\ bufs[id].state = "NewIncomingProtocolWaitingForAccept" /\ NegotiatedStream(id)
    BY <1>1
    DEF MultistreamInv, Types, ServiceType, Entries, Negotiating, CanReply, Waiting, IncomingStates,
        OpenStream, Negotiated
<1>6. /\ DOMAIN bufs' = DOMAIN bufs \cup {n}
      /\ bufs'[n] = d /\ bufs'[id] = c
      /\ \A x \in DOMAIN bufs \ {id, n} : bufs'[x] = bufs[x]
    BY <1>4, <1>5 DEF Put
<1>7. PICK s \in Seq(Messages) : s = sent[id]
    BY DEF MultistreamInv, Types
<1>8. PICK t \in Seq(Messages) : t = sent'[id] /\ t = s \o <<p>>
  <2>1. Append(s, p) = s \o <<p>> /\ s \o <<p>> \in Seq(Messages)
      BY DEF Messages
  <2> QED
      BY <1>1, <1>5, <1>7, <2>1 DEF MultistreamInv, Types
<1>9. /\ sent'[n] = <<HEADER, p>>
      /\ \A x \in StreamIds \ {id, n} : sent'[x] = sent[x]
    BY <1>1, <1>5 DEF MultistreamInv, Types
<1>10. p \in Messages /\ p \notin Payloads /\ HEADER \notin Payloads
    BY MultistreamConstants DEF Messages
<1>11. NegotiatedStream(id)'
  <2>1. s # <<>> /\ s[1] = HEADER /\ PayloadsLast(s)
      BY <1>5, <1>7 DEF NegotiatedStream
  <2>2. t # <<>> /\ t[1] = HEADER /\ PayloadsLast(t)
      BY <1>8, <1>10, <2>1, SentOneMore
  <2>3. \E j \in DOMAIN t : t[j] \in Protocols
    <3>1. t[Len(t)] = p /\ Len(t) \in DOMAIN t
        BY <1>8
    <3> QED
        BY <3>1
  <2> QED
      BY <1>3, <1>6, <1>8, <2>2, <2>3 DEF NegotiatedStream, Outgoing
<1>12. NegotiatedStream(n)'
  <2>0. HEADER \in Messages /\ <<HEADER, p>> \in Seq(Messages)
      BY DEF Messages
  <2>1. PICK u \in Seq(Messages) : u = <<HEADER, p>> /\ u = sent'[n]
      BY <1>9, <2>0, ZenonT(40)
  <2>2. Len(u) = 2 /\ u[1] = HEADER /\ u[2] = p /\ u # <<>> /\ DOMAIN u = 1 .. 2
      BY <2>1
  <2>3. PayloadsLast(u) /\ \A i \in DOMAIN u : u[i] \notin Payloads
      BY <1>10, <2>2 DEF PayloadsLast
  <2> QED
      BY <1>3, <1>6, <2>1, <2>2, <2>3 DEF NegotiatedStream, Outgoing
<1>13. \A x \in DOMAIN bufs : x \in StreamIds
    BY DEF MultistreamInv, Types
<1>14. UNCHANGED ended
    BY DEF OpenStream
<1> QED
    BY <1>6, <1>9, <1>11, <1>12, <1>13, <1>14, NegotiatedStep

LEMMA CallsNegotiate ==
    ASSUME Base, Negotiated, Calls, RemoteReopensOnlyClosed
    PROVE  Negotiated'
<1>0. ~ended
    BY DEF Calls, request, cancel_request, respond, subscribe, send_notification, cancel_subscription, UserCalls
<1>1. ASSUME NEW p \in RequestNames, request(p)
      PROVE  Negotiated'
    BY <1>1, OpenNegotiates, ConnectionTypes DEF request, Base
<1>2. ASSUME NEW p \in SubscriptionProtocols, subscribe(p)
      PROVE  Negotiated'
    BY <1>2, OpenNegotiates, ConnectionTypes DEF subscribe, Base
<1>3. ASSUME NEW id \in StreamIds, cancel_request(id)
      PROVE  Negotiated'
    BY <1>3, FewerNegotiated DEF cancel_request, reset_stream_immediately, reset_streams
<1>4. ASSUME NEW id \in StreamIds, respond(id)
      PROVE  Negotiated'
  <2>1. UNCHANGED ended /\ close_stream(id)
      BY <1>4 DEF respond, close_stream, Close, KeepService, service
  <2>2. CASE CanSend(id)
      BY <1>0, <1>4, <2>1, <2>2, SendNegotiates, ConnectionConstants DEF respond, send_data, Base
  <2>3. CASE ~CanSend(id)
      BY <1>4, <2>1, <2>3, CloseNegotiates DEF respond, Base
  <2> QED
      BY <2>2, <2>3
<1>5. ASSUME NEW p \in SubscriptionProtocols, send_notification(p)
      PROVE  Negotiated'
  <2>1. PICK id \in StreamIds : id = our_stream[p].stream_id
    <3>1. CanSend(our_stream[p].stream_id)
        BY <1>5 DEF send_notification, send_data
    <3> QED
        BY <3>1 DEF CanSend, Base, MultistreamInv, Types
  <2>2. UNCHANGED ended
      BY <1>5 DEF send_notification, KeepService, service
  <2> QED
      BY <1>0, <1>5, <2>1, <2>2, SendNegotiates, ConnectionConstants DEF send_notification, Base
<1>6. ASSUME NEW p \in SubscriptionProtocols, cancel_subscription(p)
      PROVE  Negotiated'
  <2>1. \E ids : reset_streams(ids)
      BY <1>6 DEF cancel_subscription, cancel_subscription_silently
  <2> QED
      BY <1>6, <2>1, FewerNegotiated DEF cancel_subscription, reset_streams
<1> QED
    BY <1>1, <1>2, <1>3, <1>4, <1>5, <1>6 DEF Calls

LEMMA LoopNegotiates ==
    ASSUME Base, Negotiated, RemoteReopensOnlyClosed,
           next \/ LoopHead \/ yamux_next \/ drop_next \/ \E p \in Timed : sleep_ends(p)
    PROVE  Negotiated'
<1>1. CASE handle_request_timeouts
  <2>1. \E ids : reset_streams(ids)
      BY <1>1, FirstTimedOut
  <2>2. UNCHANGED sent
      BY <1>1 DEF handle_request_timeouts
  <2> QED
      BY <2>1, <2>2, FewerNegotiated DEF reset_streams
<1>2. CASE yamux_next
    BY <1>2, TurnNegotiates, RemoteNegotiates DEF yamux_next, Base
<1>3. CASE UNCHANGED mvars
    BY <1>3, NegotiatedStep DEF mvars, service
<1> QED
    BY <1>1, <1>2, <1>3 DEF next, LoopHead, next_emit, next_await, drop_next, sleep_ends

\* The answers of the connection: each is one call of the layer below, except
\* that our side of a subscription is opened along with theirs.
LEMMA OutputNegotiates ==
    ASSUME Base, OutFits, Negotiated, OnOutput, RemoteReopensOnlyClosed
    PROVE  Negotiated'
<1>0. Handles
    BY DEF OnOutput, on_request_accepted, on_request_over, on_incoming_request, on_request_proposed,
           on_unknown_protocol, on_unknown_stream,
           on_our_stream_accepted, on_our_handshake, on_our_stream_over,
           on_subscription_unwanted, on_subscription_proposed, on_subscription_opened_by_remote,
           on_their_handshake, on_notification, on_their_stream_over
<1>1. PICK id \in StreamIds : id = Id /\ ~ended
    BY <1>0, HandlesBetweenTurns
<1>2. CASE Fail
    BY <1>1, <1>2, NegotiatedStep DEF Fail, Finish
<1>3. CASE UNCHANGED sent /\ \E ids : reset_streams(ids)
    BY <1>3, FewerNegotiated DEF reset_streams
<1>4. CASE KeepStreams
    BY <1>4, NegotiatedStep DEF KeepStreams, KeepService, service
<1>5. CASE SendHandshake
    BY <1>1, <1>5, SendNegotiates, ConnectionConstants DEF SendHandshake, KeepService, service, Base
<1>6. CASE send_data(id, RequestPayload) /\ close_stream(id)
  <2>1. UNCHANGED ended
      BY <1>6 DEF close_stream, Close, KeepService, service
  <2> QED
      BY <1>1, <1>6, <2>1, SendNegotiates, ConnectionConstants DEF Base
<1>7. CASE reject_protocol(id)
    BY <1>1, <1>7, RejectNegotiates DEF Base
<1>8. ASSUME OutputIs({"IncomingProtocol"}), out[1].message \in Protocols, accept_protocol(id, MaxSize)
      PROVE  Negotiated'
  <2>1. bufs[id].protocol \in Protocols
      BY <1>0, <1>1, <1>8 DEF OutFits, Handles
  <2> QED
      BY <1>1, <1>8, <2>1, AcceptNegotiates DEF Base
<1>9. CASE on_request_accepted \/ on_request_over \/ on_incoming_request \/ on_unknown_protocol \/ on_unknown_stream
    BY <1>1, <1>2, <1>3, <1>4, <1>6, <1>7, <1>9
       DEF on_request_accepted, on_request_over, on_incoming_request, on_unknown_protocol, on_unknown_stream,
           reset_stream_immediately
<1>10. CASE on_request_proposed
  <2>1. OutputIs({"IncomingProtocol"}) /\ out[1].message \in Protocols
      BY <1>10, ConnectionTypes DEF on_request_proposed, WantedRequest
  <2> QED
      BY <1>1, <1>8, <1>10, <2>1 DEF on_request_proposed
<1>11. ASSUME NEW p \in SubscriptionProtocols,
              \/ on_our_stream_accepted(p) \/ on_our_handshake(p) \/ on_our_stream_over(p)
              \/ on_subscription_unwanted(p) \/ on_their_handshake(p) \/ on_notification(p)
              \/ on_their_stream_over(p)
       PROVE  Negotiated'
    BY <1>2, <1>3, <1>4, <1>5, <1>11
       DEF on_our_stream_accepted, on_our_handshake, on_our_stream_over, on_subscription_unwanted,
           on_their_handshake, on_notification, on_their_stream_over, SubscriptionOver,
           cancel_subscription_silently, reset_stream_immediately
<1>12. ASSUME NEW p \in SubscriptionProtocols, on_subscription_proposed(p)
       PROVE  Negotiated'
  <2>1. OutputIs({"IncomingProtocol"}) /\ out[1].message = p
      BY <1>1, <1>12, ProposedOnNew DEF on_subscription_proposed
  <2> QED
      BY <1>1, <1>8, <1>12, <2>1, ConnectionTypes DEF on_subscription_proposed
<1>13. ASSUME NEW p \in SubscriptionProtocols, on_subscription_opened_by_remote(p)
       PROVE  Negotiated'
  <2>1. OutputIs({"IncomingProtocol"}) /\ out[1].message = p /\ p \in Protocols
      BY <1>1, <1>13, ProposedOnNew, ConnectionTypes DEF on_subscription_opened_by_remote
  <2>2. CASE CanReply(Id)
      BY <1>1, <1>13, <2>1, <2>2, AcceptAndOpenNegotiates DEF on_subscription_opened_by_remote, Base
  <2>3. CASE ~CanReply(Id)
      BY <1>1, <1>8, <1>13, <2>1, <2>3 DEF on_subscription_opened_by_remote
  <2> QED
      BY <2>2, <2>3
<1> QED
    BY <1>9, <1>10, <1>11, <1>12, <1>13 DEF OnOutput

=============================================================================

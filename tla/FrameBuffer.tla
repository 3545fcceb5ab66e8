---------------------------- MODULE FrameBuffer ----------------------------
(***************************************************************************)
(* MultistreamFrameBuffer of                                               *)
(* src/src/layers/yamux_multistream/frame_buffer.rs: bytes are fed in      *)
(* pieces of any size, and next hands frames back.                         *)
(***************************************************************************)
EXTENDS Varint

CONSTANTS
    Streams,    \* byte sequences to be fed
    Payloads    \* sequences of frames to be encoded and fed

VARIABLES
    decoder,    \* needs, DecodingLen: the bytes of the length so far
    len,        \* needs, Len: the length, once it is decoded
    buf,        \* fed and not used yet
    failed,
    calling,    \* next is running
    to_feed,    \* bytes that are still to be fed
    source,     \* history: the payloads, when to_feed was encoded from them
    fed,        \* history: bytes fed
    prefixes,   \* history: the bytes of the lengths decoded
    frames      \* history: the frames handed back

fbvars == <<decoder, len, buf, failed, calling, to_feed, source, fed, prefixes, frames>>

NoLen == -1
Unframed == <<<<-1>>>>  \* source of a stream that was not encoded

\* Mutant: the length counts itself.
Framed_Counted(payload) == encode(Len(payload) + 1) \o payload

\* A frame as YamuxMultistream sends it.
Framed(payload) == encode(Len(payload)) \o payload

FrameBufferInit ==
    /\ decoder = <<>> /\ len = NoLen
    /\ buf = <<>>
    /\ failed = FALSE
    /\ calling = FALSE
    /\ \/ source = Unframed /\ to_feed \in Streams
       \/ source \in Payloads /\ to_feed = FlattenSeq([i \in DOMAIN source |-> Framed(source[i])])
    /\ fed = <<>> /\ prefixes = <<>> /\ frames = <<>>

FrameBufferEmpty ==
    /\ decoder = <<>> /\ len = NoLen /\ buf = <<>> /\ failed = FALSE /\ calling = FALSE
    /\ source = Unframed /\ to_feed = <<>> /\ fed = <<>> /\ prefixes = <<>> /\ frames = <<>>

feed_bytes(n) ==
    /\ ~calling /\ n <= Len(to_feed)
    /\ buf' = buf \o SubSeq(to_feed, 1, n)
    /\ fed' = fed \o SubSeq(to_feed, 1, n)
    /\ to_feed' = SubSeq(to_feed, n + 1, Len(to_feed))
    /\ calling' = TRUE
    /\ UNCHANGED <<decoder, len, failed, source, prefixes, frames>>

\* next, which its caller repeats until it has nothing to return.
next_failed ==
    /\ calling /\ failed
    /\ calling' = FALSE
    /\ UNCHANGED <<decoder, len, buf, failed, to_feed, source, fed, prefixes, frames>>

next_byte ==
    /\ calling /\ ~failed /\ len = NoLen /\ buf # <<>>
    /\ LET out == feed(decoder, Head(buf))
       IN  /\ decoder' = IF out.result = "NeedsMoreBytes" THEN out.bytes ELSE <<>>
           /\ len' = IF out.result = "Value" THEN AsUsize(out.value) ELSE NoLen
           /\ prefixes' = IF out.result = "Value" THEN Append(prefixes, Append(decoder, Head(buf)))
                          ELSE prefixes
           /\ failed' = (out.result = "OutOfRange")
    /\ buf' = Tail(buf)
    /\ UNCHANGED <<calling, to_feed, source, fed, frames>>

Complete == len # NoLen /\ Len(buf) >= len

\* Mutant: what is left in buf goes with the frame.
Left_None == <<>>

Left == SubSeq(buf, len + 1, Len(buf))

Taken == SubSeq(buf, 1, len)

next_frame ==
    /\ calling /\ ~failed /\ Complete
    /\ frames' = Append(frames, Taken)
    /\ buf' = Left
    /\ len' = NoLen
    /\ UNCHANGED <<decoder, failed, calling, to_feed, source, fed, prefixes>>

next_none ==
    /\ calling /\ ~failed /\ ~Complete
    /\ len = NoLen => buf = <<>>
    /\ calling' = FALSE
    /\ UNCHANGED <<decoder, len, buf, failed, to_feed, source, fed, prefixes, frames>>

FrameBufferNext ==
    \/ \E n \in 1 .. Len(to_feed) : feed_bytes(n)
    \/ next_failed \/ next_byte \/ next_frame \/ next_none

-----------------------------------------------------------------------------

\* The frames tile the stream: in whatever pieces it was fed, it is the lengths
\* and the frames handed back, in order, then what is still held; each frame is
\* as long as its length says, to the width of a usize.  Between calls there is
\* no whole frame in what is held, one of length zero included.
FramesTile ==
    LET Part(i) == prefixes[i] \o IF i <= Len(frames) THEN frames[i] ELSE <<>>
        Declared(i) == decode_valid_bytes(prefixes[i]) % USIZE
    IN  /\ ~failed => fed = FlattenSeq([i \in DOMAIN prefixes |-> Part(i)]) \o decoder \o buf
        /\ \A i \in DOMAIN frames : Len(frames[i]) = Declared(i)
        /\ ~calling /\ ~failed =>
              /\ Len(frames) = Len(prefixes) - IF len = NoLen THEN 0 ELSE 1
              /\ IF len = NoLen THEN buf = <<>> ELSE Len(buf) < Declared(Len(prefixes))

\* What a sender encodes with varint::encode comes back: the same frames, in the
\* same order, and all of them once the last byte was fed.
FramesRoundTrip ==
    source # Unframed =>
        /\ IsPrefix(frames, source) /\ ~failed
        /\ to_feed = <<>> /\ ~calling => frames = source

=============================================================================

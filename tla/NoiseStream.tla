---------------------------- MODULE NoiseStream ----------------------------
(***************************************************************************)
(* The byte streams to and from the peer, and the encrypted streams over   *)
(* them: NoiseReadStream and NoiseWriteStream of src/src/layers/noise.rs.  *)
(*                                                                         *)
(* A unit is a byte, or several that are always read together.  Units have *)
(* a kind k: "len" and "msg" for the length and the rest of a multistream  *)
(* message, "frame" for the length of a Noise frame, "hs" for a handshake  *)
(* message, "cipher" for a byte of an encrypted frame, "app" for data of   *)
(* the session above.  The bytes that arrive are a prefix of those sent,   *)
(* in pieces of any size; what the peer does not read backs up.            *)
(***************************************************************************)
EXTENDS Integers, Sequences, SequencesExt

CONSTANTS
    MAX_NOISE_MSG,  \* largest encrypted frame; its length prefix counts to there
    TAG,            \* bytes that encryption adds to a frame
    Window          \* bound: units under way to the peer

MAX_PLAINTEXT == MAX_NOISE_MSG - TAG

NoFrame == -1

VARIABLES
    inbound,     \* sent by the peer and not read yet
    arrived,     \* how many of them have arrived
    outbound,    \* history: what was written to the peer
    drained,     \* how many of them the peer has read
    closed,      \* the peer has closed its direction
    tosend,      \* rest of the buffer that the AsyncWrite below is writing
    data,        \* rest of the data that write_all was given
    read_buf,    \* decrypted and not read yet
    want,        \* read_exact: how many units are still to be read
    frame_len,   \* recv_frame: the length, once it was read
    nonces,      \* snow's counters, for sending and receiving
    written,     \* history: plaintext given to write_all
    read,        \* history: plaintext taken from read_buf
    peer_wrote   \* history: plaintext that the peer has encrypted

streams == <<inbound, arrived, outbound, drained, closed, tosend, data, read_buf, want, frame_len, nonces,
             written, read, peer_wrote>>

StreamsInit ==
    /\ inbound = <<>> /\ arrived = 0
    /\ outbound = <<>> /\ drained = 0
    /\ closed = FALSE
    /\ tosend = <<>> /\ data = <<>>
    /\ read_buf = <<>>
    /\ want = 0
    /\ frame_len = NoFrame
    /\ nonces = [send |-> 0, receive |-> 0, peer |-> 0]
    /\ written = <<>> /\ read = <<>> /\ peer_wrote = <<>>

-----------------------------------------------------------------------------

Tag == [k |-> "tag"]

Cipher(plain, nonce) ==
    LET n == Len(plain) + TAG
    IN  [i \in 1 .. n |-> [k |-> "cipher", nonce |-> nonce, pos |-> i, of |-> n,
                           plain |-> IF i <= Len(plain) THEN plain[i] ELSE Tag]]

\* send_frame: the length is a u16, so MAX_NOISE_MSG is its largest value.
Frame(units) == <<[k |-> "frame", n |-> Len(units) % (MAX_NOISE_MSG + 1)]>> \o units

PlainOf(units) ==
    LET Encrypted(u) == u.k = "cipher"
        Plain(u)     == u.plain
        Data(u)      == u # Tag
        ciphers      == SelectSeq(units, Encrypted)
    IN  SelectSeq([i \in 1 .. Len(ciphers) |-> Plain(ciphers[i])], Data)

\* snow: a frame decrypts if it is whole and the next one.
Decrypts(units) ==
    /\ Len(units) >= TAG
    /\ \A i \in 1 .. Len(units) :
        units[i].k = "cipher" /\ units[i].nonce = nonces.receive
                              /\ units[i].pos = i /\ units[i].of = Len(units)

-----------------------------------------------------------------------------

\* AsyncWrite below: as much of the buffer as there is room for.
Room == Window - (Len(outbound) - drained)

Writing == tosend # <<>>

place ==
    /\ Writing /\ Room > 0
    /\ LET n == IF Len(tosend) <= Room THEN Len(tosend) ELSE Room
       IN  /\ outbound' = outbound \o SubSeq(tosend, 1, n)
           /\ tosend' = SubSeq(tosend, n + 1, Len(tosend))
    /\ UNCHANGED <<inbound, arrived, drained, closed, data, read_buf, want, frame_len, nonces, written, read,
                   peer_wrote>>

Write(units) ==
    /\ tosend' = units
    /\ UNCHANGED <<inbound, arrived, outbound, drained, closed, data, read_buf, want, frame_len, nonces,
                   written, read, peer_wrote>>

\* write_all of NoiseWriteStream: chunk by chunk, each encrypted when the one
\* before is written.
write_all(units) ==
    /\ data' = units
    /\ written' = written \o units
    /\ UNCHANGED <<inbound, arrived, outbound, drained, closed, tosend, read_buf, want, frame_len, nonces, read,
                   peer_wrote>>

\* Mutant: chunks leave no room for the tag.
ChunkLen_NoTag == IF Len(data) <= MAX_NOISE_MSG THEN Len(data) ELSE MAX_NOISE_MSG

ChunkLen == IF Len(data) <= MAX_PLAINTEXT THEN Len(data) ELSE MAX_PLAINTEXT

write_chunk ==
    /\ ~Writing /\ data # <<>>
    /\ tosend' = Frame(Cipher(SubSeq(data, 1, ChunkLen), nonces.send))
    /\ data' = SubSeq(data, ChunkLen + 1, Len(data))
    /\ nonces' = [nonces EXCEPT !.send = @ + 1]
    /\ UNCHANGED <<inbound, arrived, outbound, drained, closed, read_buf, want, frame_len, written, read,
                   peer_wrote>>

\* read_exact of the stream below, for the next n units.
Take(n) ==
    /\ arrived >= n
    /\ inbound' = SubSeq(inbound, n + 1, Len(inbound))
    /\ arrived' = arrived - n

\* read_exact of NoiseReadStream: first what is left of the last frame,
read_exact(n) ==
    /\ want = 0
    /\ want' = n
    /\ UNCHANGED <<inbound, arrived, outbound, drained, closed, tosend, data, read_buf, frame_len, nonces,
                   written, read, peer_wrote>>

\* Mutant: the rest of a frame is given up with the read that needed its start.
Kept_None(n) == <<>>

Kept(n) == SubSeq(read_buf, n + 1, Len(read_buf))

drain ==
    /\ want > 0 /\ read_buf # <<>>
    /\ LET n == IF Len(read_buf) <= want THEN Len(read_buf) ELSE want
       IN  /\ read' = read \o SubSeq(read_buf, 1, n)
           /\ read_buf' = Kept(n)
           /\ want' = want - n
    /\ UNCHANGED <<inbound, arrived, outbound, drained, closed, tosend, data, frame_len, nonces, written,
                   peer_wrote>>

\* then another frame: its length, which is anything when it is read at the
\* wrong place,
RecvLength ==
    /\ frame_len = NoFrame
    /\ Take(1)
    /\ frame_len' \in IF inbound[1].k = "frame" THEN {inbound[1].n} ELSE 0 .. MAX_NOISE_MSG
    /\ UNCHANGED <<outbound, drained, closed, tosend, data, read_buf, want, nonces, written, read,
                   peer_wrote>>

Starved == want > 0 /\ read_buf = <<>>

recv_frame_len == Starved /\ RecvLength

\* and the rest.
recv_frame ==
    /\ Starved /\ frame_len # NoFrame
    /\ Take(frame_len)
    /\ Decrypts(SubSeq(inbound, 1, frame_len))
    /\ read_buf' = read_buf \o PlainOf(SubSeq(inbound, 1, frame_len))
    /\ frame_len' = NoFrame
    /\ nonces' = [nonces EXCEPT !.receive = @ + 1]
    /\ UNCHANGED <<outbound, drained, closed, tosend, data, want, written, read, peer_wrote>>

\* What is not the next frame is an error for the reader.
FrameBad == Starved /\ frame_len # NoFrame /\ arrived >= frame_len /\ ~Decrypts(SubSeq(inbound, 1, frame_len))

\* The units that the reader below waits for.
Awaited == IF frame_len = NoFrame THEN 1 ELSE frame_len

-----------------------------------------------------------------------------

\* The network and the peer.
arrive(n) ==
    /\ arrived < n /\ n <= Len(inbound)
    /\ arrived' = n
    /\ UNCHANGED <<inbound, outbound, drained, closed, tosend, data, read_buf, want, frame_len, nonces, written,
                   read, peer_wrote>>

peer_drains ==
    /\ drained < Len(outbound)
    /\ drained' = Len(outbound)
    /\ UNCHANGED <<inbound, arrived, outbound, closed, tosend, data, read_buf, want, frame_len, nonces, written,
                   read, peer_wrote>>

peer_sends(units) ==
    /\ ~closed
    /\ inbound' = inbound \o units
    /\ UNCHANGED <<arrived, outbound, drained, closed, tosend, data, read_buf, want, frame_len, nonces, written,
                   read, peer_wrote>>

peer_encrypts(plain) ==
    /\ ~closed
    /\ inbound' = inbound \o Frame(Cipher(plain, nonces.peer))
    /\ nonces' = [nonces EXCEPT !.peer = @ + 1]
    /\ peer_wrote' = peer_wrote \o plain
    /\ UNCHANGED <<arrived, outbound, drained, closed, tosend, data, read_buf, want, frame_len, written, read>>

peer_closes ==
    /\ ~closed
    /\ closed' = TRUE
    /\ UNCHANGED <<inbound, arrived, outbound, drained, tosend, data, read_buf, want, frame_len, nonces, written,
                   read, peer_wrote>>

-----------------------------------------------------------------------------

\* Whatever pieces the stream arrives in and however the peer cut it into
\* frames, what is read is what the peer wrote: nothing is lost, repeated or
\* reordered between the wire, read_buf and the reader.
StreamIntact == peer_wrote = read \o read_buf \o PlainOf(inbound)

\* The other direction: the frames hold what write_all was given, in order, and
\* the peer can take them apart: each length is that of the frame behind it,
\* which is the next one to decrypt.
WrittenIntact ==
    LET units == outbound \o tosend
    IN  /\ written = PlainOf(units) \o data
        /\ \A i \in {j \in 1 .. Len(units) : units[j].k = "frame"} :
            LET n == units[i].n
                Whole(j) == j <= Len(units)
            IN  /\ Whole(i + n)
                /\ Whole(i + n + 1) => units[i + n + 1].k # "cipher"
                /\ \A j \in i + 1 .. i + n : units[j].k = "cipher" =>
                    units[j].pos = j - i /\ units[j].of = n /\ units[j].nonce = units[i + 1].nonce
                /\ units[i + 1].k = "cipher" /\ Whole(i + n + 2) =>
                    units[i + n + 2].nonce = units[i + 1].nonce + 1

=============================================================================

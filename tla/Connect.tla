------------------------------ MODULE Connect ------------------------------
(***************************************************************************)
(* Setting a connection up, and using it: Connection::from_stream of       *)
(* src/src/connection.rs with the dialer of src/src/layers/multistream.rs, *)
(* the handshake of src/src/layers/noise.rs, and the timeout of            *)
(* src/src/platform.rs around each of the three phases.                    *)
(*                                                                         *)
(* The peer is a record of what it will say:                               *)
(*   raw       its multistream messages before encryption;                 *)
(*   hs        its handshake message: the static key of the session, the   *)
(*             identity it claims, what that identity is said to have      *)
(*             signed, and whether the payload decodes;                    *)
(*   plain     what it says inside the encrypted stream;                   *)
(*   reads     whether it reads what we write;                             *)
(*   closes    whether it may close the stream at any point;               *)
(*   garbles   whether it may send a frame that does not decrypt;          *)
(*   prompt    whether its answers come before a sleep of ours is over;    *)
(*   expected  the identity that the caller of connect_to_peer asked for.  *)
(* It falls silent where its part ends.                                    *)
(***************************************************************************)
EXTENDS NoiseStream

CONSTANTS
    Peers,       \* the peers
    AnyPeer,     \* expected: connect rather than connect_to_peer
    OwnerOf,     \* static key |-> the identity that made it
    App,         \* data that the session writes, once it is set up
    MaxMessage   \* largest length of a multistream message

VARIABLES
    at,         \* the await that from_stream is at, or how it ended
    over,       \* "raw", or "noise" once the handshake is done
    part,       \* read_msg: the length or the rest is awaited
    asked,      \* a read_exact of the encrypted stream is under way
    remote_id,  \* the identity the handshake found
    session,    \* the static key of the peer that the session is keyed to
    error,      \* why from_stream failed
    task,       \* the task is run, or parked until it is woken
    elapsed,    \* the sleep of this phase is over
    peer,       \* who is at the other end
    said        \* how many of its raw messages the peer has sent

setup == <<at, over, part, asked, remote_id, session, error>>
vars == <<streams, setup, task, elapsed, peer, said>>

None == "none"

Message(m) ==
    LET length == CASE m = "oversized" -> MaxMessage + 1 [] m = "empty" -> 0 [] OTHER -> 1
    IN  <<[k |-> "len", n |-> length]>> \o IF length = 1 THEN <<[k |-> "msg", m |-> m]>> ELSE <<>>

Protocol == IF over = "raw" THEN "/noise" ELSE "/yamux/1.0.0"

Proposal == Message("/multistream/1.0.0") \o Message(Protocol)

ConnectInit ==
    /\ StreamsInit
    /\ at = "Propose" /\ over = "raw" /\ part = "Length"
    /\ asked = FALSE
    /\ remote_id = None /\ session = None
    /\ error = None
    /\ task = "Runs"
    /\ elapsed = FALSE
    /\ peer \in Peers
    /\ said = 0

-----------------------------------------------------------------------------

\* What the future is blocked on.
WriteDone == tosend = <<>> /\ data = <<>>

Needs ==
    CASE at \in {"Header", "Protocol"} /\ over = "raw" -> 1
      [] at = "Msg2"                                   -> Awaited
      [] asked /\ Starved                              -> Awaited
      [] OTHER                                         -> 0

EOF == closed /\ arrived = Len(inbound)

Blocked ==
    \/ Writing /\ Room = 0 /\ ~closed
    \/ WriteDone /\ arrived < Needs /\ ~EOF

InSetup == at \notin {"Connected", "Failed"}

Polled == InSetup /\ task = "Runs"

Fail(e) ==
    /\ at' = "Failed" /\ error' = e
    /\ UNCHANGED <<streams, over, part, asked, remote_id, session>>

\* Each phase has a timeout and so a sleep of its own.
NextPhase == elapsed' = FALSE /\ UNCHANGED <<task, peer, said>>

SamePhase == UNCHANGED <<task, elapsed, peer, said>>

-----------------------------------------------------------------------------
\* negotiate_dialer

propose ==
    /\ Polled /\ at = "Propose"
    /\ at' = "Header"
    /\ IF over = "raw" THEN Write(Proposal) ELSE write_all(Proposal)
    /\ UNCHANGED <<over, part, asked, remote_id, session, error>>
    /\ SamePhase

\* A unit that read_msg awaits, of either stream.
AwaitsUnit == Polled /\ at \in {"Header", "Protocol"} /\ WriteDone

ask_unit ==
    /\ AwaitsUnit /\ over = "noise" /\ ~asked
    /\ read_exact(1)
    /\ asked' = TRUE
    /\ UNCHANGED <<at, over, part, remote_id, session, error>>
    /\ SamePhase

HasUnit == AwaitsUnit /\ IF over = "raw" THEN arrived >= 1 ELSE asked /\ want = 0

Unit == IF over = "raw" THEN inbound[1] ELSE Last(read)

TakeUnit ==
    /\ asked' = FALSE
    /\ IF over = "raw"
       THEN Take(1) /\ UNCHANGED <<outbound, drained, closed, tosend, data, read_buf, want, frame_len,
                                   nonces, written, read, peer_wrote>>
       ELSE UNCHANGED streams

read_msg_length ==
    /\ HasUnit /\ part = "Length"
    /\ Unit.n \in 1 .. MaxMessage
    /\ TakeUnit
    /\ part' = "Body"
    /\ UNCHANGED <<at, over, remote_id, session, error>>
    /\ SamePhase

read_msg_fails ==
    /\ HasUnit
    /\ IF part = "Length" THEN Unit.n \notin 1 .. MaxMessage ELSE Unit.m = "no newline"
    /\ Fail("Message")
    /\ SamePhase

HasMessage == HasUnit /\ part = "Body" /\ Unit.m # "no newline"

negotiate_header ==
    /\ HasMessage /\ at = "Header" /\ Unit.m = "/multistream/1.0.0"
    /\ TakeUnit
    /\ at' = "Protocol" /\ part' = "Length"
    /\ UNCHANGED <<over, remote_id, session, error>>
    /\ SamePhase

Accepted == Unit.m = Protocol

negotiate_done ==
    /\ HasMessage /\ at = "Protocol" /\ Accepted
    /\ TakeUnit
    /\ at' = IF over = "raw" THEN "Msg1" ELSE "Connected"
    /\ part' = "Length"
    /\ UNCHANGED <<over, remote_id, session, error>>
    /\ NextPhase

negotiate_refused ==
    /\ HasMessage
    /\ IF at = "Header" THEN Unit.m # "/multistream/1.0.0" ELSE ~Accepted
    /\ Fail(IF at = "Header" THEN "Header" ELSE IF Unit.m = "na" THEN "Refused" ELSE "Unexpected")
    /\ SamePhase

-----------------------------------------------------------------------------
\* handshake_dialer

handshake_msg1 ==
    /\ Polled /\ at = "Msg1"
    /\ Write(Frame(<<[k |-> "hs", n |-> 1]>>))
    /\ at' = "Msg2"
    /\ UNCHANGED <<over, part, asked, remote_id, session, error>>
    /\ SamePhase

handshake_msg2_length ==
    /\ Polled /\ at = "Msg2" /\ WriteDone
    /\ RecvLength
    /\ UNCHANGED setup
    /\ SamePhase

Payload == inbound[1]

\* Mutant: a signature by the claimed identity is enough, whatever it signs.
SignatureGood_OfAny == Payload.signed.by = Payload.key

SignatureGood == Payload.signed = [by |-> Payload.key, static |-> Payload.static]

MessageGood == Payload.k = "hs" /\ frame_len = 1 /\ Payload.decodes

Expected == peer.expected \in {AnyPeer, Payload.key}

HasMsg2 == Polled /\ at = "Msg2" /\ WriteDone /\ frame_len # NoFrame /\ arrived >= frame_len

handshake_msg2 ==
    /\ HasMsg2 /\ frame_len > 0
    /\ MessageGood /\ SignatureGood /\ Expected
    /\ Take(frame_len)
    /\ frame_len' = NoFrame
    /\ tosend' = Frame(<<[k |-> "hs", n |-> 3]>>)
    /\ remote_id' = Payload.key /\ session' = Payload.static
    /\ at' = "Msg3"
    /\ UNCHANGED <<outbound, drained, closed, data, read_buf, want, nonces, written, read, peer_wrote>>
    /\ UNCHANGED <<over, part, asked, error>>
    /\ SamePhase

handshake_fails ==
    /\ HasMsg2
    /\ ~(frame_len > 0 /\ MessageGood /\ SignatureGood /\ Expected)
    /\ Fail(IF frame_len = 0 \/ ~MessageGood THEN "Noise"
            ELSE IF ~SignatureGood THEN "Signature" ELSE "PeerId")
    /\ SamePhase

handshake_done ==
    /\ Polled /\ at = "Msg3" /\ WriteDone
    /\ over' = "noise" /\ at' = "Propose"
    /\ UNCHANGED <<streams, part, asked, remote_id, session, error>>
    /\ NextPhase

-----------------------------------------------------------------------------
\* The streams below, for from_stream and for the session after it.

Active == Polled \/ at = "Connected"

write_step ==
    /\ Active
    /\ place \/ write_chunk
    /\ UNCHANGED setup
    /\ SamePhase

read_step ==
    /\ Active
    /\ drain \/ recv_frame_len \/ recv_frame
    /\ UNCHANGED setup
    /\ SamePhase

read_fails ==
    /\ Active
    /\ FrameBad \/ (EOF /\ arrived < Needs /\ (InSetup => WriteDone))
    /\ Fail("Read")
    /\ SamePhase

write_fails ==
    /\ Active /\ Writing /\ closed
    /\ Fail("Write")
    /\ SamePhase

\* The session reads, and writes while it reads.
session_reads ==
    /\ at = "Connected"
    /\ IF asked THEN want = 0 /\ UNCHANGED streams ELSE \E n \in 1 .. 2 : read_exact(n)
    /\ asked' = ~asked
    /\ UNCHANGED <<at, over, part, remote_id, session, error>>
    /\ SamePhase

session_writes ==
    /\ at = "Connected" /\ WriteDone
    /\ ~IsSuffix(App, written)
    /\ write_all(App)
    /\ UNCHANGED setup
    /\ SamePhase

-----------------------------------------------------------------------------
\* timeout: the future is polled first, and the sleep when it is blocked.

timeout ==
    /\ Polled /\ Blocked /\ elapsed
    /\ Fail("Timeout")
    /\ SamePhase

\* Mutant: the sleep is polled once, when the phase begins, and not again.
Parks_Asleep == Blocked

Parks == Blocked /\ ~elapsed

park ==
    /\ Polled /\ Parks
    /\ task' = "Parked"
    /\ UNCHANGED <<streams, setup, elapsed, peer, said>>

\* A peer that plays its part, and in time.
Willing ==
    /\ peer.prompt /\ peer.reads /\ ~peer.closes /\ ~peer.garbles
    /\ peer.raw = <<"/multistream/1.0.0", "/noise">>
    /\ peer.hs.decodes /\ peer.hs.signed = [by |-> peer.hs.key, static |-> peer.hs.static]
    /\ peer.expected \in {AnyPeer, peer.hs.key}
    /\ IsPrefix(Message("/multistream/1.0.0") \o Message("/yamux/1.0.0"), peer.plain)

\* The streams and the sleep wake the task that polled them.
elapse ==
    /\ InSetup /\ ~Willing /\ ~elapsed
    /\ elapsed' = TRUE
    /\ task' = "Runs"
    /\ UNCHANGED <<streams, setup, peer, said>>

Woken == task' = "Runs" /\ UNCHANGED <<setup, elapsed, peer>>

arrives == arrive(arrived + 1) /\ UNCHANGED said /\ Woken

drains == peer.reads /\ peer_drains /\ UNCHANGED said /\ Woken

closes == peer.closes /\ peer_closes /\ UNCHANGED said /\ Woken

-----------------------------------------------------------------------------
\* The peer.

HasRead(n) == \E i \in 1 .. drained : outbound[i].k = "hs" /\ outbound[i].n = n

Unchanged == UNCHANGED <<setup, task, elapsed, peer>>

peer_negotiates ==
    /\ said < Len(peer.raw)
    /\ peer_sends(Message(peer.raw[said + 1]))
    /\ said' = said + 1
    /\ Unchanged

peer_answers ==
    /\ said = Len(peer.raw) /\ HasRead(1)
    /\ peer_sends(Frame(<<peer.hs>>))
    /\ said' = said + 1
    /\ Unchanged

peer_talks ==
    /\ HasRead(3)
    /\ LET rest == SubSeq(peer.plain, Len(peer_wrote) + 1, Len(peer.plain))
       IN  \E n \in (IF nonces.peer = 0 THEN 0 ELSE 1) .. MAX_PLAINTEXT :
            n <= Len(rest) /\ peer_encrypts(SubSeq(rest, 1, n))
    /\ UNCHANGED said
    /\ Unchanged

peer_garbles ==
    /\ peer.garbles /\ HasRead(3) /\ said = Len(peer.raw) + 1
    /\ peer_sends(Frame(<<[k |-> "junk"]>>))
    /\ said' = said + 1
    /\ Unchanged

Negotiates ==
    \/ propose \/ ask_unit \/ read_msg_length \/ read_msg_fails
    \/ negotiate_header \/ negotiate_done \/ negotiate_refused

Handshakes ==
    \/ handshake_msg1 \/ handshake_msg2_length \/ handshake_msg2 \/ handshake_fails \/ handshake_done

Streams == write_step \/ read_step \/ read_fails \/ write_fails

Timeout == timeout \/ park

Setup == Negotiates \/ Handshakes \/ Streams \/ Timeout

PeerSteps == peer_negotiates \/ peer_answers \/ peer_talks \/ peer_garbles

Session == session_reads \/ session_writes

Network == arrives \/ drains

ConnectNext == Setup \/ Session \/ elapse \/ Network \/ closes \/ PeerSteps

\* The executor runs a task that was woken, a sleep ends, the network and the
\* peer go on with what they do; nothing makes a peer close.
Fairness ==
    /\ WF_vars(Setup) /\ WF_vars(Session) /\ WF_vars(elapse)
    /\ WF_vars(Network) /\ WF_vars(PeerSteps)

ConnectSpec == ConnectInit /\ [][ConnectNext]_vars /\ Fairness

-----------------------------------------------------------------------------

\* Nothing is encrypted for the peer and no session is handed out before the
\* peer has agreed to it: it echoed "/noise" in the clear before the handshake,
\* and "/yamux/1.0.0" inside it before the session.
AgreedBeforeUse ==
    /\ at \in {"Msg1", "Msg2", "Msg3"} \/ over = "noise"
        => said >= 2 /\ peer.raw[1] = "/multistream/1.0.0" /\ peer.raw[2] = "/noise"
    /\ at = "Connected"
        => IsPrefix(Message("/multistream/1.0.0") \o Message("/yamux/1.0.0"), read)

\* from_stream hands a connection out only for an identity that owns the static
\* key the session is keyed to, that is the one connect_to_peer asked for, and
\* that agreed to each protocol before it was used.
PeerAuthenticated ==
    /\ AgreedBeforeUse
    /\ at = "Connected" =>
          /\ remote_id = OwnerOf[session]
          /\ peer.expected \in {AnyPeer, remote_id}

\* from_stream returns, whatever the peer does: one that falls silent, stops
\* reading or closes at any point is given up.  And with a peer that plays its
\* part it returns a connection, in whatever pieces the answers arrive and
\* however little the peer reads at a time.
SetupEnds ==
    /\ <>(at \in {"Connected", "Failed"})
    /\ Willing => <>(at = "Connected")

=============================================================================

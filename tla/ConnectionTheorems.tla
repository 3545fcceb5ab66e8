------------------------ MODULE ConnectionTheorems -------------------------
(***************************************************************************)
(* Theorems about Connection that rest on both ConnectionProofs and        *)
(* ConnectionStreams.                                                      *)
(***************************************************************************)
EXTENDS ConnectionProofs, ConnectionStreams

LEMMA RolesHold == Spec => []RolesInv
<1>1. Init => RolesInv
    BY InitRoles
<1>2. Base /\ RolesInv /\ [Next]_vars => RolesInv'
  <2> SUFFICES ASSUME Base, RolesInv, [Next]_vars
               PROVE  RolesInv'
      OBVIOUS
  <2>1. CASE Calls
      BY <2>1, CallsKeepRoles
  <2>2. CASE next \/ next_emit \/ next_await \/ yamux_next \/ drop_next \/ \E p \in Timed : sleep_ends(p)
      BY <2>2, LoopKeepsRoles
  <2>3. CASE handle_request_timeouts
      BY <2>3, TimeoutKeepsRoles
  <2>4. CASE OnOutput
      BY <2>4, RequestOutputKeepsRoles, SubscriptionOutputKeepsRoles DEF OnOutput, OnSubscriptionOutput
  <2>5. CASE UNCHANGED vars
      BY <2>5 DEF vars, mvars, cvars, service, RolesInv, OutFits, OurRoles, TheirRoles, Owned, HasOwner,
           InOurTables, InTheirTables, Held, SubscriptionStreams, OutputIs, Id
  <2> QED
      BY <2>1, <2>2, <2>3, <2>4, <2>5 DEF Next, LoopHead
<1> QED
    BY <1>1, <1>2, BaseHolds, PTL DEF Spec

\* While the connection lasts, every stream that is open for data, or that we
\* negotiate, has exactly one use: no end of a request or of a subscription
\* leaves a stream behind, and next_inner's tables never share one, however
\* many requests, subscriptions and proposals of the remote are interleaved.
THEOREM OpenStreamsOwnedTheorem == Spec => []OpenStreamsOwned
<1>1. Base /\ RolesInv => OpenStreamsOwned
    BY RolesMeanOwned
<1> QED
    BY <1>1, BaseHolds, RolesHold, PTL

LEMMA NegotiatedHolds == Spec /\ [][RemoteReopensOnlyClosed]_vars => []Negotiated
<1>1. Init => Negotiated
    BY InitNegotiated DEF Init
<1>2. Base /\ RolesInv /\ Negotiated /\ [Next]_vars /\ [RemoteReopensOnlyClosed]_vars => Negotiated'
  <2> SUFFICES ASSUME Base, RolesInv, Negotiated, [Next]_vars, [RemoteReopensOnlyClosed]_vars
               PROVE  Negotiated'
      OBVIOUS
  <2>1. CASE UNCHANGED vars
      BY <2>1, NegotiatedStep DEF vars, mvars, service, RemoteReopensOnlyClosed
  <2>2. CASE Next /\ RemoteReopensOnlyClosed
      BY <2>2, CallsNegotiate, LoopNegotiates, OutputNegotiates DEF Next, RolesInv
  <2> QED
      BY <2>1, <2>2
<1> QED
    BY <1>1, <1>2, BaseHolds, RolesHold, PTL DEF Spec

\* On every stream of the connection the header comes first, and no handshake,
\* request, response or notification is sent before a protocol was, as long as
\* the remote opens no stream again before the connection was told that it is
\* gone: send_data's "errors if the protocol negotiation has not been completed"
\* holds of all that next_inner and the user send.
THEOREM ConnectionNegotiationFirst ==
    Spec /\ [][RemoteReopensOnlyClosed]_vars => []NegotiationFirst
<1>1. Base /\ Negotiated => NegotiationFirst
    BY NegotiatedMeansFirst DEF Base
<1> QED
    BY <1>1, BaseHolds, NegotiatedHolds, PTL

\* When the user is told that a subscription is open, both its streams are open
\* and our handshake went out on each right after its protocol was agreed,
\* whichever side began and whichever handshake came in last (next_inner), as
\* long as the remote opens no stream again before it was seen to be gone.
THEOREM OpenedAfterHandshakesTheorem ==
    Spec /\ [][RemoteReopensOnlyClosed]_vars => OpenedAfterHandshakes
<1>1. Init => Told /\ Handshakes /\ OpenIds
    BY InitHandshakes
<1>2. /\ Base /\ RolesInv /\ Negotiated /\ Told /\ Handshakes /\ OpenIds
      /\ [Next]_vars /\ [RemoteReopensOnlyClosed]_vars
      => (Told /\ Handshakes /\ OpenIds)'
    BY StepKeepsHandshakes
<1>3. Base /\ Told /\ [Next]_vars /\ Handshakes' /\ OpenIds' => [OpensAfterHandshakes]_vars
  <2> SUFFICES ASSUME Base, Told, Next, Handshakes', OpenIds', NEW p \in SubscriptionProtocols,
                      at # "Out", returned' = <<Notification(p, "Opened")>>
               PROVE  /\ our_stream'[p].state = "Open" /\ HandshakeSent(p, our_stream[p].stream_id)'
                      /\ their_stream'[p].state = "Open" /\ HandshakeSent(p, their_stream[p].stream_id)'
      BY DEF OpensAfterHandshakes
  <2>1. our_stream'[p].state = "Open" /\ their_stream'[p].state = "Open"
      BY OnlyOpenedByHandshake
  <2>2. PICK x \in StreamIds, y \in StreamIds : our_stream'[p].stream_id = x /\ their_stream'[p].stream_id = y
      BY <2>1 DEF OpenIds
  <2>3. HandshakeSent(p, x)' /\ HandshakeSent(p, y)'
      BY <2>1, <2>2 DEF Handshakes, OurShake, TheirShake
  <2> QED
      BY <2>1, <2>2, <2>3 DEF HandshakeSent
<1> QED
    BY <1>1, <1>2, <1>3, BaseHolds, RolesHold, NegotiatedHolds, PTL DEF Spec, OpenedAfterHandshakes

=============================================================================

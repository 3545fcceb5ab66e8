---------------------------- MODULE YamuxQueues ----------------------------
(***************************************************************************)
(* The order and the number of the messages written on a stream of Yamux.  *)
(* These two properties fold over sequences of messages; the rest of Yamux *)
(* does not need SequencesExt.                                             *)
(***************************************************************************)
EXTENDS Yamux, SequencesExt

Deltas(msgs) == FoldLeft(LAMBDA n, m : n + m.delta, 0, msgs)

BytesOf(msgs) == FlattenSeq([k \in DOMAIN msgs |-> msgs[k].bytes])

\* Nothing that was queued on a stream is lost or written twice, however the
\* queue is rotated (write_next, 709-793): the bytes taken by send_data are
\* those written and those still queued, and so is the window granted.  As long
\* as no window update was queued between them, the bytes also keep their order.
NothingLost ==
    \A id \in DOMAIN streams :
        LET all == log[id].wire \o streams[id].outbound_buf
        IN ~log[id].dropped =>
              /\ Len(BytesOf(all)) = log[id].accepted
              /\ ToSet(BytesOf(all)) = 1..log[id].accepted
              /\ Deltas(all) = log[id].granted
              /\ log[id].granted = 0 => BytesOf(all) = [k \in 1..log[id].accepted |-> k]

-----------------------------------------------------------------------------
(* What a comment of the code says and the code does not keep *)

\* write_next, 752-754: when nothing can be sent on a stream, "put the message
\* back on the queue and break to stop pulling items from this streams queue":
\* later bytes never overtake the ones put back.
BytesInOrder ==
    \A id \in StreamIds : BytesOf(log[id].wire) = [k \in 1..log[id].sent |-> k]

=============================================================================

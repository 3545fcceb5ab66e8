--------------------------- MODULE StreamService ---------------------------
(***************************************************************************)
(* What a Yamux session promises to the layer above: the abstract          *)
(* specification of src/src/layers/yamux.rs, without frames, windows,      *)
(* queues or futures.                                                      *)
(*                                                                         *)
(* Yamux implements it (YamuxService); YamuxMultistream is built on it.    *)
(***************************************************************************)
EXTENDS Naturals

CONSTANT StreamIds   \* the stream ids that occur

ASSUME StreamServiceConstants == StreamIds \subseteq Nat \ {0}

VARIABLES
    hold,            \* what the layer above has been told of a stream
    present,         \* send_data on the stream succeeds
    next_stream_id,
    ended            \* next() returned an error or None

service == <<hold, present, next_stream_id, ended>>

Ours(id) == id % 2 = 1

ServiceInit ==
    /\ hold = [id \in StreamIds |-> "none"]
    /\ present = [id \in StreamIds |-> FALSE]
    /\ next_stream_id = 1
    /\ ended = FALSE

KeepService == UNCHANGED service

-----------------------------------------------------------------------------
(* Calls *)

OpenStream ==
    /\ next_stream_id \in StreamIds
    /\ hold' = [hold EXCEPT ![next_stream_id] = "open"]
    /\ present' = [present EXCEPT ![next_stream_id] = TRUE]
    /\ next_stream_id' = next_stream_id + 2
    /\ UNCHANGED ended

\* Data is sent only on a stream that was not closed; it is taken, or
\* StreamNotFound is returned because the stream has gone.
Send(id)         == hold[id] = "open" /\ present[id] /\ KeepService
SendNotFound(id) == hold[id] = "open" /\ ~present[id] /\ KeepService

Close(id) ==
    /\ hold[id] # "none"
    /\ hold' = [hold EXCEPT ![id] = "closed"]
    /\ present' = [present EXCEPT ![id] = FALSE]
    /\ UNCHANGED <<next_stream_id, ended>>

\* Resetting a stream that was forgotten already does nothing.
Reset(id) ==
    /\ hold' = [hold EXCEPT ![id] = "none"]
    /\ present' = [present EXCEPT ![id] = FALSE]
    /\ UNCHANGED <<next_stream_id, ended>>

-----------------------------------------------------------------------------
(* What the remote makes happen *)

\* A stream goes away, and the layer above is told later or not at all.
Lose(id) ==
    /\ present[id]
    /\ present' = [present EXCEPT ![id] = FALSE]
    /\ UNCHANGED <<hold, next_stream_id, ended>>

\* The remote opens a stream.  It may have held the same id before.
HandOpened(id) ==
    /\ ~Ours(id)
    /\ ~present[id]
    /\ hold' = [hold EXCEPT ![id] = "open"]
    /\ present' = [present EXCEPT ![id] = TRUE]
    /\ UNCHANGED <<next_stream_id, ended>>

\* Data is handed out only for a stream the layer above knows.
HandData(id) ==
    /\ hold[id] # "none"
    /\ \/ UNCHANGED present
       \/ present' = [present EXCEPT ![id] = FALSE]
    /\ UNCHANGED <<hold, next_stream_id, ended>>

\* Nothing is handed out for a stream after this, until it is opened again.
HandClosed(id) ==
    /\ hold' = [hold EXCEPT ![id] = "none"]
    /\ present' = [present EXCEPT ![id] = FALSE]
    /\ UNCHANGED <<next_stream_id, ended>>

End ==
    /\ ended' = TRUE
    /\ UNCHANGED <<hold, present, next_stream_id>>

ServiceNext ==
    \/ OpenStream
    \/ End
    \/ \E id \in StreamIds :
          \/ Close(id)
          \/ Reset(id)
          \/ Lose(id)
          \/ HandOpened(id)
          \/ HandData(id)
          \/ HandClosed(id)

ServiceSpec == ServiceInit /\ [][ServiceNext]_service

=============================================================================

---------------------------- MODULE YamuxService ----------------------------
(***************************************************************************)
(* Yamux implements StreamService.  A stream takes data when the layer     *)
(* above has it open and the session neither dropped nor reset it.         *)
(***************************************************************************)
EXTENDS Yamux

TakesData(id) ==
    /\ log[id].hold = "open"
    /\ id \in DOMAIN streams
    /\ streams[id].open_state # "Reset"

Service == INSTANCE StreamService
    WITH hold    <- [id \in StreamIds |-> log[id].hold],
         present <- [id \in StreamIds |-> TakesData(id)],
         ended   <- finished

\* What a call and a delivery have to be in terms of the service.
ServesCalls ==
    \A id \in StreamIds :
        /\ (\E n \in SendSizes : send_data(id, n)) => Service!Send(id)
        /\ send_data_not_found(id) => Service!SendNotFound(id)
        /\ close_stream(id) => Service!Close(id)
        /\ reset_stream_immediately(id) => Service!Reset(id)
        /\ Len(log'[id].delivered) > Len(log[id].delivered) => Service!HandData(id)

\* Whatever the session does looks, from above, like a step of the service.
\* In particular a call of send_data succeeds exactly when the stream is
\* present (send_data, 253-274), and data is handed out only for streams the
\* layer above holds.
ImplementsService == Service!ServiceSpec /\ [][ServesCalls]_vars

=============================================================================

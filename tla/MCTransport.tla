---------------------------- MODULE MCTransport ----------------------------
(***************************************************************************)
(* Three frames, one of them empty, and calls of next that are dropped.    *)
(***************************************************************************)
EXTENDS Transport

\* Lengths 1, 0 and 2; the other bytes are all different.
MCStream == <<1, 11, 0, 2, 12, 13>>

=============================================================================

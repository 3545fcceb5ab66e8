------------------------------ MODULE MCUtils ------------------------------
(***************************************************************************)
(* The frame buffer, the protobuf messages and the timers, which have no   *)
(* state in common: a behaviour is of one of them.                         *)
(*                                                                         *)
(* A byte has a digit of five bits, so that tags and short lengths take    *)
(* one byte, as they do with seven; an integer twelve, two of which the    *)
(* third byte holds; a usize ten.                                          *)
(***************************************************************************)
EXTENDS FrameBuffer, Protobuf, Timers

CONSTANTS MaxStream  \* bound: bytes of a stream that is not encoded

\* B + 1, B: a digit and more to come, so that a length may be longer than it
\* need be (33 32 0) or have bits that a usize does not hold (33 32 1).
MCStreams == BoundedSeq({0, 1, 4, B, B + 1}, MaxStream)

\* The last payload needs two bytes of length.
MCPayloads == BoundedSeq({<<>>, <<1>>, <<B, 0>>}, 3) \cup {<<[i \in 1 .. B + 1 |-> 2], <<1>>>>}

MCInts == {0, B + 1, U64 - 1}

\* Tags of every wire type, small lengths, and a byte that wants more.
MCBytes == {0, 1, 2, 8, 10, 11, 13, 17, 18, 22, B + 2}

MCFixed64 == {<<B, 18>>}
MCFixed32 == {<<18>>}
MCDatas == {<<>>, <<1>>, <<8, 1>>}

VARIABLE which

uvars == <<fbvars, pbvars, vars, which>>

UtilsInit ==
    /\ Init /\ ProtobufInit
    /\ \/ which = "frames" /\ FrameBufferInit
       \/ which \in {"protobuf", "timers"} /\ FrameBufferEmpty

UtilsNext ==
    /\ UNCHANGED which
    /\ \/ which = "frames" /\ FrameBufferNext /\ UNCHANGED <<pbvars, vars>>
       \/ which = "protobuf" /\ ProtobufNext /\ UNCHANGED <<fbvars, vars>>
       \/ which = "timers" /\ Next /\ UNCHANGED <<fbvars, pbvars>>

UtilsSpec == UtilsInit /\ [][UtilsNext]_uvars /\ Fairness

=============================================================================

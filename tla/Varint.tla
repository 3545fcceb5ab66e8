------------------------------ MODULE Varint -------------------------------
(***************************************************************************)
(* Variable length integers: src/src/utils/varint.rs, and the second       *)
(* implementation in src/examples/assethub-balance/src/main.rs.            *)
(*                                                                         *)
(* A byte holds a digit to the base B and says whether more follow: with   *)
(* B = 128, U64 = 2^64 and MaxBytes = 10 these are the integers of the     *)
(* code.  The digits that MaxBytes bytes hold reach beyond U64, in the     *)
(* code as in the instances that are checked.                              *)
(***************************************************************************)
EXTENDS Integers, Sequences, SequencesExt, FiniteSetsExt

CONSTANTS
    B,          \* base of the digits
    U64,        \* how many values an integer has
    MaxBytes,   \* length of the decoder's buffer
    USIZE       \* how many values a usize has: fewer than U64 on wasm32

ASSUME VarintAssumption ==
    B \in Nat \ {0, 1} /\ MaxBytes \in Nat \ {0} /\ U64 <= B ^ MaxBytes /\ U64 > B ^ (MaxBytes - 1)

Digit(byte) == byte % B
More(byte) == byte >= B

RECURSIVE encode(_)
encode(value) == IF value < B THEN <<value>> ELSE <<B + Digit(value)>> \o encode(value \div B)

AsUsize(value) == value % USIZE

\* The shifts drop what does not fit.
decode_valid_bytes(bytes) ==
    MapThenSumSet(LAMBDA i : Digit(bytes[i]) * B ^ (i - 1), DOMAIN bytes) % U64

\* Decoder::feed: what comes of one more byte.
NeedsMoreBytes(bytes) == [result |-> "NeedsMoreBytes", bytes |-> bytes]

feed(bytes, byte) ==
    IF Len(bytes) >= MaxBytes THEN [result |-> "OutOfRange"]
    ELSE IF More(byte) THEN NeedsMoreBytes(Append(bytes, byte))
    ELSE [result |-> "Value", value |-> decode_valid_bytes(Append(bytes, byte))]

Err == [ok |-> FALSE]
Ok(value, rest) == [ok |-> TRUE, value |-> value, rest |-> rest]

\* decode: the bytes are fed to a decoder until it has a value.
RECURSIVE DecodeLoop(_, _)
DecodeLoop(bytes, cursor) ==
    IF cursor = <<>> THEN Err
    ELSE LET fed == feed(bytes, Head(cursor))
         IN  CASE fed.result = "Value"          -> Ok(fed.value, Tail(cursor))
               [] fed.result = "NeedsMoreBytes" -> DecodeLoop(fed.bytes, Tail(cursor))
               [] fed.result = "OutOfRange"     -> Err

decode(cursor) == DecodeLoop(<<>>, cursor)

\* decode_varint of the example: digits are added up as they come.
RECURSIVE DecodeVarintLoop(_, _, _)
DecodeVarintLoop(value, shift, input) ==
    IF input = <<>> THEN Err
    ELSE LET sum == (value + Digit(Head(input)) * B ^ shift) % U64
         IN  IF ~More(Head(input)) THEN Ok(sum, Tail(input))
             ELSE IF B ^ (shift + 1) >= U64 THEN Err
             ELSE DecodeVarintLoop(sum, shift + 1, Tail(input))

decode_varint(input) == DecodeVarintLoop(0, 0, input)

=============================================================================

----------------------------- MODULE Protobuf ------------------------------
(***************************************************************************)
(* Protobuf messages: the Encoder and decode of src/src/utils/protobuf.rs, *)
(* NoiseHandshakePayload of src/src/layers/noise.rs and PeerId of          *)
(* src/src/utils/peer_id.rs built with them, and the reader of state       *)
(* responses of src/examples/assethub-balance/src/main.rs.                 *)
(*                                                                         *)
(* A message is built by calls of an Encoder, and by bytes that come from  *)
(* elsewhere.                                                              *)
(***************************************************************************)
EXTENDS Varint

CONSTANTS
    I64_LEN, I32_LEN,  \* bytes of the fixed size fields
    KEY_LEN, SIG_LEN,  \* bytes of a public key and of a signature
    OutLen,            \* length of the Encoder's buffer
    Ids,               \* field numbers
    Ints, Fixed64, Fixed32, Datas,  \* values of fields
    Bytes,             \* bytes that come from elsewhere
    MaxBytesPushed     \* bound: how many of them

VARIABLES
    out,      \* bytes written
    fields,   \* history: the fields encoded
    pushed,   \* how many bytes came from elsewhere
    panicked  \* the buffer was too small

pbvars == <<out, fields, pushed, panicked>>

ProtobufInit == out = <<>> /\ fields = <<>> /\ pushed = 0 /\ panicked = FALSE

-----------------------------------------------------------------------------
\* Encoder.  The value of a field is a sequence, of bytes or of one integer.

WireType(type) ==
    CASE type = "Varint" -> 0 [] type = "I64" -> 1 [] type = "Data" -> 2 [] type = "I32" -> 5

Field(type, id, value) == [type |-> type, id |-> id, value |-> value]

Tag(f) == (f.id * 8) + WireType(f.type)

Encoded(f) ==
    encode(Tag(f)) \o CASE f.type = "Varint" -> encode(f.value[1])
                        [] f.type = "Data"   -> encode(Len(f.value)) \o f.value
                        [] OTHER             -> f.value

Put(f) ==
    /\ ~panicked
    /\ IF Len(out) + Len(Encoded(f)) <= OutLen
       THEN out' = out \o Encoded(f) /\ fields' = Append(fields, f) /\ UNCHANGED panicked
       ELSE panicked' = TRUE /\ UNCHANGED <<out, fields>>
    /\ UNCHANGED pushed

encode_varint(id, n) == Put(Field("Varint", id, <<n>>))
encode_i64(id, n) == Put(Field("I64", id, n))
encode_i32(id, n) == Put(Field("I32", id, n))
encode_data(id, data) == Put(Field("Data", id, data))

push(byte) ==
    /\ ~panicked /\ pushed < MaxBytesPushed /\ Len(out) < OutLen
    /\ out' = Append(out, byte)
    /\ pushed' = pushed + 1
    /\ UNCHANGED <<fields, panicked>>

ProtobufNext ==
    \/ \E id \in Ids :
        \/ \E n \in Ints : encode_varint(id, n)
        \/ \E n \in Fixed64 : encode_i64(id, n)
        \/ \E n \in Fixed32 : encode_i32(id, n)
        \/ \E data \in Datas : encode_data(id, data)
    \/ \E byte \in Bytes : push(byte)

-----------------------------------------------------------------------------
\* decode.

Type(wire_type) ==
    CASE wire_type = 0 -> "Varint" [] wire_type = 1 -> "I64" [] wire_type = 2 -> "Data"
      [] wire_type \in {3, 4} -> "DeprecatedGroups" [] wire_type = 5 -> "I32" [] OTHER -> "Unknown"

TakeBytes(n, cursor) ==
    IF Len(cursor) < n THEN Err ELSE Ok(SubSeq(cursor, 1, n), SubSeq(cursor, n + 1, Len(cursor)))

\* Mutant: data that is cut short is taken as it is.
DataOf_Short(cursor) ==
    LET length == decode(cursor)
        there  == Len(length.rest)
    IN  IF ~length.ok THEN Err
        ELSE TakeBytes(IF there < length.value THEN there ELSE length.value, length.rest)

DataOf(cursor) ==
    LET length == decode(cursor)
    IN  IF length.ok THEN TakeBytes(AsUsize(length.value), length.rest) ELSE Err

ValueOf(type, cursor) ==
    CASE type = "Varint"           -> LET n == decode(cursor) IN IF n.ok THEN Ok(<<n.value>>, n.rest) ELSE Err
      [] type = "I64"              -> TakeBytes(I64_LEN, cursor)
      [] type = "I32"              -> TakeBytes(I32_LEN, cursor)
      [] type = "Data"             -> DataOf(cursor)
      [] type = "DeprecatedGroups" -> Ok(<<>>, cursor)
      [] type = "Unknown"          -> Err

\* All that decode reads; the visitor sees the fields that are not groups.
RECURSIVE Fields(_)
Fields(cursor) ==
    IF cursor = <<>> THEN Ok(<<>>, <<>>)
    ELSE LET tag   == decode(cursor)
             type  == Type(tag.value % 8)
             value == ValueOf(type, tag.rest)
             more  == Fields(value.rest)
         IN  IF tag.ok /\ value.ok /\ more.ok
             THEN Ok(<<Field(type, tag.value \div 8, value.value)>> \o more.value, <<>>)
             ELSE Err

Visited(read) == SelectSeq(read, LAMBDA f : f.type # "DeprecatedGroups")

\* The fields that a visitor of one type and number sees; it keeps the last.
\* Mutant: the type of the field is not looked at.
Matching_AnyType(type, id, read) == SelectSeq(read, LAMBDA f : f.id = id)

Matching(type, id, read) == SelectSeq(read, LAMBDA f : f.type = type /\ f.id = id)

-----------------------------------------------------------------------------
\* NoiseHandshakePayload.

KeyProtobuf(key) == Encoded(Field("Varint", 1, <<1>>)) \o Encoded(Field("Data", 2, key))

to_protobuf(payload) ==
    Encoded(Field("Data", 1, KeyProtobuf(payload.key))) \o Encoded(Field("Data", 2, payload.signature))

OuterPayload(read) ==
    LET identity  == Matching("Data", 1, read.value)
        signature == Matching("Data", 2, read.value)
    IN  IF read.ok /\ signature # <<>> /\ Len(Last(signature).value) = SIG_LEN /\ identity # <<>>
        THEN [ok |-> TRUE, key |-> Last(identity).value, signature |-> Last(signature).value]
        ELSE Err

decode_outer_noise_payload_protobuf(data) == OuterPayload(Fields(data))

PublicKey(read) ==
    LET ty    == Matching("Varint", 1, read.value)
        value == Matching("Data", 2, read.value)
    IN  IF /\ read.ok /\ ty # <<>> /\ Last(ty).value = <<1>>
           /\ value # <<>> /\ Len(Last(value).value) = KEY_LEN
        THEN [ok |-> TRUE, key |-> Last(value).value]
        ELSE Err

decode_ed25519_public_key_protobuf(data) == PublicKey(Fields(data))

WithPublicKey(outer) ==
    LET inner == decode_ed25519_public_key_protobuf(outer.key)
    IN  IF outer.ok /\ inner.ok
        THEN [ok |-> TRUE, payload |-> [key |-> inner.key, signature |-> outer.signature]]
        ELSE Err

from_protobuf(bytes) == WithPublicKey(decode_outer_noise_payload_protobuf(bytes))

-----------------------------------------------------------------------------
\* PeerId: the bytes of the multihash.

DIGEST_LEN == Len(KeyProtobuf([i \in 1 .. KEY_LEN |-> 0]))

from_ed25519_public_key(key) == <<0>> \o encode(DIGEST_LEN) \o KeyProtobuf(key)

\* from_base58, of what bs58 makes of its text.
from_base58(multihash) ==
    LET code   == decode(multihash)
        length == decode(code.rest)
    IN  /\ Len(multihash) = DIGEST_LEN + 2
        /\ code.ok /\ code.value = 0
        /\ length.ok /\ length.value = DIGEST_LEN /\ Len(length.rest) = DIGEST_LEN

-----------------------------------------------------------------------------
\* extract_state_response_proof, of the example: a reader of its own.

RECURSIVE ProofLoop(_, _)
ProofLoop(proof, input) ==
    IF input = <<>> THEN proof
    ELSE LET tag    == decode_varint(input)
             value  == decode_varint(tag.rest)
             data   == TakeBytes(AsUsize(value.value), value.rest)
             wire   == tag.value % 8
         IN  IF ~tag.ok \/ wire \notin {0, 2} THEN Err
             ELSE IF ~value.ok THEN Err
             ELSE IF wire = 0 THEN ProofLoop(proof, value.rest)
             ELSE IF ~data.ok THEN Err
             ELSE ProofLoop(IF tag.value \div 8 = 2 THEN data ELSE proof, data.rest)

extract_state_response_proof(input) == ProofLoop(Err, input)

-----------------------------------------------------------------------------

\* decode gives back the fields that the calls of an Encoder wrote, with no
\* field lost, merged or cut short at any length of buffer.
FieldsRoundTrip ==
    pushed = 0 => Fields(out).ok /\ Visited(Fields(out).value) = fields

\* The two readers of protobuf in the repository agree: on any bytes, a proof
\* that the example's own reader extracts is the last field 2 that the
\* library's decode shows, and it finds one whenever decode does and the
\* message has only the wire types that state responses use.
ReadersAgree ==
    LET read  == Fields(out)
        mine  == extract_state_response_proof(out)
        their == SelectSeq(read.value, LAMBDA f : f.type = "Data" /\ f.id = 2)
    IN  /\ mine.ok => read.ok /\ their # <<>> /\ mine.value = Last(their).value
        /\ read.ok /\ (\A i \in DOMAIN read.value : read.value[i].type \in {"Varint", "Data"})
            /\ their # <<>> => mine.ok

SomePayloads == [key : {1} \X {1, 18, B + 1}, signature : {<<2, B>>}]

PeerIdsDistinct ==
    \A p, q \in SomePayloads :
        /\ from_base58(from_ed25519_public_key(p.key))
        /\ from_ed25519_public_key(p.key) = from_ed25519_public_key(q.key) => p.key = q.key

\* What is encoded is decoded again: the fields an Encoder wrote; a handshake
\* payload, whatever fields of other numbers or types a peer adds behind it; and
\* the PeerId made of its key, which from_base58 accepts, and another key has
\* another PeerId.
MessagesRoundTrip ==
    /\ FieldsRoundTrip
    /\ pushed = 0 /\ (\A i \in DOMAIN fields : fields[i].type = "Data" => fields[i].id \notin {1, 2}) =>
        \A p \in SomePayloads : from_protobuf(to_protobuf(p) \o out) = [ok |-> TRUE, payload |-> p]
    /\ PeerIdsDistinct

=============================================================================

SPECIFICATION MultistreamSpec
CONSTANTS
    StreamIds = {1, 2}
    Protocols = {"p", "q"}
    Payloads = {"x"}
    Chunks <- MixedChunks
    MULTISTREAM_PROTOCOL_MAX_LEN = 4
    BufferSizes = {4}
    MaxEvents = 4
    MaxSent = 4
INVARIANTS StreamsKnown NoMessageStranded
PROPERTY OpenOnAgreement
CHECK_DEADLOCK FALSE

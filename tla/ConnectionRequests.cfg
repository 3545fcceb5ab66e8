SPECIFICATION Spec
CONSTANTS
    StreamIds = {1, 2, 3}
    Protocols = {"r", "t"}
    Payloads = {"x", "bad"}
    Chunks <- RequestChunks
    MULTISTREAM_PROTOCOL_MAX_LEN = 4
    BufferSizes = {4}
    MaxEvents = 4
    MaxSent = 4
    RequestProtocols <- OneRequestProtocol
    SubscriptionProtocols = {"t"}
    AllowInbound = {"r"}
    Timed = {"r"}
    MaxSize = 4
    OurHandshake = "x"
    ValidHandshakes = {"x"}
    RequestPayload = "x"
    ResponsePayload = "x"
    NotificationPayload = "x"
    MaxBuffered = 1
INVARIANTS OneResponse OpenStreamsOwned TimerOutlivesRequest
CHECK_DEADLOCK FALSE

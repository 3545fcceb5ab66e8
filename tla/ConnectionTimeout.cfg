SPECIFICATION PolledSpec
CONSTANTS
    StreamIds = {1, 3}
    Protocols = {"r"}
    Payloads = {"x", "bad"}
    Chunks <- AnswerChunks
    MULTISTREAM_PROTOCOL_MAX_LEN = 4
    BufferSizes = {4}
    MaxEvents = 3
    MaxSent = 4
    RequestProtocols <- OneRequestProtocol
    SubscriptionProtocols = {}
    AllowInbound = {"r"}
    Timed = {"r"}
    MaxSize = 4
    OurHandshake = "x"
    ValidHandshakes = {"x"}
    RequestPayload = "x"
    ResponsePayload = "x"
    NotificationPayload = "x"
    MaxBuffered = 1
PROPERTY TimeoutHonoured
CHECK_DEADLOCK FALSE

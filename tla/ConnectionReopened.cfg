SPECIFICATION Spec
CONSTANTS
    StreamIds = {1, 2, 3, 4}
    Protocols = {"s"}
    Payloads = {"x", "bad"}
    Chunks <- SubscriptionChunks
    MULTISTREAM_PROTOCOL_MAX_LEN = 4
    BufferSizes = {4}
    MaxEvents = 9
    MaxSent = 4
    RequestProtocols <- NoRequestProtocol
    SubscriptionProtocols = {"s"}
    AllowInbound = {"s"}
    Timed = {}
    MaxSize = 4
    OurHandshake = "x"
    ValidHandshakes = {"x"}
    RequestPayload = "x"
    ResponsePayload = "x"
    NotificationPayload = "x"
    MaxBuffered = 1
INVARIANT NegotiationFirst
CHECK_DEADLOCK FALSE

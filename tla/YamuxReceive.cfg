SPECIFICATION Spec
CONSTANTS
    DEFAULT_WINDOW = 2
    MAX_STREAMS = 1
    MAX_FRAME_SIZE = 4
    MAX_SEND_SIZE = 1
    StreamIds = {1, 2, 4}
    PeerFrames <- RemoteStreamFrames
    SendSizes = {1}
    MaxCalls = 2
    MaxFrames = 3
INVARIANTS RecvWindowKept GlobalFramesKept DeliveredIntact CloseReported
PROPERTY ImplementsService
CHECK_DEADLOCK FALSE

SPECIFICATION FairSpec
CONSTANTS
    DEFAULT_WINDOW = 2
    MAX_STREAMS = 2
    MAX_FRAME_SIZE = 4
    MAX_SEND_SIZE = 1
    StreamIds = {1}
    PeerFrames <- OwnStreamFrames
    SendSizes = {1, 2}
    MaxCalls = 4
    MaxFrames = 3
INVARIANTS TypeOK SendWindowRespected NothingLost ParkedMeansDrained
PROPERTY EventuallyWritten
CHECK_DEADLOCK FALSE

SPECIFICATION UtilsSpec
CONSTANTS
    B = 32
    U64 = 4096
    MaxBytes = 3
    USIZE = 1024
    MaxStream = 5
    I64_LEN = 2
    I32_LEN = 1
    KEY_LEN = 2
    SIG_LEN = 2
    OutLen = 6
    Ids = {1, 2}
    MaxBytesPushed = 3
    Streams <- MCStreams
    Payloads <- MCPayloads
    Ints <- MCInts
    Fixed64 <- MCFixed64
    Fixed32 <- MCFixed32
    Datas <- MCDatas
    Bytes <- MCBytes
    MaxTimers = 4
    ConcurrentWakes = FALSE
INVARIANTS ElapsedIsFound FramesTile FramesRoundTrip ReadersAgree MessagesRoundTrip
PROPERTY EventuallyReturned
CHECK_DEADLOCK FALSE

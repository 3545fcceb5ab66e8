SPECIFICATION ConnectSpec
CONSTANTS
    MAX_NOISE_MSG = 3
    TAG = 1
    Window = 3
    MaxMessage = 1
    AnyPeer = AnyPeer
    k1 = k1
    k2 = k2
    OwnerOf <- MCOwnerOf
    App <- MCApp
    Peers <- MCPeers
INVARIANTS StreamIntact WrittenIntact PeerAuthenticated
PROPERTY SetupEnds
CHECK_DEADLOCK FALSE

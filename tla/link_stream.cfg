SPECIFICATION FairSpec
CONSTANTS
    Sync = 126
    FrameMax = 24
    BufLen = 24
    HostBufLen = 30
    RetryBudget = 3
    MaxFaults = 2
    Alphabet <- Byte
    LaterNoise = {9, 126}
    Crc8 <- UpdCrc8
    Start <- Info
    Frames <- Requests
INVARIANTS
    InStep
    LinkInBounds
    Mirrored
PROPERTIES
    Heard

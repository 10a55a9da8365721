SPECIFICATION FairSpec
CONSTANTS
    Sync = 126
    FrameMax = 255
    BufLen = 136
    HostBufLen = 136
    RetryBudget = 3
    MaxFaults = 1
    Alphabet = {}
    LaterNoise = {}
    Crc8 <- UpdCrc8
    Start <- Info
    Frames <- EraseOnly
INVARIANTS
    OneFaultRepaired

SPECIFICATION FairSpec
CONSTANTS
    Sync = 126
    FrameMax = 255
    BufLen = 5
    HostBufLen = 5
    RetryBudget = 1
    PollAttempts = 2
    MaxFaults = 3
    Requests <- MCRequests
    Window <- MCWindow
    Answer <- MCAnswer
    BadFrame <- MCBadFrame
    Crc8 <- UpdCrc8
INVARIANTS
    QuietBusSucceeds
PROPERTIES
    AckMeansDone
    ConsumedMeansRead
    JobEnds

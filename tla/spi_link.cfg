SPECIFICATION FairSpec
CONSTANTS
    Sync = 126
    FrameMax = 255
    BufLen = 12
    HostBufLen = 12
    BootCmd = 5
    TxCap = 7
    PollAttempts = 4
    RetryBudget = 1
    Crc8 <- MCCrc8
    Job <- MCJob
    Reply <- MCReply
INVARIANTS
    BootAfterReply
    PacedSucceeds
PROPERTIES
    AckMeansDone
    JobEnds

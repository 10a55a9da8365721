SPECIFICATION Spec
CONSTANTS
    Sync = 126
    FrameMax = 255
    BufLen = 24
    HostBufLen = 24
    Crc8 <- UpdCrc8
    HostBit = 26
    DevBits = {25, 26, 27}
    Poll = 3
    PollAttempts = 400
    ScanLimit = 4
    Turnarounds = {26, 27, 700}
    Request <- MCRequest
    Reply <- MCReply
    Breaks <- MCBreaks
    Horizon = 4000
    Spacing = 67
    Lengths = {5, 60, 264, 490}
INVARIANTS
    QuietLineSucceeds
    BreakRecovered
    NothingForged
PROPERTIES
    RequestEnds

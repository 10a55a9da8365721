SPECIFICATION Spec
CONSTANTS
    PageSize = 4
    PageSizeMax = 62
    AppPages = 3
    Blank = 127
    Magic = 85
    Crc <- MCCrc
    NorAnd <- MCAnd
    OldRegion <- MCOld
    Lines <- MCLines
    MaxLines = 4
    Orders <- MCOrders
    Tools = {"avrdude", "probe-rs"}
    NoTool = ""
    U32Max = 40
    NsPerMs = 8
    SampleNs = 3
    ReadNs = 16
    PerPageMs = 4
    Clis <- MCClis
    EchoMax = 2
    RetryBudget = 1
    MaxLen = 9
    Letters = {1, 127}
INVARIANTS
    HexFaithful
    NothingHalfProgrammed
    LocalErrorsStayLocal
    BootsOnceComplete
    SilenceBudget
PROPERTIES
    RunEnds

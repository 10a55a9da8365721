SPECIFICATION UpdateSpec
CONSTANTS
    PageSize = 4
    PageSizeMax = 62
    AppPages = 3
    Blank = 127
    Magic = 85
    Transactional = TRUE
    Requests = {}
    MaxResets = 0
    RetryBudget = 1
    MaxJobs = 1
    MaxFaults = 2
    Crc <- MCCrc
    NorAnd <- MCAnd
    Codes <- MCCodes
    InitialFlash <- MCInitialFlash
INVARIANTS
    RefusalIsRefusal

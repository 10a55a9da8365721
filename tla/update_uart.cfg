SPECIFICATION UpdateFairSpec
CONSTANTS
    PageSize = 4
    PageSizeMax = 62
    AppPages = 3
    Blank = 127
    Magic = 85
    Transactional = FALSE
    Requests = {}
    MaxResets = 1
    RetryBudget = 1
    MaxJobs = 2
    MaxFaults = 2
    Crc <- MCCrc
    NorAnd <- MCAnd
    Codes <- MCCodes
    InitialFlash <- MCOldFlash
INVARIANTS
    VerifiedCodeInPlace
    OnlyWholeImagesRun
PROPERTIES
    JobsEnd

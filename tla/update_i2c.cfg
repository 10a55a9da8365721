SPECIFICATION UpdateFairSpec
CONSTANTS
    PageSize = 4
    PageSizeMax = 62
    AppPages = 3
    Blank = 127
    Magic = 85
    Transactional = TRUE
    Requests = {}
    MaxResets = 2
    RetryBudget = 1
    MaxJobs = 2
    MaxFaults = 2
    Crc <- MCCrc
    NorAnd <- MCAnd
    Codes <- MCCodes
    InitialFlash <- MCInitialFlash
INVARIANTS
    FlashedImageBoots
    BudgetCoversFaults
PROPERTIES
    IncompatibleUntouched
    OneImageSlot

SPECIFICATION FairSpec
CONSTANTS
    PageSize = 4
    AppPages = 2
    Blank = 127
    Magic = 85
    Transactional = TRUE
    MaxResets = 2
    Crc <- MCCrc
    NorAnd <- MCAnd
    Requests <- MCRequests
    InitialFlash <- MCInitialFlash
INVARIANTS
    TypeOK
    JumpGated
    NoStalePages
PROPERTIES
    EntryHonouredOnce
    HeldByHost
    RepliesBeforeJump
    Autoboots
    BootActedUpon

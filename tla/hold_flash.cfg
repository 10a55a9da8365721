SPECIFICATION Spec
CONSTANTS
    PageSize = 1
    AppPages = 4
    PagesPerSector = 2
    Blank = 3
    Magic = 2
    MaxCuts = 2
    Crc <- MCCrc
    NorAnd <- MCAnd
    Images <- MCImages
INVARIANTS
    TypeOK
    ReadIsDurable
PROPERTIES
    Contract

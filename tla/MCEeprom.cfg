SPECIFICATION FairSpec
CONSTANTS
    EEPROM_PAGE_SIZE = 2
    ChipPage = 2
    BlockSize = 4
    FlagAddr = 6
    MaxLen = 4
    MaxWrites = 1
    MaxReads = 1
    MaxHandshakes = 1
INVARIANTS
    TypeOK
    WriteExact
    ReadExact
    HandshakeTrue
PROPERTY
    CallsReturn
CHECK_DEADLOCK FALSE

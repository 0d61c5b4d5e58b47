SPECIFICATION FairSpec
CONSTANTS
    V3_FRAME_SIZE_HANDSHAKE = 5
    V3_FRAME_SIZE_NORMAL = 6
    V3_FRAME_SIZE_ERROR = 5
    OTA_FRAME_START_REQ_SIZE = 6
    OTA_FRAME_FLASH_ERASE_RSP_SIZE = 4
    OTA_FRAME_DATA_MIN_SIZE = 5
    OTA_FRAME_DATA_MAX_SIZE = 7
    RX_BUFFER_SIZE = 21
    MCU_MAX_LEN = 16
    FifoSize = 5
    FifoLevel = 4
    MaxFrames = 3
    MaxBurst = 2
    MaxPauses = 2
    MaxLoss = 1
    Content <- MCContent
    AppFrames <- MCAppFrames
    Noise <- MCNoise
    MaxWrite = 3
INVARIANTS
    TypeOK
    HandledInOrder
    Recovered
    WriteParsed
PROPERTY
    Delivered
CHECK_DEADLOCK FALSE

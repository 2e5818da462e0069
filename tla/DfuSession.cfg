CONSTANTS
    FLASH_PAGE_SIZE = 16
    BOOTLOADER_START = 80
    BOOTLOADER_END = 95
    APP_FLASH_START = 96
    APP_FLASH_END = 127
    FLASH_END = 143
    ByteBase = 4
    FlashMayFail = TRUE
    DFU_XFER_SIZE = 8
    EP0_MAX_SIZE = 6
    DFUSE_CMD_SET_ADDRESS = 1
    DFUSE_CMD_ERASE_PAGE = 2
    AddrLimit = 256
    InitialFlash <- MCInitialFlash
    Blocks <- None
    Lengths <- None
    ReadLengths <- None
    Commands <- None
    Payloads <- None
    Image <- MCImage
    MaxFaults = 3
SPECIFICATION SessionSpec
INVARIANTS
    SessionTypeOK
    AckedIsProgrammed
    ManifestMeansWhole
    ConformingHostServed
PROPERTIES
    UpdateCompletes
CHECK_DEADLOCK FALSE

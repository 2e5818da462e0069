CONSTANTS
    FLASH_PAGE_SIZE = 8
    BOOTLOADER_START = 88
    BOOTLOADER_END = 95
    APP_FLASH_START = 96
    APP_FLASH_END = 103
    FLASH_END = 111
    ByteBase = 4
    FlashMayFail = FALSE
    DFU_XFER_SIZE = 8
    EP0_MAX_SIZE = 4
    DFUSE_CMD_SET_ADDRESS = 1
    DFUSE_CMD_ERASE_PAGE = 2
    AddrLimit = 128
    InitialFlash <- MCInitialFlash
    Blocks <- MCBlocks
    Lengths <- MCLengths
    ReadLengths <- MCReadLengths
    Commands <- MCCommands
    Payloads <- MCPayloads
SPECIFICATION Spec
PROPERTIES
    DataBlockProgrammed

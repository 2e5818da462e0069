CONSTANTS
    OptionByte = {0, 3, 7, 165, 255}
    OB_RDP_UNLOCK = 165
    OB_WRP_NONE = 255
    RAM_BASE = 536870912
    EStack = 536920064
    APP_ADDRESS = 134230016
    AppLimit = 134479872
    Vectors <- MCVectors
    ErasedVectors <- MCErasedVectors
    InitialOptions <- MCInitialOptions
    ManifestPolls = 4
    MaxInterruptions = 2
SPECIFICATION BootSpec
PROPERTIES
    ReadProtectionKept
CHECK_DEADLOCK FALSE

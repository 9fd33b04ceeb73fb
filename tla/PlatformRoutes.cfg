\* Three cores: two of them register system calls at once.
SPECIFICATION BootSpec
CONSTANTS
    Cores = {1, 2, 3}
    BSP = 1
    None = None
    PAGE = 4
    TEXT_SEGMENT = 100
    Firmwares <- Boots_Firmware
    Files <- One_File
CHECK_DEADLOCK FALSE
INVARIANTS
    FirmwareIsObeyed

\* An entry right behind the table is read as one of it: violated.
SPECIFICATION BootSpec
CONSTANTS
    Cores = {1, 2}
    BSP = 1
    None = None
    PAGE = 4
    TEXT_SEGMENT = 100
    Firmwares <- Followed_Firmware
    Files <- One_File
CHECK_DEADLOCK FALSE
INVARIANTS
    TableIsReadExactly

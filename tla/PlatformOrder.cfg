\* A second core with the number 0 wipes the handlers: violated.
SPECIFICATION Spec
CONSTANTS
    Cores = {1, 2}
    BSP = 1
    None = None
    PAGE = 4
    TEXT_SEGMENT = 100
    Firmwares <- Turned_Firmware
    Files <- One_File
CHECK_DEADLOCK FALSE
INVARIANTS
    ClockIsHandled

\* Two cores that register system calls at once spoil the pin: violated.
SPECIFICATION BootSpec
CONSTANTS
    Cores = {1, 2, 3}
    BSP = 1
    None = None
    PAGE = 4
    TEXT_SEGMENT = 100
    Firmwares <- Wide_Firmware
    Files <- One_File
CHECK_DEADLOCK FALSE
INVARIANTS
    EveryRouteIsExact

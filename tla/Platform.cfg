SPECIFICATION Spec
CONSTANTS
    Cores = {1, 2}
    BSP = 1
    None = None
    PAGE = 4
    TEXT_SEGMENT = 100
    Firmwares <- Boots_Firmware
    Files <- MC_File
CHECK_DEADLOCK FALSE
INVARIANTS
    CoresStayClean
    BootIsPrepared
    ImageIsFile
PROPERTIES
    TickIsServed
    CoresComeUp

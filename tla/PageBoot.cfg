CONSTANTS
  PAGES = 4
  WORD = 2
  ZONES = 1
  Map <- NoMap
  Bases <- Apart2
  Sizes = {1, 2, 3}
  Client = {c0, c1, c2, c3, c4}
  MaxCount = 40
  None = None
SPECIFICATION BootSpec
SYMMETRY Clients
CHECK_DEADLOCK FALSE
PROPERTIES
    GrowsOnlyWhenFull

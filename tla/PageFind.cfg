CONSTANTS
  PAGES = 6
  WORD = 2
  ZONES = 1
  Map <- NoMap
  Bases <- NoBases
  Sizes = {1, 2}
  Client = {c0, c1, c2, c3, c4, c5}
  MaxCount = 40
  None = None
SPECIFICATION Spec
INVARIANTS
  RoomIsFree
SYMMETRY Clients

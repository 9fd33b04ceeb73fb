CONSTANTS
  PAGES = 6
  WORD = 3
  ZONES = 4
  Map <- NoMap
  Bases <- MixedBases
  Sizes = {7, 8}
  Client = {c0, c1}
  MaxCount = 60
  None = None
SPECIFICATION Spec
SYMMETRY Clients
CHECK_DEADLOCK FALSE
INVARIANTS
    NoOverlap
    NothingLeaks

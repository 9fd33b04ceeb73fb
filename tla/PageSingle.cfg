CONSTANTS
  PAGES = 4
  WORD = 2
  ZONES = 2
  Map <- TwoInZone
  Bases <- MixedBases
  Sizes = {1}
  Client = {c0, c1, c2, c3, c4, c5, c6}
  MaxCount = 40
  None = None
SPECIFICATION Spec
SYMMETRY Clients
INVARIANTS
    TypeOK
    NoOverlap
    HeldMarked
    ReservedSafe
    NothingLeaks
    CountNeverShort

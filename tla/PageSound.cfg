\* SoundSpec: mixed requests over longer histories, as long as every search
\* is sound; the invariants that PageProofs proves for all sizes.
CONSTANTS
  PAGES = 6
  WORD = 3
  ZONES = 3
  Map <- NoMap
  Bases <- MixedBases
  Sizes = {1, 2, 4, 7, 8, 11}
  Client = {c0, c1, c2, c3}
  MaxCount = 22
  None = None
SPECIFICATION SoundSpec
CHECK_DEADLOCK FALSE
SYMMETRY Clients
INVARIANTS
    TypeOK
    NoOverlap
    HeldMarked
    ReservedSafe
    NothingLeaks
    CountNeverShort
PROPERTIES
    GrowsOnlyWhenFull

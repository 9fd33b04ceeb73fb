CONSTANTS
  Size <- ThreeSizes
  SMALL = 2
  PAGE = 8
  LIMIT = 8
  WORD = 1
  BYTES = 1
  SLAB = 2
  Page <- FivePages
  Request = {2, 3, 8, 9}
  Null = Null
SPECIFICATION Spec
CHECK_DEADLOCK FALSE
INVARIANTS
    GrowthInPage

CONSTANTS
  c0 = c0
  c1 = c1
  c2 = c2
  m0 = m0
  m1 = m1
  m2 = m2
  s0 = s0
  s1 = s1
  None = None
  Core <- MC_Core
  Task <- MC_Task
  Main <- MC_Main
  Priority <- MixedThree
  rr_interval = 1
  Ratio = 0
  MaxTime = 0
SPECIFICATION Spec
PROPERTIES
  RTFirst

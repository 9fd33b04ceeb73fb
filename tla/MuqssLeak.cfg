CONSTANTS
  c0 = c0
  c1 = c1
  m0 = m0
  m1 = m1
  s0 = s0
  s1 = s1
  None = None
  Core <- MC_Core
  Task <- MC_Task
  Main <- MC_Main
  Priority <- AllNormal
  rr_interval = 1
  Ratio = 1
  MaxTime = 1
SPECIFICATION Spec
PROPERTIES
  SwitchLeaksNoTask

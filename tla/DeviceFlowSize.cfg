SPECIFICATION Spec
CONSTANTS
  Mac = {m1, m2, m3}
  Device = {d1, d2, d3}
  NULL = NULL
  PipeCap = 2
  InitialSize = 3
INVARIANTS
  SizeIsAllocated
CHECK_DEADLOCK FALSE

SPECIFICATION Spec
CONSTANTS
  a = a
  b = b
  c = c
  Items <- MCItems
  Address <- MCAddress
  Visible = 2
  Times <- MCTimes
  BusCap = 2
INVARIANT RowsCurrent

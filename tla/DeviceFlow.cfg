\* Two devices fit in the table, the third one makes it grow.  A pipe of two
\* messages is filled by one of each writer, or by one writer twice.
SPECIFICATION Spec
CONSTANTS
  Mac = {m1, m2, m3}
  Device = {d1, d2, d3}
  NULL = NULL
  PipeCap = 2
  InitialSize = 3
INVARIANTS
  TypeOK
  NoDangling
  OneOwner
  NothingOvertakes
PROPERTIES
  ImplementsTable
  DiscoveredIsShown
CHECK_DEADLOCK FALSE

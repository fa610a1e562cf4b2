SPECIFICATION Spec
CONSTANTS
  Error = {e1, e2}
  NONE = NONE
  PipeCap = 2
  Failing = {"table", "row", "list"}
INVARIANTS
  TypeOK
  NoLostWakeup
  TornDownUnused
  FirstErrorReported

SPECIFICATION Spec
CONSTANTS
  Error = {e1}
  NONE = NONE
  PipeCap = 1
  Failing = {"table", "list"}
PROPERTIES
  ShutdownCompletes
  ErrorEndsProgram
  ResizeHandled

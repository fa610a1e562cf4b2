SPECIFICATION Spec
CONSTANTS
  RATE_HISTORY_SIZE = 3
  MaxFrames = 4
  MaxTicks = 5
  OUTSIDE = OUTSIDE
  NONE = NONE
INVARIANT BlockExists
CHECK_DEADLOCK FALSE

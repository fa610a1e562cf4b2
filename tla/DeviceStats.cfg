SPECIFICATION Spec
CONSTANTS
  RATE_HISTORY_SIZE = 3
  MaxFrames = 4
  MaxTicks = 5
  OUTSIDE = OUTSIDE
  NONE = NONE
INVARIANTS
  TypeOK
  RingIsHistory
  RateFresh
  PopupCurrent
CHECK_DEADLOCK FALSE

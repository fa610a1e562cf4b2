SPECIFICATION Spec
CONSTANTS
  FRAME_BUFFER_SIZE = 32
  Tci = {0, 7}
  OtherTpid = 37120
  OtherType = 2048
  Mac <- MCMac
  TagList <- MCTagList
  Body <- MCBody
  NONE = NONE
INVARIANTS
  TypeOK
  CopiesFit
  DeviceRecorded
  StandardAccepted
CHECK_DEADLOCK FALSE

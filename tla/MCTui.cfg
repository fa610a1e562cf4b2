SPECIFICATION Spec
CONSTANTS
  Height <- MCHeight
  Width = {75, 77}
  BufferSize = 4
  MaxDevices = 3
  ListLength = {1, 3}
  InspectFieldCount = 2
  UINT32_MAX = 65535
INVARIANTS
  TypeOK
  SelectionInRange
  OneWindow
  InspectedIsSelected
  TextInFrame
  EveryItemReachable
  ArrowLandsInWindow

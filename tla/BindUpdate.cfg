SPECIFICATION Spec
CONSTANTS
  Interface = {eth0, eth1}
  ALL = ALL
  NONE = NONE
  Initial = eth0
  Fd = {f1, f2}
  QueueCap = 1
INVARIANTS
  ChoiceApplied
  NoOldFrames
  FramesAnnounced
  DefinedInService
PROPERTIES
  BothGoOn
  ChoiceTakesEffect

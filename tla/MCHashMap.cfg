SPECIFICATION Spec
CONSTANTS
  Mac <- MCMac
  HashMac <- MCHashMac
  Device <- MCDevice
  NULL = NULL
  InitialSize = 2
INVARIANTS
  TypeOK
  ProbeInvariant
  LoadFactor
PROPERTIES
  Returns
  RefinesRegistry

SPECIFICATION Spec
CONSTANTS
  None = None
  Junk = Junk
  EVDEV_MAX = 2
  EVDEV_ID_MAX = 2
  Kinds <- MCKinds
  Cap = 2
  MaxNotices = 2
INVARIANTS
  DistinctPorts
  InStep
CHECK_DEADLOCK FALSE

SPECIFICATION Spec
CONSTANTS
  Modes <- AllModes
  N = 2
  MaxItems = 4
  Cap = 1
  TTL = 1
  MaxTime = 3
  MaxRestarts = 1
  Key <- TwoKeys
INVARIANTS
  PerKeyState
  KeyedOrder
PROPERTIES
  EndsOrOrphaned

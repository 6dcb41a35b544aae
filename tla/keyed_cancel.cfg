SPECIFICATION Spec
CONSTANTS
  Modes <- OrderedOnly
  N = 2
  MaxItems = 4
  Cap = 1
  TTL = 1
  MaxTime = 1
  MaxRestarts = 0
  Key <- TwoKeys
PROPERTIES
  CancelReturns

SPECIFICATION Spec
CONSTANTS
  Kinds <- OneCombine
  MaxItems = 2
  Cap = 1
  OutCap = 1
  MayFail = TRUE
INVARIANTS
  NoSendOnClosed

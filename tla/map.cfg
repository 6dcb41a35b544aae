CONSTANTS
  NItems = 6
  Concurrency = 2
  Cap = 1
  CanFail = {1, 3}
  CanSkip = {2}
  MayCancel = TRUE
  CoopLeave = FALSE
SPECIFICATION Spec
INVARIANTS
  WithinConcurrency
PROPERTIES
  Refines
  Termination

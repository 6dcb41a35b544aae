CONSTANTS
  N = 4
  Kind <- ChainStuck
  Cap <- OneSlot
  Consumers <- OneConsumer
  NItems = 4
  TakeN = 1
  BatchSize = 1
  CanFail = {4}
  CanSkip = {}
  MayCancel = FALSE
  WithDrain = FALSE
SPECIFICATION Spec
PROPERTY Termination
CHECK_DEADLOCK FALSE

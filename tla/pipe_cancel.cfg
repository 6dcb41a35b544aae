CONSTANTS
  N = 3
  Kind <- ChainCancel
  Cap <- OneSlot
  Consumers <- OneConsumer
  NItems = 3
  TakeN = 1
  BatchSize = 2
  CanFail = {1, 2, 3}
  CanSkip = {3}
  MayCancel = TRUE
  WithDrain = TRUE
SPECIFICATION Spec
INVARIANT ErrorAttribution
INVARIANT InOrderNoGap
PROPERTY CancelTerminates
PROPERTY NoLeak

CONSTANTS
  N = 5
  Kind <- ChainEarly
  Cap <- OneSlot
  Consumers <- OneConsumer
  NItems = 3
  TakeN = 1
  BatchSize = 1
  CanFail = {}
  CanSkip = {3}
  MayCancel = FALSE
  WithDrain = FALSE
SPECIFICATION Spec
INVARIANT TypeOK
INVARIANT DrainSafety
INVARIANT NoStranding
INVARIANT DeliveryComplete
PROPERTY Termination

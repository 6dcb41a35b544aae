SPECIFICATION Spec
CONSTANTS
  Ops <- AllOps
  Items = {0, 1, 2, 3}
  MaxLen = 4
  ReceiveBatchSize = 3
  MaxTime = 5
  Pred <- NonZero
  Key <- Mod3
INVARIANTS
  Computes
  ChoicesKept
  ReadsNoMore
  Partitioned
  Timely

SPECIFICATION Spec
CONSTANTS
  Stages <- MCStages
  Policies <- MCPolicies
  KeyOf <- MCKeyOf
  NItems = 5
  MaxFails = 4
  Initial = 1
  MaxDelay = 3
  Bits = 4
  EffItems = 3
  MaxRuns = 2
  EffCap = 1
INVARIANTS
  NoSilentLoss
  BackoffInRange
  RestartBudget
  OutcomesAccounted
  OncePerKey
  SnapshotsReplayed
  StopsOnCancel

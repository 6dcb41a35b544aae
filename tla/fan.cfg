SPECIFICATION Spec
CONSTANTS
  Kinds <- AllKinds
  MaxItems = 3
  Cap = 1
  OutCap = 1
  MayFail = TRUE
INVARIANTS
  RoutedRight
  JoinedRight
  DrainOnlyWhenAllLeft
PROPERTIES
  EndsOrSendStuck

SPECIFICATION Spec
CONSTANTS
  a = a
  b = b
  c = c
  Users = {a, b, c}
  Workers = {a, b, c}
  Outboxes <- MCOutboxes
  Breakers <- MCBreakers
  Pushers = {s1, s2}
  TrySenders = {t1}
  Closers = {c1, c2}
  MaxCalls = 2
  Cap = 1
  MayCancel = TRUE
CHECK_DEADLOCK FALSE
INVARIANTS
  Accounted
  InOrder
  NoSendOnClosed
PROPERTIES
  CallsReturn
  ProbesDecide
  Recovers

SPECIFICATION Spec
CONSTANTS
  c1 = c1
  c2 = c2
  x = x
  y = y
  Server = {s1, s2}
  Client = {c1, c2}
  Account = {x, y}
  Nil = Nil
  NoOp = NoOp
  MaxInt = 2
  Script <- TwoClients
  Checks = 1
  LateClients = {c2}
  MaxTerm = 2
  MaxTail = 2
  MaxResends = 1
  MaxQueries = 0
CHECK_DEADLOCK FALSE
INVARIANTS
  BalancesInRange
PROPERTIES
  ImplementsBank

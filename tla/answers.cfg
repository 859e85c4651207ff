SPECIFICATION Spec
CONSTANTS
  c1 = c1
  c2 = c2
  x = x
  y = y
  Server = {s1, s2, s3}
  Client = {c1}
  Account = {x, y}
  Nil = Nil
  NoOp = NoOp
  MaxInt = 2
  Script <- OneClient
  Checks = 1
  LateClients = {}
  MaxTerm = 2
  MaxTail = 1
  MaxResends = 1
  MaxQueries = 1
CHECK_DEADLOCK FALSE
INVARIANTS
  LogsInOrder
PROPERTIES
  EveryActionEnds

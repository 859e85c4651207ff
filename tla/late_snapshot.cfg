SPECIFICATION MCSpec
CONSTANTS
  p1 = p1
  p2 = p2
  p3 = p3
  x = x
  Server = {p1, p2, p3}
  Timers = {}
  Command = {x}
  NoOp = NoOp
  Nil = Nil
  FirstLeader = p1
  SnapshotThreshold = 2
  MaxTerm = 1
  MaxIndex = 2
  MaxCrashes = 0
  MaxStops = 0
  MaxFailures = 1
  MaxInFlight = 2
  Hybrid = FALSE
  LateDelivery = TRUE
CHECK_DEADLOCK FALSE
PROPERTIES
  CommitMonotone

SPECIFICATION MCSpec
CONSTANTS
  p1 = p1
  p2 = p2
  p3 = p3
  Server = {p1, p2, p3}
  Timers = {p1, p2}
  Command = {}
  NoOp = NoOp
  Nil = Nil
  FirstLeader = Nil
  SnapshotThreshold = 2
  MaxTerm = 1
  MaxIndex = 0
  MaxCrashes = 1
  MaxStops = 0
  MaxFailures = 0
  MaxInFlight = 0
  Hybrid = TRUE
  LateDelivery = FALSE
CHECK_DEADLOCK FALSE
INVARIANTS
  ElectionSafety

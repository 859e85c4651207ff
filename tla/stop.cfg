SPECIFICATION MCSpec
CONSTANTS
  p1 = p1
  p2 = p2
  x = x
  Server = {p1, p2}
  Timers = {p1, p2}
  Command = {x}
  NoOp = NoOp
  Nil = Nil
  FirstLeader = p1
  SnapshotThreshold = 2
  MaxTerm = 2
  MaxIndex = 2
  MaxCrashes = 0
  MaxStops = 1
  MaxFailures = 1
  MaxInFlight = 1
  Hybrid = TRUE
  LateDelivery = TRUE
CHECK_DEADLOCK FALSE
INVARIANTS
  OneVotePerTerm
  OverridesNothing
PROPERTIES
  CommitMonotone

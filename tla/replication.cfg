SPECIFICATION MCSpec
CONSTANTS
  p1 = p1
  p2 = p2
  p3 = p3
  x = x
  Server = {p1, p2, p3}
  Timers = {p2}
  Command = {x}
  NoOp = NoOp
  Nil = Nil
  FirstLeader = p1
  SnapshotThreshold = 100
  MaxTerm = 2
  MaxIndex = 2
  MaxCrashes = 1
  MaxStops = 0
  MaxFailures = 0
  MaxInFlight = 1
  Hybrid = FALSE
  LateDelivery = FALSE
CHECK_DEADLOCK FALSE
INVARIANTS
  CommitTravelsWithEntries
  LogInv
  ReplicationInv
PROPERTIES
  ImplementsReplicatedLog

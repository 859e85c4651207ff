SPECIFICATION MCSpec
CONSTANTS
  p1 = p1
  p2 = p2
  p3 = p3
  x = x
  Server = {p1, p2, p3}
  Timers = {p2}
  Command = {x}
  NoOp = NoOp
  Nil = Nil
  FirstLeader = p1
  SnapshotThreshold = 1
  MaxTerm = 2
  MaxIndex = 2
  MaxCrashes = 0
  MaxStops = 0
  MaxFailures = 2
  MaxInFlight = 1
  Hybrid = FALSE
  LateDelivery = FALSE
CHECK_DEADLOCK FALSE
INVARIANTS
  TypeInv
  NoPanic
  AcksAreHonest
  SignalsFitChannel
  CommitWithinLog
  CrashKeepsReplica
  LogMatching
  LeaderCompleteness
  AgreeOnLogEntriesIfSnapshotEqual
  AgreeOnSnapshot
PROPERTIES
  ImplementsReplicatedLog

SPECIFICATION Spec
CONSTANTS
  x = x
  NoOp = NoOp
  Command = {x}
  SnapshotThreshold = 2
  MaxTerm = 2
  MaxIndex = 5
INVARIANTS
  CommitMatchesLoop
  MergeMatchesLoop
  MergeYieldsLeaderLog
  SnapshotsLoseNothing

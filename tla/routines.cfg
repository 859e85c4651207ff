SPECIFICATION Spec
CONSTANTS
  q1 = q1
  r1 = r1
  Peer = {q1}
  Reachable = {q1}
  Request = {r1}
  Nobody = Nobody
  MaxTerm = 3
  Winnable = {1, 3}
  EarlyTerm = 1
  MaxIndex = 2
  MaxStarting = 2
CHECK_DEADLOCK FALSE
INVARIANTS
  SkipIsForThisRound
  PanicsOnlyAfterShutdown
PROPERTIES
  CommitsItsOwnEntry
  StoppedPeerDoesNotCampaign
  RequestsEnd
  StoppedPeerWindsDown

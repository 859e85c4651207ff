SPECIFICATION Spec
CONSTANTS
  p1 = p1
  p2 = p2
  p3 = p3
  Node = {p1, p2, p3}
  FirstLeader = p1
  Timed = {p2}
  Timeout = 4
  Latency = {0, 1}
  MutexWaits = {3, 6}
  HeartbeatTimeout = 4
  ElectionTimeout = {16, 19, 32}
  LeaseTime = 10
  MaxTerm = 2
  MaxSince = 12
  MaxLost = 1
  MaxFaults = 2
  Cuttable = {p1, p2}
CHECK_DEADLOCK FALSE
INVARIANTS
  LeaseInv
  LateAnswersWereHeldUp
  StaleReadsAreBounded
  LeaseExcludesCampaigners
  NoNeedlessElection
  LeaderStaysValid

SPECIFICATION FairSpec
CONSTANTS
  MaxPings = 2
  MessageIds = {m1, m2, m3}
  ReplayWindow = 2
CHECK_DEADLOCK FALSE
INVARIANTS
  TypeOK
  CommandAfterReady
  LockQueueExact
  ReplayWindowExact
  TeardownComplete
PROPERTIES
  PassedHeartbeatWasAnswered
  SessionWindsDown

SPECIFICATION Spec
INVARIANT TypeOK
INVARIANT RunningTruth
INVARIANT ResponseHeld
INVARIANT OutageAnnounced
INVARIANT SentinelKept
PROPERTY StopIsComplete
PROPERTY StopReturns
PROPERTY AuthEndsDispatcher
PROPERTY OutageHeard
CONSTANTS
  u1 = u1
  Users = {u1}
  QueueMax = 1
  MaxStarts = 2
  MaxNet = 3
  ReconnectDelay = 1
  MaxDelay = 2
CHECK_DEADLOCK FALSE

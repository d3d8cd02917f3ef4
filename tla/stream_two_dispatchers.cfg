SPECIFICATION Safe
INVARIANT SerialDispatch
CONSTANTS
  u1 = u1
  Users = {u1}
  QueueMax = 3
  MaxStarts = 2
  MaxNet = 3
  ReconnectDelay = 1
  MaxDelay = 3
CHECK_DEADLOCK FALSE

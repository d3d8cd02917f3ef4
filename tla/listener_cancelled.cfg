SPECIFICATION ListenersSpec
PROPERTY RaisingIsSkipped
CONSTANTS
  QueueMax = 1
  MaxEvents = 2
  RefreshOnConfigChange = TRUE
  f = f
  Callbacks = {f}
  MaxTimes = 1
CHECK_DEADLOCK FALSE

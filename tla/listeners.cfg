SPECIFICATION ListenersSpec
INVARIANT RegistryMatches
PROPERTY HeardInFull
CONSTANTS
  QueueMax = 1
  MaxEvents = 2
  RefreshOnConfigChange = TRUE
  f = f
  g = g
  Callbacks = {f, g}
  MaxTimes = 2
CHECK_DEADLOCK FALSE

SPECIFICATION ListenersSpec
INVARIANT TypeInvariant
INVARIANT BacklogIsNewest
INVARIANT EveryEventAccounted
INVARIANT RefreshOwed
PROPERTY ImplementsFifo
PROPERTY ReaderNeverStalls
PROPERTY ListenersCatchUp
CONSTANTS
  QueueMax = 2
  MaxEvents = 4
  RefreshOnConfigChange = TRUE
  f = f
  Callbacks = {f}
  MaxTimes = 1
CHECK_DEADLOCK FALSE

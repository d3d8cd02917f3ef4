SPECIFICATION Spec
INVARIANT TypeOK
INVARIANT NoSessionLeaked
INVARIANT StreamHasSession
PROPERTY BorrowedLeftOpen
PROPERTY CloseReleases
CONSTANTS
  x1 = x1
  x2 = x2
  Callers = {x1, x2}
  MaxSessions = 4
CHECK_DEADLOCK FALSE

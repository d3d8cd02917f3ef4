SPECIFICATION Spec
PROPERTY WithReleases
CONSTANTS
  x1 = x1
  Callers = {x1}
  MaxSessions = 2
CHECK_DEADLOCK FALSE

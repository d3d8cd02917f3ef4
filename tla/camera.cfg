SPECIFICATION Spec
INVARIANT TypeOK
INVARIANT MotionIsLive
INVARIANT SettledModes
PROPERTY NoSilentReschedule
CONSTANTS
  c1 = c1
  x1 = x1
  x2 = x2
  Cams = {c1}
  Callers = {x1, x2}
  Kinds = {"refresh", "continuous", "schedule"}
  Others = TRUE
  Gaps = TRUE
  Relist = TRUE
  MaxWire = 2
SYMMETRY CallerSymmetry

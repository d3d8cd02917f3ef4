SPECIFICATION RecordingsSpec
INVARIANT TypeInvariant
INVARIANT BodyIsWhole
INVARIANT RefusalsAreExact
INVARIANT NewestAreListed
CONSTANTS
  c1 = c1
  Cams = {c1}
  Zones = {0, 1}
  Skews = {0, 1}
  MaxNow = 3
  MaxClips = 2
  MaxBytes = 2
  MaxBody = 4
CHECK_DEADLOCK FALSE

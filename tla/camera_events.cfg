SPECIFICATION Spec
INVARIANT TypeOK
INVARIANT ObjectIsTopClass
INVARIANT ReasonsOfLastMotion
INVARIANT NoStaleScores
PROPERTY DetectionTimes
CONSTANTS
  BAD = BAD
  Scores = {0, 70}
  Masks = {1536, 98817}
  Zones = {1, 2}
  MaxPairs = 2

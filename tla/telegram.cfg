SPECIFICATION Spec
CONSTANTS
  Null = Null
  w1 = w1
  w2 = w2
  Processes = {w1, w2}
  Workers = {w1, w2}
  MaxKeys = 2
  MaxRetry = 3
  MaxDocs = 2
  MaxRevokes = 1
  MaxCrashes = 1
SYMMETRY Symmetry
CONSTRAINT NotCrossed
INVARIANTS TypeOK WorkingSessionSurvives SessionIsWithinReach ReloginIsRecorded
PROPERTIES GoodSessionIsKept
CHECK_DEADLOCK FALSE

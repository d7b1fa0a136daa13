SPECIFICATION Spec
CONSTANTS
  Null = Null
  Processes = {master, worker}
  Workers = {worker}
  MaxKeys = 3
  MaxRetry = 3
  MaxDocs = 1
  MaxRevokes = 1
  MaxCrashes = 1

PROPERTY ReloginIsPickedUp
CHECK_DEADLOCK FALSE

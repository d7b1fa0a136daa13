SPECIFICATION FairSpec
CONSTANTS
  master = master
  worker = worker
  Null = Null
  Processes = {master, worker}
  Threads <- AllThreads
  Scheduled <- MasterThreads
  MaxTriggers = 1
  MaxFailures = 1
  MaxCrashes = 1
INVARIANTS TypeOK OneRunPerTask LiveStateIsOfARun DocumentSurvives
PROPERTY SyncKeepsRunning
CHECK_DEADLOCK FALSE

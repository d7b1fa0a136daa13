SPECIFICATION FairSpec
CONSTANTS
  Threads = {sync, verify}
  PerMinute = 1
  PerHour = 2
  Minute = 2
  Hour = 5
  MaxConcurrency = 2
  MaxRetry = 2
  MaxWaits = 1
  Backoff = 1
  Headers = {0, 2}
  DefaultPenalty = 1
  MaxPenalty = 1
  MaxCalls = 1
INVARIANTS TypeOK BudgetKept SendsNearBudget NoIdleSlot RequestsBounded
PROPERTIES CallsEnd
CHECK_DEADLOCK FALSE

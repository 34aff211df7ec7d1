SPECIFICATION FairSpec
CONSTANTS
  d1 = d1
  d2 = d2
  NumMessages = 1
  NumHandlers = 2
  Dispatchers <- TwoDispatchers
  BatchSize = 2
  MaxRetries = 2
  LeaseTicks = 2
  BaseDelay = 1
  MaxDelay = 2
  Poison <- NoPoison
  SkipLocked = TRUE
  LeaseCoversBatch = FALSE
  SavesFail = TRUE
  MaxFaults = 1
CHECK_DEADLOCK FALSE
INVARIANTS ProcessedOnlyAfterHandled PendingWithinBudget
PROPERTIES EventuallySettled

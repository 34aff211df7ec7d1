SPECIFICATION Spec
CONSTANTS
  d1 = d1
  d2 = d2
  NumMessages = 2
  NumHandlers = 2
  Dispatchers <- TwoDispatchers
  BatchSize = 2
  MaxRetries = 2
  LeaseTicks = 2
  BaseDelay = 1
  MaxDelay = 2
  Poison <- SecondIsPoison
  SkipLocked = TRUE
  LeaseCoversBatch = TRUE
  SavesFail = FALSE
  MaxFaults = 1
CHECK_DEADLOCK FALSE
INVARIANTS ExclusiveInFlight RepeatsAreFaults
PROPERTIES RowsNeverRegress ImplementsDelivery

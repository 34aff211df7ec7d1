SPECIFICATION FairSpec
CHECK_DEADLOCK FALSE
CONSTANTS
  Assets = {f1}
  Requests = {r1, r2}
  Limit = 2
  MaxDeaths = 1
  MaxUsage = 2
  MaxOverdraft = 1
INVARIANTS AvailableIsClean AvailableIsAnnounced
PROPERTIES OnlyJobsTakeBytes LeftoversArePurged

SPECIFICATION Spec
CONSTANTS
    Hosts <- AllHosts
    MaxUploads = 3
    MaxBatch = 2
    MaxCancels = 2
INVARIANTS GivenIsFinalized OneAtATime ProgressHonest CancelStopsBytes
PROPERTIES EndsIdle
CHECK_DEADLOCK FALSE

SPECIFICATION FairSpec
CONSTANTS
    N = 2
    Executors = {e1, e2}
    MaxRetries = 1
    HasUpstream = TRUE
    MaxFaults = 1
    MaxPauses = 0
    MaxRequeues = 1
INVARIANTS
    ExecutesOnlyWhenReady
PROPERTIES
    JobSettles
    ClaimedPartitionReleased

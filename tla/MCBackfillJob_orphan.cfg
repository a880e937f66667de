SPECIFICATION Spec
CONSTANTS
    N = 2
    Executors = {e1}
    MaxRetries = 2
    HasUpstream = FALSE
    MaxFaults = 1
    MaxPauses = 0
    MaxRequeues = 0
INVARIANT
    NoOrphanedPartition

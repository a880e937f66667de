SPECIFICATION Spec
CONSTANTS
    N = 2
    Executors = {e1, e2}
    MaxRetries = 2
    HasUpstream = FALSE
    MaxFaults = 2
    MaxPauses = 1
    MaxRequeues = 0
SYMMETRY ExecutorSymmetry
INVARIANTS
    PartitionExclusive
    RemainingNeverNegative
    CheckpointCompleted
    FailedJobHasExhaustedPartition
PROPERTIES
    CompletedRowsStay
    ObeysLifecycle

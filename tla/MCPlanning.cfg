CONSTANTS
    Ids = {i1, i2}
    Names = {n1, n2, n3}
    AssetIds = {"a", "b", "c"}
    Assets <- OfferedAssets
    Workflows <- SomeWorkflows
    Keys <- SomeKeys
    Types <- SomeTypes
    Mappings <- SomeMappings
    NoType = NoType
    MaxAttempts = 4
    InitialDelay = 1
    MaxDelay = 3
    MaxElapsed = 6
    MaxDuration = 4
    Durations = {0, 1, 7}
    Partitions = 4
    Fractions = 10000
    Callers = {c1, c2}
    Keyed = {c1, c2}
    NumAssets = 2
    MaxCancels = 2
    Tasks = {t1, t2}
    BurstSize = 1
    Executors = {e1, e2}
    MaxRetries = 2
    PageSize = 1
    MaxWorkflows = 1
    MaxFaults = 2
SPECIFICATION Spec
INVARIANTS RegistryConsistent PlanSound MappingSound RetryBounded
           EstimateWithinObserved RunsSound
           AdmissionSound AttemptsSound
PROPERTIES CallsEnd  
CHECK_DEADLOCK FALSE

CONSTANTS
    Assets = {"a", "b", "c"}
    Names = {"x", "y", "z", "w"}
    DependencyTypes = {"data", "control"}
    InitialAssets <- ThreeAssets
    InitialDeps <- SomeDependencies
    MaxDepth = 2
    MaxChanges = 2
    Deployers = {p1, p2}
    MaxFires = 2
    Commands = {o1, o2}
    LastDate = 2
    MaxSeconds = 1
    Columns = {"a", "r"}
    RefColumn = "r"
    Numbers = {1, 2}
    Strings = {"x"}
    MaxRows = 2
    MaxFailedSamples = 1
    Deliveries = {d1, d2}
    Plan <- TwoAssets
    CheckIds = {k1, k2}
    CheckDefinitions <- SomeChecks
    MaxEdits = 1
    Clients = {t1, t2}
    Rate = 2
    Period = 4
    MaxTime = 5
    MaxRequests = 4
    Requests = {r1, r2}
    MaxVersion = 3
    Weak = {2}
    MayFail = TRUE
    Askers = {a1, a2}
    Keys = {"k1", "k2"}
    Ttl = 2
    Margin = 1
    MaxDelay = 1
    MaxClock = 4
SPECIFICATION Spec
INVARIANTS LineageComplete  ScheduleSettled OverlapOnlyByRace 
           DeliverySound QuotaPerClient SecretsSound CacheSound
CHECK_DEADLOCK FALSE

SPECIFICATION FairSpec
CONSTANTS
    Children = {c1, c2}
    Parent = parent
    Discoverable <- Anything
    Order <- ChainOrder
    Executors = {e1, e2}
    ChildOutcomes = {"completed", "failed"}
    MaxFaults = 1
    MaxOperations = 1
INVARIANTS
    CountsOnlyCompleted
PROPERTIES
    ReleasedWhenAllComplete
    ObeysLifecycle
    WaitingParentLeaves

SPECIFICATION FairSpec
CONSTANTS
    Children = {c1, c2}
    Parent = parent
    Discoverable <- Everything
    Order <- FlatOrder
    Executors = {e1, e2}
    ChildOutcomes = {"completed"}
    MaxFaults = 0
    MaxOperations = 0
PROPERTIES
    ParentEnds

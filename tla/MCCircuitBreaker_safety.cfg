CONSTANTS
    Callers = {c1, c2, c3}
    Threshold = 2
    MaxOutages = 2
    MaxDrops = 1
SPECIFICATION FairSpec
INVARIANTS BreakerConsistent GuardHasProbe
PROPERTIES Recovers

CONSTANTS
    Tasks = {t1}
    BurstSize = 1
    MaxFaults = 1
SPECIFICATION Spec
INVARIANT EnqueuedAccepted

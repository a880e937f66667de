CONSTANTS
    Deployers = {p1, p2}
    MaxFires = 2
SPECIFICATION Spec
INVARIANTS NoDrift
CHECK_DEADLOCK FALSE

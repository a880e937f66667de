CONSTANTS
    Clients = {c1}
    Workers = {w1}
    MaxRetries = 1
    MaxDeliveries = 1
    MaxCancels = 0
    MaxFaults = 1
SPECIFICATION Spec
INVARIANTS AcceptedHasTask

CONSTANTS
    Clients = {c1, c2}
    Workers = {w1, w2}
    MaxRetries = 2
    MaxDeliveries = 4
    MaxCancels = 1
    MaxFaults = 3
SPECIFICATION FairSpec
INVARIANTS RowCoherent OneTaskPerExecution
PROPERTIES SingleDeliveryIsLegal Settles

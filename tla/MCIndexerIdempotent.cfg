CONSTANTS
    Users = {"ann"}
    Markets = {}
    Orders = {}
    Scenarios <- TwoEvents
    Finality = 1
    Batch = 1
    MaxHeight = 3
    MaxPerBlock = 2
    MaxReorgs = 1
    MaxTimestamp = 1
    MaxFaults = 0
SPECIFICATION Spec
INVARIANTS
    IdempotentReprocessing

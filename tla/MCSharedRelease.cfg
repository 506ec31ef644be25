CONSTANTS
    Users = {"ann"}
    Markets = {"m"}
    Orders <- MCOrders
    Scenarios <- TradedMarket
    Finality = 1
    Batch = 1
    MaxHeight = 3
    MaxPerBlock = 2
    MaxReorgs = 1
    MaxTimestamp = 1
    MaxFaults = 0
SPECIFICATION SharedSpec
INVARIANTS
    FundsAreIndexed

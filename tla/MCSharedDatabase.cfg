CONSTANTS
    Users = {"ann"}
    Markets = {"m"}
    Orders <- MCOrders
    Scenarios <- MCScenarios
    Finality = 1
    Batch = 1
    MaxHeight = 3
    MaxPerBlock = 2
    MaxReorgs = 1
    MaxTimestamp = 1
    MaxFaults = 1
SPECIFICATION SharedSpec
INVARIANTS
    SharedTypeOK
    FinalizedIsFinal
    AccountedFor
    FundsTraced
    ReservationsHeld
    RowsFollowChain
PROPERTIES
    FinalLogsStay
    CursorsCatchUp
    ImplementsIndexer

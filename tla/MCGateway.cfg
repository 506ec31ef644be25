CONSTANTS
    Users = {"ann", "ben"}
    Positions = {"p", "q"}
    SignedOrders <- MCSignedOrders
    Scale = 2
    QueueCapacity = 1
    Wealth = 2
    Indexed <- MCIndexed
    MaxOrders = 3
    MaxUnderWay = 2
    MaxEvents = 2
SPECIFICATION Spec
CHECK_DEADLOCK FALSE
INVARIANTS
    TypeOK
    FundsConserved
    HoldsCovered
    RestingIsHeld
    Uncrossed
    FillsCountOnce
PROPERTIES
    FillsFollowPriority
    ImplementsEscrow
    OrdersSettle

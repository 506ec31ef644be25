CONSTANTS
    Users = {"ann", "ben"}
    Positions = {"p", "q"}
    SignedOrders <- MCSignedOrders
    Scale = 2
    QueueCapacity = 1
    Wealth = 2
    Indexed <- MCIndexed
    MaxOrders = 3
    MaxUnderWay = 2
    MaxEvents = 1
SPECIFICATION Spec
CHECK_DEADLOCK FALSE
PROPERTIES
    CancelledStaysCancelled

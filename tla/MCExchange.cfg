CONSTANTS
    alice = alice
    bob = bob
    exchange = exchange
    vault = vault
    yes = yes
    no = no
    Users <- MCUsers
    Exchange = exchange
    Vault = vault
    Positions = {yes, no}
    Orders <- MCOrders
    Signed <- MCSigned
    BatchIds = {b1, b2}
    Batches <- MCBatches
    InitialShares <- MCInitialShares
    PriceUnit = 2
    FeeUnit = 2
    MaxFeeRate = 1
    MinThreshold = 0
    MaxThreshold = 0
    Amounts = {0, 3}
    Supply = 3
    MaxTransferFee = 0
    MaxTime = 1
    MaxNonce = 0
    MaxEpoch = 1
SPECIFICATION Spec
INVARIANTS
    TypeOK
    NeverOverfilled
    BooksAgree
    NoTransientOverdraft
    MatchesFundTheirRebate
PROPERTIES
    TradesAreSigned
    PassThrough
    DeadOrdersStayDead

CONSTANTS
    alice = alice
    bob = bob
    exchange = exchange
    vault = vault
    yes = yes
    no = no
    Users <- MCUsers
    Exchange = exchange
    Vault = vault
    Positions = {yes}
    Orders <- FeeOrders
    Signed <- FeeOrders
    BatchIds = {b1, b2}
    Batches <- FeeBatches
    InitialShares <- FeeShares
    PriceUnit = 2
    FeeUnit = 2
    MaxFeeRate = 1
    MinThreshold = 0
    MaxThreshold = 0
    Amounts = {1, 2}
    Supply = 3
    MaxTransferFee = 0
    MaxTime = 1
    MaxNonce = 1
    MaxEpoch = 0
SPECIFICATION Spec
INVARIANTS
    Solvency
PROPERTIES
    FeesNeverSpent

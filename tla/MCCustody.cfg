CONSTANTS
    alice = alice
    bob = bob
    exchange = exchange
    vault = vault
    Accounts <- MCAccounts
    This = vault
    SettlementRole = {exchange}
    BatchIds = {b1, b2}
    DeltaLists <- MCDeltaLists
    MinThreshold = 1
    MaxThreshold = 2
    Amounts = {0, 1, 2}
    Supply = 3
    MaxTransferFee = 1
    MaxTime = 4
    MaxNonce = 1
SPECIFICATION FairSpec
INVARIANTS
    TypeOK
    Solvency
PROPERTIES
    ImplementsVault
    SurplusNeverShrinks
    CreditsAreFresh
    SilenceFreesFunds


CONSTANTS
    Markets = {m1, m2}
    Actors = {ann, ben}
    Specs <- MCSpecs
    PayoutVectors <- MCPayouts
    Wealth = 4
    MaxTime = 4
    MaxGifts = 1
SPECIFICATION FairSpec
INVARIANTS
    TypeOK
    BondsBacked
    ResolvedIsReported
    WindowHasAnEnd
PROPERTIES
    OnlyVerdictsMoveMoney
    ProposalsSettle

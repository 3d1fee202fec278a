CONSTANTS
    Requests = {r1, r2, r3}
    Keys = {k1, k2}
    NoKey = NoKey
    None = None
    Amounts <- MCAmounts
    DailyLimit = 4
    ViaGateway = FALSE
    LastDay = 1
    MaxFaults = 1
SPECIFICATION Spec
SYMMETRY RequestSymmetry
INVARIANTS
    OneSettlementPerKey
    RetriesSeeOneSettlement

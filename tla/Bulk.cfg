CONSTANTS
    Requests = {r1, r2, r3}
    Keys = {k1}
    NoKey = NoKey
    None = None
    Payloads <- MCPayloads
    AmountCap = 4
    MinAmount = 2
    MaxAmount = 3
    DailyLimit = 6
    MaxItems = 3
    MaxFaults = 1
    MaxRedisFaults = 1
SPECIFICATION Spec
SYMMETRY RequestSymmetry
INVARIANTS
    OneBatchPerKey
    ReplayIsSamePayload
    AcceptsGreedily

CONSTANTS
    Merchants <- MCMerchants
    NoMerchant <- MCNoMerchant
    merchantOf <- MCMerchantOf
    assetOf <- MCAssetOf
    gross <- MCGross
    MaxAttempts = 2
    MaxConcurrent = 2
    MinCount = 1
    VolumeThreshold = 0
    MaxBatchSize = 0
    Settlements <- MCRow1
    HasWebhook <- MCRow1
    Jobs <- MCJobs2
    Reapers = {w1}
    Budget <- OverlapBudget
SPECIFICATION FairSpec
INVARIANTS
    NoContradictoryWebhooks
    SlotAccounting
PROPERTIES
    ImplementsStateMachine
    ImplementsSlots
    AcceptedJobSettles
CHECK_DEADLOCK FALSE

CONSTANTS
    Merchants <- MCMerchants
    NoMerchant <- MCNoMerchant
    merchantOf <- MCMerchantOf
    assetOf <- MCAssetOf
    gross <- MCGross
    MaxAttempts = 2
    MaxConcurrent = 1
    MinCount = 2
    VolumeThreshold = 0
    MaxBatchSize = 0
    Settlements <- MCRows2
    HasWebhook <- MCRows2
    Jobs <- MCJobs3
    Reapers = {w1}
    Budget <- NominalBudget
SPECIFICATION Spec
INVARIANTS
    OneJobPerRow
    LimitOneExcludes
    
CHECK_DEADLOCK FALSE

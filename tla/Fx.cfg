SPECIFICATION FairSpec
CONSTANTS
    Instances = {i1, i2}
    Assets = {USDC}
    NGN = NGN
    Pairs <- MCPairs
    Rates = {10, 11, 20}
    FALLBACK_RATES <- MCFallback
    MAX_DEVIATION_BPS = 2000
    Slippages = {500}
    FAILURE_THRESHOLD = 2
    None = None
    Lost = Lost
    Budget <- MCBudget
    MaxOccurrences = 2
INVARIANTS AcceptedWithinSlippage FailOpenWhileOpen
PROPERTIES NobodyElseReleases RatesFollowMarket

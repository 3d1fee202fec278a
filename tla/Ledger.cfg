SPECIFICATION LedgerSpec
CONSTANTS
    Merchants = {m1, m2}
    Clients = {c1}
    Ids = {1, 2}
    Asks <- MCAsks
    Tiers <- MCTiers
    FeeBps = 1000
    Limits <- MCLimits
    MAX_SETTLEMENT_AMOUNT = 2000
    Whole = 10
    ListLimit = 1
    ReportPage = 1
    LastMonth = 1
    MaxOccurrences = 3
    All = All
    None = None
INVARIANTS DifferencesExplained
PROPERTIES DiscountEarned SettledStaysSettled
SYMMETRY Symmetry
CHECK_DEADLOCK FALSE

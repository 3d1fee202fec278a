SPECIFICATION FairSpec
CONSTANTS
    Slots = {s1, s2}
    MaxRequests = 3
    OldTokens = 1
    SessionLimit = 1
    MaxFailures = 2
    IpThreshold = 2
    RefreshMax = 1
    MaxConcurrency = 1
    MaxEvents = 1
INVARIANTS ChallengeUsedOnce RevokedIsFinal NeverOvercounted
CHECK_DEADLOCK FALSE
PROPERTIES LockoutEnds

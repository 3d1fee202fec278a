SPECIFICATION FairIndexerSpec
CONSTANTS
    Chain <- MCChain
    Subscriptions = {w1}
    Old = {w1}
    PageLimit = 2
    DispatchLimit = 2
    REPLAY_CHUNK_SIZE = 2
    INDEX_FROM_LEDGER = 0
    INITIAL_BACKFILL_LEDGERS = 1
    MAX_BACKOFF = 2
    MAX_CONSECUTIVE_SKIPS = 1
    MaxAttempts = 2
    RetryAfter = {3}
    ReplayRanges <- MCRanges
    Unset = Unset
    Allowed <- MCAllowed
    MaxAllowed = 2
INVARIANTS DeliveriesMatchRows BoundedPosts PassedIsIndexed
PROPERTIES FirstPageIndexed

CONSTANTS
    Holders = {h1, h2, h3}
    ahead = h1
    MaxConcurrent = 2
    Window = 6
    MaxSkew = 1
    skew <- MCSkew
    Misses = 1
SPECIFICATION FairSpec
INVARIANTS
    RunningHoldsSlot
PROPERTIES
    ImplementsSlots
    DeadSlotReclaimed

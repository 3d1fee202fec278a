CONSTANTS
    j1 = j1
    j2 = j2
    j3 = j3
    e1 = e1
    Jobs = {j1, j2, j3}
    Events = {e1}
    NoEvent = none
    eventOf <- MCEventOf
    Dedup = TRUE
    MaxAttempts = 3
    Budget <- FaultBudget
SPECIFICATION FairDeliverySpec
INVARIANTS
    AtMostOncePerKey
PROPERTIES
    PlainJobsDelivered
CHECK_DEADLOCK FALSE

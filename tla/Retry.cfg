CONSTANTS
    Rows <- MCRows4
    Requests = {q1, q2}
    Overtakable = {1}
    MaxRetries = 1
SPECIFICATION Spec
INVARIANTS
    OneWinnerPerVersion
    SupersededIsFailed
    ChainWithinLimit
CHECK_DEADLOCK FALSE
SYMMETRY RequestSymmetry

SPECIFICATION Spec
CONSTANTS
    Slots = {s1, s2}
    MaxRequests = 3
    PayIds = {p0, p1, p2}
    Old = p0
    Keys = {k}
    NoKey = NoKey
    None = None
    Settings = {x}
    MaxFaults = 1
SYMMETRY Symmetry
INVARIANTS RetriesSeeOnePayment AnsweredChangesHold ReportedCancelled
PROPERTIES FinalUnlessOvertaken
CHECK_DEADLOCK FALSE

CONSTANTS
    MaxJobs = 4
    Endpoints = {"e1", "e2"}
    None = None
    Late = FALSE
    Hasty = FALSE
    Holds = TRUE
SPECIFICATION MCSpec
CHECK_DEADLOCK FALSE
INVARIANTS ToldOfEnds NetworkSafe
PROPERTIES GoneForGood ShutsDown CallsReturn

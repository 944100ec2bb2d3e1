CONSTANTS
    Streams = {s1, s2}
    SWindow = 2
    CWindow = 2
    MaxBytes = 2
    MaxPauses = 0
    Throws = FALSE
SPECIFICATION FairSpec
CHECK_DEADLOCK FALSE
PROPERTIES Flows

CONSTANTS
    Streams = {s1, s2}
    SWindow = 1
    CWindow = 1
    MaxBytes = 2
    MaxPauses = 2
    Throws = TRUE
    MaxSends = 4
    MaxRetries = 1
    MaxChanges = 1
    Sizes = {1, 3, 5}
    Pieces = {2, 3}
    Lookaheads = {0, 2}
    Splitting = TRUE
    ZeroRtt = FALSE
    QueueLimit = 6
    U16 = 8
SPECIFICATION MCSpec
CHECK_DEADLOCK FALSE
INVARIANTS FlowInv InOrderNoneLost QueueIsTrue
PROPERTIES FlowsPaused AllGetsSent Drains

CONSTANTS
    MaxSends = 4
    MaxSize = 2
    MaxOffer = 2
    Marks <- MCMarks
    HadNotify = TRUE
    ZeroRtt = TRUE
    Simultaneous = 3
    Total = 7
SPECIFICATION MCSpec
CHECK_DEADLOCK FALSE
INVARIANTS IndInv AckWithinSent ChunksKept
PROPERTIES Implements

CONSTANTS
    p1 = p1
    p2 = p2
    bt = bt
    None = None
    Strms = {p1, p2, bt}
    BT = {bt}
    MaxRemote = 2
    MaxLocal = 2
    Slots = 1
    Client = TRUE
    InOrder = TRUE
    Rejects = FALSE
    InDrop = FALSE
SPECIFICATION MCSpec
CHECK_DEADLOCK FALSE
SYMMETRY Symmetry
INVARIANTS StreamsInStep ClosedExactlyOnce SlotsAndIdsKept

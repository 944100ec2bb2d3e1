SPECIFICATION MCSpec
CONSTANTS
    c1 = c1  c2 = c2  c3 = c3
    Conns = {c1, c2, c3}
    NoConn = NoConn
    Sizes = {1, 2}
    MAX_BATCH = 2
    Quantum = 3
    MaxPackets = 3
    manual_routing = FALSE
SYMMETRY Symmetry
CHECK_DEADLOCK FALSE
INVARIANTS NobodyForgotten InOrderOnce
PROPERTIES DeadSendNothing FlushSound

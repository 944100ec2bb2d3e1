SPECIFICATION MCSpec
CONSTANTS
    k1 = k1  k2 = k2  k3 = k3  d1 = d1  d2 = d2  t1 = t1
    MaxConns = 3
    RandomCids = {k1, k2, k3}
    ClientCids = {d1, d2}
    Tokens = {t1}
    None = None
    Collide = FALSE
    Throws = TRUE
    Remotes = {"r1"}
    Second = 2
    Validity = {6}
    Window = 2
    NoTicket = NoTicket
    MaxTickets = 4
    MaxTime = 4
    MaxHandshakes = 3
SYMMETRY Symmetry
CHECK_DEADLOCK FALSE
INVARIANTS LookupInv ReplaysBounded
PROPERTIES NeverResetOwn

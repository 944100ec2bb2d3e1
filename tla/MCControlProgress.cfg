CONSTANTS
    a1 = a1  a2 = a2  a3 = a3
    Addrs = {a1, a2, a3}
    NAT64 = NAT64
    None = None
    MaxCids = 2
    MaxChanges = 4
    Refusals = TRUE
SPECIFICATION MCSpec
CHECK_DEADLOCK FALSE
INVARIANTS MigrationInv
PROPERTIES SettlesOnRoute EventuallyAnswered Woken

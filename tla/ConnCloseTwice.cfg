CONSTANT MaxJobs = 3
SPECIFICATION Spec
CHECK_DEADLOCK FALSE
INVARIANTS ClosedOnce

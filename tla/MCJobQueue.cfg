SPECIFICATION MCSpec
CONSTANTS
  Loop = Loop
  Idle = Idle
  t1 = t1
  t2 = t2
  u1 = u1
  u2 = u2
  Jobs = {"j1", "j2", "j3", "j4"}
  Timers = {t1, t2}
  Users = {u1, u2}
  MaxCalls = 6
  CanStop = TRUE
CHECK_DEADLOCK FALSE
INVARIANTS JobsInOrder TimersKept RemovedIsQuietApart

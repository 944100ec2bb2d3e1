----------------------------- MODULE MCJobQueue -----------------------------
(* JobQueue for model checking, with the threads that use a timer's id as the  *)
(* callers may have it: jobs from two threads and no timers, timers used on    *)
(* the loop only, two threads with a timer each, and one timer that every      *)
(* thread uses.  `focus` says which.                                           *)
EXTENDS JobQueue

CONSTANTS t1, t2, u1, u2

VARIABLE focus

\* Who uses the timers' ids.
MCOwner ==
    CASE focus = "submit"  -> [t \in Timers |-> {}]
      [] focus = "on loop" -> [t \in Timers |-> {Loop}]
      [] focus = "apart"   -> [t \in Timers |-> IF t = t1 THEN {u1} ELSE {u2}]
      [] focus = "shared"  -> [t \in Timers |-> IF t = t1 THEN Threads ELSE {}]

MCInit ==
    /\ focus \in {"submit", "on loop", "apart", "shared"}
    /\ owner = MCOwner
    /\ Init

\* With timers there are fewer jobs, threads or calls.
MCNext ==
    /\ Next /\ UNCHANGED focus
    /\ focus = "on loop" => submitted' \in {<<>>, <<"j1">>} /\ op'[u2] = NoCall
    /\ focus = "apart" => submitted' = <<>> /\ calls' <= 4
    /\ focus = "shared" => submitted' = <<>> /\ calls' <= 5

MCSpec == MCInit /\ [][MCNext]_<<focus, vars>>
=============================================================================

----------------------------- MODULE MCShutdown -----------------------------
(* Ending things, for model checking: a connection, accepted or opened, with    *)
(* and without early data and failing sends; the endpoints and the Network,     *)
(* which shares its loop or owns it; and the jobs of a loop, with the calls of  *)
(* other threads that wait for it, until the loop is stopped.  The three share  *)
(* no variables, so each is explored with the others at rest: `focus` says      *)
(* which.                                                                       *)
EXTENDS ConnClose, NetworkLife

VARIABLES focus,
    j_running, queue, batch, waker, registry, registry_stopped, one_shot, armed, repeats, active, at,
    op, calls, submitted, started, dropped, used, fired, j_halted, removed, quit, clash

jvars == <<j_running, queue, batch, waker, registry, registry_stopped, one_shot, armed, repeats, active,
           at, op, calls, submitted, started, dropped, used, fired, j_halted, removed, quit, clash>>

JQ == INSTANCE JobQueue WITH
        Jobs <- {"j1", "j2"}, Timers <- {"t1"}, Users <- {"u1"}, Loop <- "loop", Idle <- "nobody",
        MaxCalls <- 3, CanStop <- TRUE,
        owner <- [t \in {"t1"} |-> {"u1", "loop"}], running <- j_running, halted <- j_halted

MCInit ==
    /\ focus \in {"connection", "network", "loop"}
    /\ Init /\ NetworkInit /\ JQ!Init
    /\ focus # "network" => own_loop
    /\ focus # "connection" => inbound /\ early /\ drops

MCNext ==
    /\ UNCHANGED focus
    /\ \/ focus = "connection" /\ Next /\ UNCHANGED <<networkVars, jvars>>
       \/ focus = "network" /\ NetworkNext /\ UNCHANGED <<vars, jvars>>
       \/ focus = "loop" /\ JQ!Next /\ UNCHANGED <<vars, networkVars>>

\* The fairness of the three FairSpecs, each while its part is explored.
MCSpec ==
    /\ MCInit /\ [][MCNext]_<<focus, vars, networkVars, jvars>>
    /\ WF_vars(focus = "connection" /\ Jobs) /\ WF_vars(focus = "connection" /\ Cleanup)
    /\ WF_networkVars(focus = "network" /\ AppStep)
    /\ SF_networkVars(focus = "network" /\ RunJob)
    /\ WF_networkVars(focus = "network" /\ EndJob)
    /\ WF_networkVars(focus = "network" /\ Unlock)
    /\ WF_jvars(focus = "loop" /\ JQ!LoopStep) /\ SF_jvars(focus = "loop" /\ JQ!WakerFires)
    /\ SF_jvars(focus = "loop" /\ JQ!Dispatch("t1"))
    /\ SF_jvars(focus = "loop" /\ JQ!UserStep("u1")) /\ SF_jvars(focus = "loop" /\ JQ!MainQueueStops("u1"))

-----------------------------------------------------------------------------
\* A connection that is closing, draining or dead leaves the endpoint, also when
\* sends fail and it is dropped; once it has, no hook and no timer of it runs.
GoneForGood == GoneIsFinal /\ (focus = "connection" => EventuallyGone)

\* ~Network ends, and by then every endpoint is gone for good.
ShutsDown == focus = "network" => DestructorEnds

\* A call from another thread returns: it does not wait for ever for a job, for a
\* callback or for JobQueue::stop() to get its turn; and a job that was accepted
\* is run, or stop() drops it.
CallsReturn == focus = "loop" => JQ!CallsReturn /\ JQ!JobsEnd
=============================================================================

---------------------------- MODULE NetworkLife ----------------------------
(***************************************************************************)
(* Who owns an endpoint, and the shutdown of a Network (network.cpp).  The *)
(* Network and the application hold shared pointers to each endpoint.      *)
(* Closing is done by jobs of the loop: close() waits for its job,         *)
(* close_soon() does not.  The last owner to let go has ~Endpoint run on   *)
(* the loop (JobQueue::loop_deleter), and waits for it if it is another    *)
(* thread.  Callbacks of the endpoint's own queue hold it while they run.  *)
(*                                                                         *)
(* One application thread and the loop thread; the thread's calls are      *)
(* split where the loop can run in between.  The application keeps to      *)
(* network.hpp: no endpoint outlives the Network, and nothing but its end  *)
(* follows close() or close_soon().                                        *)
(***************************************************************************)
EXTENDS Naturals, Sequences

CONSTANTS
    Endpoints,
    None,
    Late,         \* endpoints are created while others are being closed
    Hasty,        \* set_shutdown_immediate and close_soon are both used
    Holds         \* the endpoints' own callbacks run (timers, queued jobs)

ASSUME NetworkAssumption == None \notin Endpoints

VARIABLES
    own_loop,     \* the Network has the only reference to its Loop, from the beginning to the end
    state,        \* of each endpoint: "none", "live", or "gone" after ~Endpoint
    conns,        \* its connections: "none", "open" (some are), "closed" (all are)
    endpoints,    \* Network::endpoints
    held,         \* endpoints the application has a pointer to
    net,          \* the Network: "up", "down" in ~Network, "gone" with its members
    shut,         \* close() or close_soon() has been called
    shutdown_immediate,
    net_jobs,     \* the loop's main queue
    running,      \* the job the loop runs
    locked,       \* the endpoint whose callback the loop runs
    app           \* what the application thread has left to do, innermost first

thread == <<net, shut, held, app>>
loop == <<net_jobs, running, locked>>
networkVars == <<own_loop, state, conns, endpoints, shutdown_immediate, thread, loop>>

\* A job: what it does, to which endpoint, does it own it, does the application wait for it.
Job(do, ep, owns, get) == [do |-> do, ep |-> ep, owns |-> owns, get |-> get]
NetJobs == [do : {"close_ep", "close_all", "close_soon", "delete", "stop"}, ep : Endpoints \cup {None},
            owns : BOOLEAN, get : BOOLEAN]
NoJob == Job("stop", None, FALSE, FALSE)

\* Steps of the application thread.
Step(op, ep) == [op |-> op, ep |-> ep]
Steps == [op : {"insert", "close_ep", "close_all", "delete", "stop", "wait", "reset", "clear", "clearing",
                "immediate", "members", "unloop"}, ep : Endpoints \cup {None}]

NetworkType ==
    /\ state \in [Endpoints -> {"none", "live", "gone"}] /\ conns \in [Endpoints -> {"none", "open", "closed"}]
    /\ endpoints \subseteq Endpoints /\ held \subseteq Endpoints /\ own_loop \in BOOLEAN
    /\ net \in {"up", "down", "gone"} /\ shut \in BOOLEAN /\ shutdown_immediate \in BOOLEAN
    /\ net_jobs \in Seq(NetJobs) /\ running \in NetJobs /\ locked \in Endpoints \cup {None} /\ app \in Seq(Steps)

NetworkInit ==
    /\ own_loop \in BOOLEAN
    /\ state = [e \in Endpoints |-> "none"] /\ conns = state /\ endpoints = {} /\ held = {}
    /\ net = "up" /\ shut = FALSE /\ shutdown_immediate = FALSE
    /\ net_jobs = <<>> /\ running = NoJob /\ locked = None /\ app = <<>>

-----------------------------------------------------------------------------
(* Pointers to endpoints, and their end.                                   *)

Owns(j, e) == j.owns /\ j.ep = e

\* The loop has a pointer to e, apart from the one of the job it runs.
LoopOwns(e) == locked = e \/ \E i \in DOMAIN net_jobs : Owns(net_jobs[i], e)

\* _close_conns of the endpoints closing, then ~Endpoint, which does the same, of the endpoints gone.
Destroy(gone, closing) ==
    /\ state' = [e \in Endpoints |-> IF e \in gone THEN "gone" ELSE state[e]]
    /\ conns' = [e \in Endpoints |-> IF e \in gone \cup closing /\ conns[e] = "open" THEN "closed" ELSE conns[e]]

\* The application thread lets go of e.  If that was the last pointer the deleter hands the endpoint
\* to the loop and waits.
loop_deleter(e, rest) ==
    IF e \in endpoints' \/ e \in held' \/ LoopOwns(e) \/ Owns(running, e)
    THEN rest ELSE <<Step("delete", e)>> \o rest

-----------------------------------------------------------------------------
(* The application's calls.                                                *)

\* The application may call the Network.
Free == net = "up" /\ app = <<>> /\ ~shut

Settled == net_jobs = <<>> /\ running = NoJob

\* Network::endpoint: the endpoint is made, then inserted.
endpoint(e) ==
    /\ Free /\ state[e] = "none" /\ (Late \/ Settled)
    /\ state' = [state EXCEPT ![e] = "live"]
    /\ app' = <<Step("insert", e)>>
    /\ UNCHANGED <<own_loop, conns, endpoints, shutdown_immediate, net, shut, held, loop>>

\* close(endpoint): the closing job, then the caller's pointer is reset.
close_endpoint(e) ==
    /\ Free /\ e \in held
    /\ app' = <<Step("close_ep", e), Step("reset", e)>>
    /\ UNCHANGED <<own_loop, state, conns, endpoints, shutdown_immediate, net, shut, held, loop>>

\* close_soon(endpoint): the pointer moves into the job.
close_soon_endpoint(e) ==
    /\ Free /\ e \in held /\ (Hasty \/ ~shutdown_immediate)
    /\ held' = held \ {e}
    /\ net_jobs' = Append(net_jobs, Job("close_ep", e, TRUE, FALSE))
    /\ UNCHANGED <<own_loop, state, conns, endpoints, shutdown_immediate, net, shut, app, running, locked>>

\* What close() does.
CloseSteps == <<Step("close_all", None), Step("clear", None), Step("immediate", None)>>

close ==
    /\ Free
    /\ shut' = TRUE
    /\ app' = CloseSteps
    /\ UNCHANGED <<own_loop, state, conns, endpoints, shutdown_immediate, net, held, loop>>

close_soon ==
    /\ Free /\ (Hasty \/ ~shutdown_immediate)
    /\ shut' = TRUE
    /\ net_jobs' = Append(net_jobs, Job("close_soon", None, FALSE, FALSE))
    /\ UNCHANGED <<own_loop, state, conns, endpoints, shutdown_immediate, net, held, app, running, locked>>

set_shutdown_immediate ==
    /\ Free /\ ~shutdown_immediate /\ (Hasty \/ Settled)
    /\ shutdown_immediate' = TRUE
    /\ UNCHANGED <<own_loop, state, conns, endpoints, thread, loop>>

\* The application lets go of an endpoint.
Release(e) ==
    /\ net = "up" /\ app = <<>> /\ e \in held
    /\ app' = <<Step("reset", e)>>
    /\ UNCHANGED <<own_loop, state, conns, endpoints, shutdown_immediate, net, shut, held, loop>>

\* Mutant: ~Network does not close().
Destructor_bare == <<Step("clear", None), Step("members", None), Step("unloop", None)>>

\* ~Network: close() unless the shutdown is immediate, then the members, the loop last.
Destructor ==
    IF shutdown_immediate THEN <<Step("clear", None), Step("members", None), Step("unloop", None)>>
    ELSE <<Step("close_all", None), Step("clear", None), Step("immediate", None), Step("clear", None),
           Step("members", None), Step("unloop", None)>>

DestroyNetwork ==
    /\ net = "up" /\ app = <<>> /\ held = {}
    /\ net' = "down"
    /\ app' = Destructor
    /\ UNCHANGED <<own_loop, state, conns, endpoints, shutdown_immediate, shut, held, loop>>

-----------------------------------------------------------------------------
(* The application thread within a call.                                   *)

Op == app[1].op

\* The insertion ends; the caller may keep the pointer it gets.
Insert ==
    /\ Op = "insert"
    /\ endpoints' = endpoints \cup {app[1].ep}
    /\ \E keep \in {{}, {app[1].ep}} : held' = held \cup keep
    /\ app' = Tail(app)
    /\ UNCHANGED <<own_loop, state, conns, shutdown_immediate, net, shut, loop>>

\* call_get: the job is queued and the thread waits.
call_get ==
    /\ Op \in {"close_ep", "close_all", "delete", "stop"}
    /\ net_jobs' = Append(net_jobs, Job(Op, app[1].ep, FALSE, TRUE))
    /\ app' = <<Step("wait", None)>> \o Tail(app)
    /\ UNCHANGED <<own_loop, state, conns, endpoints, shutdown_immediate, net, shut, held, running, locked>>

\* A pointer of the application's is reset.
Reset ==
    /\ Op = "reset"
    /\ held' = held \ {app[1].ep} /\ UNCHANGED endpoints
    /\ app' = loop_deleter(app[1].ep, Tail(app))
    /\ UNCHANGED <<own_loop, state, conns, shutdown_immediate, net, shut, loop>>

\* endpoints.clear(), or the set's destructor: one element after the other, to the end.
Clear ==
    /\ Op \in {"clear", "clearing"}
    /\ UNCHANGED <<own_loop, state, conns, shutdown_immediate, net, shut, held, loop>>
    /\ \/ endpoints = {} /\ app' = Tail(app) /\ UNCHANGED endpoints
       \/ \E e \in endpoints :
             /\ endpoints' = endpoints \ {e}
             /\ app' = loop_deleter(e, <<Step("clearing", None)>> \o Tail(app))

\* close() ends with set_shutdown_immediate(); ~Network ends its members and drops the loop, whose
\* destructor stops the main queue if this was the last pointer.
Finish ==
    /\ \/ Op = "immediate" /\ shutdown_immediate' = TRUE /\ app' = Tail(app) /\ UNCHANGED net
       \/ Op = "members" /\ net' = "gone" /\ app' = Tail(app) /\ UNCHANGED shutdown_immediate
       \/ Op = "unloop" /\ app' = (IF own_loop THEN <<Step("stop", None)>> ELSE <<>>)
          /\ UNCHANGED <<net, shutdown_immediate>>
    /\ UNCHANGED <<own_loop, state, conns, endpoints, shut, held, loop>>

AppStep == app # <<>> /\ (Insert \/ call_get \/ Reset \/ Clear \/ Finish)

-----------------------------------------------------------------------------
(* The loop thread.                                                        *)

LoopIdle == running = NoJob /\ locked = None

RunJob ==
    /\ LoopIdle /\ net_jobs # <<>>
    /\ running' = Head(net_jobs) /\ net_jobs' = Tail(net_jobs)
    /\ UNCHANGED <<own_loop, state, conns, endpoints, shutdown_immediate, thread, locked>>

\* Endpoints whose connections the running job closes.
Closing == CASE running.do \in {"close_all", "close_soon"} -> endpoints
             [] running.do = "close_ep" -> {running.ep}
             [] OTHER -> {}

\* Endpoints that it removes from the Network.
Removed == CASE running.do = "close_soon" -> endpoints
             [] running.do = "close_ep" -> {running.ep}
             [] OTHER -> {}

\* Mutant: the pointer that moved into a job is not dropped with it.
Dropped_leak == Removed \ {e \in Endpoints : Owns(running, e)}

\* Endpoints of which it lets go of a pointer.
Dropped == Removed \cup (IF running.do = "stop" THEN {e \in Endpoints : LoopOwns(e)} ELSE {})

\* The running job ends, and with it the wait of the application if it was a call_get.
EndJob ==
    LET left == IF running.do = "stop" THEN <<>> ELSE net_jobs
        orphans == {e \in Dropped : /\ e \notin held /\ e \notin (endpoints \ Removed)
                                    /\ ~\E i \in DOMAIN left : Owns(left[i], e)}
    IN  /\ running # NoJob
        /\ endpoints' = endpoints \ Removed
        /\ Destroy(IF running.do = "delete" THEN {running.ep} ELSE orphans, Closing)
        /\ shutdown_immediate' = (shutdown_immediate \/ running.do = "close_soon")
        /\ net_jobs' = left /\ running' = NoJob /\ UNCHANGED locked
        /\ app' = IF running.get THEN Tail(app) ELSE app
        /\ UNCHANGED <<own_loop, net, shut, held>>

\* A callback of e's own queue locks its weak pointer, and lets go of it.
Lock(e) ==
    /\ Holds /\ LoopIdle /\ state[e] = "live"
    /\ e \in endpoints \cup held \/ LoopOwns(e)
    /\ locked' = e
    /\ UNCHANGED <<own_loop, state, conns, endpoints, shutdown_immediate, thread, net_jobs, running>>

Unlock ==
    /\ locked # None
    /\ locked' = None
    /\ Destroy({locked} \ (endpoints \cup held \cup {e \in Endpoints : \E i \in DOMAIN net_jobs : Owns(net_jobs[i], e)}), {})
    /\ UNCHANGED <<own_loop, endpoints, shutdown_immediate, thread, net_jobs, running>>

\* A connection is made, either way.
Connected(e) ==
    /\ LoopIdle /\ state[e] = "live" /\ conns[e] # "open"
    /\ conns' = [conns EXCEPT ![e] = "open"]
    /\ UNCHANGED <<own_loop, state, endpoints, shutdown_immediate, thread, loop>>

Done == net = "gone" /\ app = <<>> /\ Settled /\ LoopIdle /\ UNCHANGED networkVars

NetworkNext ==
    \/ \E e \in Endpoints : endpoint(e) \/ close_endpoint(e) \/ close_soon_endpoint(e) \/ Release(e)
    \/ close \/ close_soon \/ set_shutdown_immediate \/ DestroyNetwork
    \/ AppStep \/ RunJob \/ EndJob \/ Unlock
    \/ \E e \in Endpoints : Lock(e) \/ Connected(e)
    \/ Done

NetworkSpec == NetworkInit /\ [][NetworkNext]_networkVars

\* The threads are scheduled; a pass of the loop takes every event that is active, so callbacks of
\* endpoints do not keep the main queue from running.
NetworkFair ==
    /\ NetworkSpec
    /\ WF_networkVars(AppStep) /\ SF_networkVars(RunJob)
    /\ WF_networkVars(EndJob) /\ WF_networkVars(Unlock)

-----------------------------------------------------------------------------
\* No endpoint goes away with connections open: those made after close() closed the others, or
\* while a close_soon() waits, are closed by ~Endpoint.
NoneAbandoned == \A e \in Endpoints : state[e] = "gone" => conns[e] # "open"

\* An endpoint is alive for as long as the Network, the application, a job or a callback has a
\* pointer to it.
OwnedLive ==
    \A e \in Endpoints : e \in endpoints \/ e \in held \/ LoopOwns(e) \/ Owns(running, e) => state[e] = "live"

\* The jobs that are queued or running.
Line == {running} \cup {net_jobs[i] : i \in DOMAIN net_jobs}

\* Jobs that work on the Network (they capture `this`), and those that do not.
Quiet(j) == j.do \in {"delete", "stop"}
AllQuiet == \A j \in Line : Quiet(j)

\* No job that works on the Network is left when its members are gone: ~Network's own closing job
\* comes behind them all, unless the application had set an immediate shutdown before one.
NoDangling == ~Hasty /\ net = "gone" => AllQuiet

\* The two threads never change or read Network::endpoints, which no lock guards, at the same time:
\* not while it is cleared, and not while an endpoint is inserted when none is being closed.
NoRace ==
    ~Quiet(running) =>
        \A i \in DOMAIN app : (~Hasty => app[i].op # "clearing") /\ (~Late => app[i].op # "insert")

\* No endpoint goes away with connections open or with a pointer to it left; unless an immediate
\* shutdown is mixed with close_soon, no job that works on the Network is left when its members are
\* gone and the two threads never work on Network::endpoints at the same time, insertions apart if
\* endpoints are created while others are being closed.
NetworkSafe == NetworkType /\ NoneAbandoned /\ OwnedLive /\ NoDangling /\ NoRace

\* ~Network ends, and by then every endpoint is gone for good.
DestructorEnds == net = "down" ~> (app = <<>> /\ \A e \in Endpoints : state[e] # "live")

=============================================================================

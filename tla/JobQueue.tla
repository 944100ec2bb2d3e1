------------------------------ MODULE JobQueue ------------------------------
(***************************************************************************)
(* JobQueue (loop.hpp, loop.cpp): the queue of jobs and the registry of    *)
(* timers that every component uses to get onto the event loop's thread.   *)
(*                                                                         *)
(* Threads run concurrently with the loop thread.  A call that takes a     *)
(* mutex once is one step; a call that looks an entry up under the         *)
(* registry mutex and then talks to libevent is one step for the lookup    *)
(* and one for each libevent call, because nothing is held in between but  *)
(* a reference to the entry.  What is left of a call is the sequence       *)
(* op[p].todo; the reference is dropped when the call returns.             *)
(*                                                                         *)
(* libevent is external: an event has a timeout (armed), a remembered      *)
(* interval (repeats) and a place on the active list (active).  Time is    *)
(* abstract: an armed timer may expire at any moment.                      *)
(***************************************************************************)
EXTENDS Naturals, Sequences, Functions

CONSTANTS
    Jobs,        \* the jobs that may be queued, each at most once
    Timers,      \* the timer ids that may be handed out, each at most once
    Users,       \* threads other than the loop's
    Loop,        \* the loop thread
    Idle,        \* a thread that is in no call
    MaxCalls,    \* bound: calls into the queue in one behaviour
    CanStop      \* whether JobQueue::stop() is among the calls

\* The names of things are distinct.
ASSUME JobQueueAssumption ==
    /\ MaxCalls \in Nat
    /\ CanStop \in BOOLEAN
    /\ Loop \notin Users
    /\ Idle \notin Jobs \cup Timers
    /\ Jobs \cap Timers = {} /\ Users \cap (Jobs \cup Timers) = {}
    /\ {"idle", "waker", "jobs"} \cap (Jobs \cup Timers \cup Users) = {}

VARIABLES
    owner,            \* owner[t]: the threads that use timer t's id, the same throughout
    running,          \* *running
    queue,            \* job_queue
    batch,            \* swapped_queue of process_job_queue
    waker,            \* job_waker is on libevent's active list
    registry,         \* ids in registry
    registry_stopped,
    one_shot,         \* entries made by call_later
    armed,            \* entries with a timeout pending
    repeats,          \* entries whose event remembers an interval
    active,           \* entries on libevent's active list
    at,               \* what the loop thread is running
    op,               \* the call each thread is in
    calls,            \* calls made so far
    submitted,        \* jobs accepted, in order
    started,          \* jobs run, in order
    dropped,          \* jobs destroyed without being run
    used,             \* timer ids handed out
    fired,            \* fired[t]: times t's callback was started, up to 2
    halted,           \* timers descheduled by stop or repeat since they were last given an interval
    removed,          \* timers whose remove() returned on a thread of Users
    quit,             \* JobQueue::stop() returned on a thread of Users
    clash             \* timers whose event event_assign met scheduled or running

jobVars == <<running, queue, batch, waker, submitted, started, dropped>>
timerVars == <<registry, registry_stopped, one_shot, used>>
eventVars == <<armed, repeats, active, clash>>
ghosts == <<fired, halted, removed, quit>>
vars == <<owner, jobVars, timerVars, eventVars, ghosts, at, op, calls>>

Threads == Users \cup {Loop}
NoCall == [name |-> "none", on |-> Idle, todo |-> <<>>]
LibCalls == {"add", "add0", "del", "assign", "activate", "jobs", "registry"}
Names == {"none", "add_entry", "wake", "repeat", "stop", "remove", "disposal", "call_get", "quit"}

\* What a call may have left to do, and what it may be on, by what call it is.
Left(name) ==
    CASE name = "add_entry" -> {<<"add">>, <<"add0">>, <<>>}
      [] name = "wake" -> {<<"activate">>, <<>>}
      [] name = "repeat" -> {<<"add">>, <<"add", "activate">>, <<"activate">>, <<>>}
      [] name = "stop" -> {<<"del", "assign">>, <<"del", "assign", "activate">>, <<"assign">>,
                           <<"assign", "activate">>, <<"activate">>, <<>>}
      [] name \in {"remove", "disposal"} -> {<<"del">>, <<>>}
      [] name = "quit" -> {<<"jobs", "registry">>, <<"registry">>, <<>>}
      [] name \in {"none", "call_get"} -> {<<>>}
OnWhat(name) ==
    CASE name = "call_get" -> Jobs
      [] name \in {"none", "quit"} -> {Idle}
      [] OTHER -> used

TypeOK ==
    /\ running \in BOOLEAN /\ waker \in BOOLEAN /\ registry_stopped \in BOOLEAN
    /\ quit \in BOOLEAN /\ clash \subseteq used /\ owner \in [Timers -> SUBSET Threads]
    /\ queue \in Seq(Jobs) /\ batch \in Seq(Jobs)
    /\ submitted \in Seq(Jobs) /\ started \in Seq(Jobs) /\ dropped \subseteq Jobs
    /\ registry \subseteq used /\ one_shot \subseteq used /\ used \subseteq Timers
    /\ armed \subseteq used /\ repeats \subseteq used /\ active \subseteq used
    /\ halted \subseteq used /\ removed \subseteq used
    /\ fired \in [Timers -> 0..2] /\ calls \in 0..MaxCalls
    /\ at \in {"idle", "waker", "jobs"} \cup Jobs \cup Timers \cup Users
    /\ op \in [Threads -> [name : Names, on : Jobs \cup Timers \cup {Idle}, todo : Seq(LibCalls)]]
    /\ \A p \in Threads : op[p].on \in OnWhat(op[p].name) /\ op[p].todo \in Left(op[p].name)
    /\ registry_stopped => ~running
    /\ running \/ (queue = <<>> /\ ~waker)

Init ==
    /\ running = TRUE /\ waker = FALSE /\ registry_stopped = FALSE
    /\ queue = <<>> /\ batch = <<>> /\ submitted = <<>> /\ started = <<>> /\ dropped = {}
    /\ registry = {} /\ one_shot = {} /\ used = {}
    /\ armed = {} /\ repeats = {} /\ active = {}
    /\ halted = {} /\ removed = {} /\ fired = [t \in Timers |-> 0]
    /\ at = "idle" /\ op = [p \in Threads |-> NoCall] /\ calls = 0
    /\ quit = FALSE /\ clash = {} /\ owner \in [Timers -> SUBSET Threads]

-----------------------------------------------------------------------------
\* Code on a thread of Users runs whenever it likes; code on the loop's runs inside a job or
\* a timer's callback.
MayCall(p) ==
    /\ op[p] = NoCall
    /\ calls < MaxCalls
    /\ p = Loop => at \in Jobs \cup Timers

Enter(p, name, on, todo) ==
    /\ op' = [op EXCEPT ![p] = [name |-> name, on |-> on, todo |-> todo]]
    /\ calls' = calls + 1

\* A call that has something else left to do.
LeftWith(c, todo) == [name |-> c.name, on |-> c.on, todo |-> todo]

\* The threads that hold a reference to t's entry.
Holders(t) == {p \in Threads : op[p].on = t}

-----------------------------------------------------------------------------
\* Jobs.

\* What call_soon does with its mutex held, once it has seen that the queue runs.
Enqueue(j) ==
    /\ queue' = Append(queue, j)
    /\ submitted' = Append(submitted, j)
    /\ waker' = TRUE

call_soon(p, j) ==
    /\ MayCall(p) /\ j \notin Range(submitted)
    /\ running                  \* else it throws and changes nothing
    /\ Enqueue(j)
    /\ calls' = calls + 1
    /\ UNCHANGED <<running, batch, started, dropped, timerVars, eventVars, ghosts, at, op>>

\* On the loop thread call_get is a plain function call.
call_get(u, j) ==
    /\ MayCall(u) /\ j \notin Range(submitted)
    /\ running
    /\ Enqueue(j)
    /\ Enter(u, "call_get", j, <<>>)
    /\ UNCHANGED <<running, batch, started, dropped, timerVars, eventVars, ghosts, at>>

\* The future is ready: the job ran, or it was destroyed and its promise with it.
Answered(j) == (j \in Range(started) /\ at # j) \/ j \in dropped

call_get_returns(u) ==
    /\ op[u].name = "call_get" /\ Answered(op[u].on)
    /\ op' = [op EXCEPT ![u] = NoCall]
    /\ UNCHANGED <<jobVars, timerVars, eventVars, ghosts, at, calls>>

\* libevent takes job_waker off the active list and calls process_job_queue ...
WakerFires ==
    /\ at = "idle" /\ waker
    /\ waker' = FALSE
    /\ at' = "waker"
    /\ UNCHANGED <<running, queue, batch, submitted, started, dropped,
                   timerVars, eventVars, ghosts, op, calls>>

\* Mutant: the queue is copied and not emptied.
SwapQueueCopies ==
    /\ at = "waker"
    /\ batch' = queue
    /\ at' = "jobs"
    /\ UNCHANGED <<running, queue, waker, submitted, started, dropped,
                   timerVars, eventVars, ghosts, op, calls>>

\* ... which takes the queue whole ...
SwapQueue ==
    /\ at = "waker"
    /\ batch' = queue
    /\ queue' = <<>>
    /\ at' = "jobs"
    /\ UNCHANGED <<running, waker, submitted, started, dropped,
                   timerVars, eventVars, ghosts, op, calls>>

TakeJob ==
    /\ at' = batch[1]
    /\ started' = Append(started, batch[1])
    /\ batch' = Tail(batch)
    /\ UNCHANGED <<running, queue, waker, submitted, dropped, timerVars, eventVars, ghosts, op, calls>>

\* ... and runs its jobs one after the other while the canary says the queue still runs.
NextJob ==
    /\ at = "jobs" /\ batch # <<>> /\ running
    /\ TakeJob

\* The job returned or threw; an exception is caught and logged.
JobReturns ==
    /\ at \in Jobs /\ op[Loop] = NoCall
    /\ at' = "jobs"
    /\ UNCHANGED <<jobVars, timerVars, eventVars, ghosts, op, calls>>

\* Mutant: jobs left in the batch keep their promises alive.
BatchLeaks ==
    /\ at = "jobs" /\ (batch = <<>> \/ ~running)
    /\ batch' = <<>>
    /\ at' = "idle"
    /\ UNCHANGED <<running, queue, waker, submitted, started, dropped,
                   timerVars, eventVars, ghosts, op, calls>>

\* swapped_queue is destroyed with whatever is left in it.
BatchEnds ==
    /\ at = "jobs" /\ (batch = <<>> \/ ~running)
    /\ dropped' = dropped \cup Range(batch)
    /\ batch' = <<>>
    /\ at' = "idle"
    /\ UNCHANGED <<running, queue, waker, submitted, started, timerVars, eventVars, ghosts, op, calls>>

-----------------------------------------------------------------------------
\* Timers: the part of each call that runs under the registry mutex.  `todo' is what it then
\* asks of libevent with nothing but its reference to the entry.

\* add_timer (once = FALSE) and call_later (once = TRUE); delay is whether the interval is positive.
add_entry(p, t, once, delay) ==
    /\ MayCall(p) /\ p \in owner[t] /\ t \notin used
    /\ ~registry_stopped        \* else it throws
    /\ used' = used \cup {t}
    /\ registry' = registry \cup {t}
    /\ one_shot' = IF once THEN one_shot \cup {t} ELSE one_shot
    /\ Enter(p, "add_entry", t,
             IF delay THEN <<"add">> ELSE IF once THEN <<"add0">> ELSE <<>>)
    /\ UNCHANGED <<registry_stopped, jobVars, eventVars, ghosts, at>>

\* An id in the caller's hands that the registry knows; call_later hands out none.
Found(p, t) == MayCall(p) /\ p \in owner[t] /\ t \in registry \ one_shot

wake(p, t) ==
    /\ Found(p, t)
    /\ Enter(p, "wake", t, <<"activate">>)
    /\ UNCHANGED <<jobVars, timerVars, eventVars, ghosts, at>>

\* What setting an interval, and disarm, ask of libevent, and a wake after either.
Arm(now) == IF now THEN <<"add", "activate">> ELSE <<"add">>
Disarm(now) == IF now THEN <<"del", "assign", "activate">> ELSE <<"del", "assign">>

repeat(p, t, positive, now) ==
    /\ Found(p, t)
    /\ Enter(p, IF positive THEN "repeat" ELSE "stop", t,
             IF positive THEN Arm(now) ELSE Disarm(now))
    /\ halted' = IF positive THEN halted \ {t} ELSE halted
    /\ UNCHANGED <<jobVars, timerVars, eventVars, fired, removed, quit, at>>

stop_timer(p, t) ==
    /\ Found(p, t)
    /\ Enter(p, "stop", t, Disarm(FALSE))
    /\ UNCHANGED <<jobVars, timerVars, eventVars, ghosts, at>>

\* The entry leaves the registry; the caller has the last reference the queue had.
remove(p, t) ==
    /\ Found(p, t)
    /\ registry' = registry \ {t}
    /\ Enter(p, "remove", t, <<"del">>)
    /\ UNCHANGED <<registry_stopped, one_shot, used, jobVars, eventVars, ghosts, at>>

-----------------------------------------------------------------------------
\* libevent.

\* event_del waits for a callback that is running, unless the loop thread itself asks.
Unblocked(p, t) == p = Loop \/ at # t

\* The event remembers the interval it is given, unless that is zero.
event_add(t, positive) ==
    /\ armed' = armed \cup {t}
    /\ repeats' = IF positive THEN repeats \cup {t} ELSE repeats \ {t}
    /\ UNCHANGED <<active, clash>>

event_active(t) ==
    /\ active' = active \cup {t}
    /\ UNCHANGED <<armed, repeats, clash>>

\* Mutant: event_del_noblock.
event_del_noblock(p, t) ==
    /\ armed' = armed \ {t}
    /\ active' = active \ {t}
    /\ UNCHANGED <<repeats, clash>>

\* The remembered interval survives event_del.
event_del(p, t) ==
    /\ Unblocked(p, t)
    /\ armed' = armed \ {t}
    /\ active' = active \ {t}
    /\ UNCHANGED <<repeats, clash>>

\* event_assign forgets the interval.  On an event that is armed, active or running on the
\* other thread its effect is undefined, and nothing more is said about the event.
event_assign(p, t) ==
    /\ clash' = IF t \in armed \cup active \/ ~Unblocked(p, t) THEN clash \cup {t} ELSE clash
    /\ repeats' = repeats \ {t}
    /\ UNCHANGED <<armed, active>>

\* The next libevent call of a call on a timer.
LibStep(p) ==
    LET t == op[p].on IN
    /\ t \in Timers /\ op[p].todo # <<>>
    /\ CASE op[p].todo[1] = "add"      -> event_add(t, TRUE)
         [] op[p].todo[1] = "add0"     -> event_add(t, FALSE)
         [] op[p].todo[1] = "activate" -> event_active(t)
         [] op[p].todo[1] = "del"      -> event_del(p, t)
         [] op[p].todo[1] = "assign"   -> event_assign(p, t)
    /\ op' = [op EXCEPT ![p] = LeftWith(@, Tail(@.todo))]
    /\ UNCHANGED <<jobVars, timerVars, ghosts, at, calls>>

\* Mutant: the entry is forgotten and its event left with libevent.
DisposeLeaks(S) == UNCHANGED <<armed, active, repeats, clash>>

\* Entry::dispose for the entries of S: the event is finalized, which cancels it.
Dispose(S) ==
    /\ armed' = armed \ S
    /\ active' = active \ S
    /\ repeats' = repeats \ S
    /\ UNCHANGED clash

\* The call returns and its reference goes; the last one disposes of the entry.
Return(p) ==
    LET t == op[p].on IN
    /\ t \in Timers /\ op[p].todo = <<>>
    /\ Dispose(IF t \notin registry /\ Holders(t) = {p} THEN {t} ELSE {})
    /\ op' = [op EXCEPT ![p] = NoCall]
    /\ at' = IF op[p].name = "disposal" THEN "idle" ELSE at
    /\ halted' = IF op[p].name = "stop" THEN halted \cup {t} ELSE halted
    /\ removed' = IF op[p].name = "remove" /\ p \in Users THEN removed \cup {t} ELSE removed
    /\ UNCHANGED <<jobVars, timerVars, fired, quit, calls>>

\* The loop finds a timeout due and puts the event on the active list.
Expire(t) ==
    /\ at = "idle" /\ t \in armed
    /\ armed' = armed \ {t}
    /\ active' = active \cup {t}
    /\ UNCHANGED <<repeats, clash, jobVars, timerVars, ghosts, at, op, calls>>

\* The persist closure re-arms from the remembered interval, then calls Entry::dispatch.
Dispatch(t) ==
    /\ at = "idle" /\ t \in active
    /\ active' = active \ {t}
    /\ armed' = IF t \in repeats THEN armed \cup {t} ELSE armed
    /\ at' = t
    /\ fired' = [fired EXCEPT ![t] = IF @ < 2 THEN @ + 1 ELSE 2]
    /\ UNCHANGED <<repeats, clash, jobVars, timerVars, halted, removed, quit, op, calls>>

\* e->f() returned or threw; a one-shot that is still registered is then removed.
CallbackReturns(t) ==
    /\ at = t /\ op[Loop] = NoCall
    /\ IF t \in one_shot \cap registry
       THEN /\ registry' = registry \ {t}
            /\ op' = [op EXCEPT ![Loop] = [name |-> "disposal", on |-> t, todo |-> <<"del">>]]
            /\ UNCHANGED at
       ELSE /\ at' = "idle"
            /\ UNCHANGED <<registry, op>>
    /\ UNCHANGED <<jobVars, registry_stopped, one_shot, used, eventVars, ghosts, calls>>

-----------------------------------------------------------------------------
\* JobQueue::stop().

\* Inside a callback it runs at once; from another thread it is a job of the loop's main queue
\* and the caller waits for it.
stop(p) ==
    /\ CanStop /\ MayCall(p)
    /\ Enter(p, "quit", Idle, IF p = Loop THEN <<"jobs", "registry">> ELSE <<>>)
    /\ UNCHANGED <<jobVars, timerVars, eventVars, ghosts, at>>

MainQueueStops(u) ==
    /\ at = "idle" /\ op[u].name = "quit"
    /\ at' = u
    /\ op' = [op EXCEPT ![Loop] = [name |-> "quit", on |-> Idle, todo |-> <<"jobs", "registry">>]]
    /\ UNCHANGED <<jobVars, timerVars, eventVars, ghosts, calls>>

\* Under job_queue_mutex; the jobs dropped are destroyed before the registry is looked at.
StopJobs ==
    /\ op[Loop].name = "quit" /\ op[Loop].todo # <<>> /\ op[Loop].todo[1] = "jobs"
    /\ running' = FALSE
    /\ waker' = FALSE
    /\ dropped' = dropped \cup Range(queue)
    /\ queue' = <<>>
    /\ op' = [op EXCEPT ![Loop] = LeftWith(@, IF running THEN Tail(@.todo) ELSE <<>>)]
    /\ UNCHANGED <<batch, submitted, started, timerVars, eventVars, ghosts, at, calls>>

\* Under registry_mutex.
StopRegistry ==
    /\ op[Loop].name = "quit" /\ op[Loop].todo # <<>> /\ op[Loop].todo[1] = "registry"
    /\ registry_stopped' = TRUE
    /\ registry' = {}
    /\ Dispose({t \in registry : Holders(t) = {}})
    /\ op' = [op EXCEPT ![Loop] = LeftWith(@, <<>>)]
    /\ UNCHANGED <<one_shot, used, jobVars, ghosts, at, calls>>

StopReturns ==
    /\ op[Loop].name = "quit" /\ op[Loop].todo = <<>>
    /\ op' = [p \in Threads |-> IF p = Loop \/ p = at THEN NoCall ELSE op[p]]
    /\ at' = IF at \in Users THEN "idle" ELSE at
    /\ quit' = (quit \/ at \in Users)
    /\ UNCHANGED <<jobVars, timerVars, eventVars, fired, halted, removed, calls>>

-----------------------------------------------------------------------------
LoopStep ==
    \/ WakerFires \/ SwapQueue \/ NextJob \/ JobReturns \/ BatchEnds
    \/ \E t \in Timers : Dispatch(t) \/ CallbackReturns(t)
    \/ \E u \in Users : MainQueueStops(u)
    \/ StopJobs \/ StopRegistry \/ StopReturns
    \/ LibStep(Loop) \/ Return(Loop)

UserStep(u) == LibStep(u) \/ Return(u) \/ call_get_returns(u)

Calls ==
    \E p \in Threads :
        \/ \E j \in Jobs : call_soon(p, j) \/ (p \in Users /\ call_get(p, j))
        \/ \E t \in Timers :
              \/ \E once, delay \in BOOLEAN : add_entry(p, t, once, delay)
              \/ wake(p, t) \/ stop_timer(p, t) \/ remove(p, t)
              \/ \E positive, now \in BOOLEAN : repeat(p, t, positive, now)
        \/ stop(p)

Next ==
    /\ UNCHANGED owner
    /\ \/ LoopStep
       \/ \E u \in Users : UserStep(u)
       \/ \E t \in Timers : Expire(t)
       \/ Calls

Spec == Init /\ [][Next]_vars

\* Threads do not stop in the middle of a call.  libevent runs everything on its active list in
\* turn, and wakes every thread waiting in event_del when a callback ends: each thing the loop
\* may do between two callbacks is done if it keeps being possible.  The jobs and callbacks
\* themselves are assumed to return.
FairSpec ==
    /\ Spec
    /\ WF_vars(LoopStep)
    /\ SF_vars(WakerFires)
    /\ \A t \in Timers : SF_vars(Dispatch(t))
    /\ \A u \in Users : SF_vars(UserStep(u)) /\ SF_vars(MainQueueStops(u))

-----------------------------------------------------------------------------
\* Jobs run in the order in which call_soon and call_get accepted them, none is run twice, and
\* until stop() none is lost: what was accepted is what has run, then what is left of the batch
\* process_job_queue took, then the queue.
RunInOrder ==
    /\ Len(started) <= Len(submitted) /\ \A i \in DOMAIN started : started[i] = submitted[i]
    /\ running => submitted = started \o batch \o queue

\* A job in the queue has a wake-up on its way: job_waker is active, or the loop is between
\* taking it off the active list and swapping the queue.
NoStrandedJob == queue # <<>> => waker \/ at = "waker"

\* A call from another thread returns: call_get's job is run or its promise is broken, remove and
\* stop do not wait for ever for a callback, and JobQueue::stop() gets its turn on the loop.
CallsReturn == \A u \in Users : op[u] # NoCall ~> op[u] = NoCall

\* A job that was accepted is run, or stop() drops it: no wake-up of job_waker is lost.
JobsEnd == \A j \in Jobs : j \in Range(submitted) ~> j \in Range(started) \cup dropped

\* Timers whose id is used on the loop thread only, and on one thread only.
OnLoop == {t \in Timers : owner[t] \subseteq {Loop}}
Alone == {t \in Timers : \E p \in Threads : owner[t] \subseteq {p}}

\* A timer that stop(id) or repeat(id, 0) descheduled is not armed again by anything but
\* repeat(id): waking it runs it once and does not resume the repeat.
HaltedStaysHalted == \A t \in halted \cap Alone : t \notin armed

\* A call_later callback is run at most once, although its event is persistent and is re-armed
\* before the callback runs (an entry that stop() cleared while another thread's call_later was
\* still arming it is the exception: dispatch no longer finds it to remove).
OneShotOnce == \A t \in one_shot : fired[t] < 2 \/ (registry_stopped /\ t \notin OnLoop)

\* libevent has nothing scheduled for an entry unless the registry or a call in progress
\* refers to it, so Entry::dispatch never gets an entry that was disposed of.
ScheduledIsHeld == \A t \in armed \cup active : t \in registry \/ Holders(t) # {}

\* Once JobQueue::stop() has returned on a thread other than the loop's, no job of the queue is
\* executing and no callback of a timer that only the loop uses.
StoppedIsQuiet == quit => at \notin Jobs \cup OnLoop

\* Once remove(id) has returned on a thread other than the loop's, the timer's callback is not
\* executing, if no other thread uses the id.
RemovedIsQuiet == at \notin removed \cap Alone

\* event_assign in disarm, which takes no lock, never meets an event that libevent has scheduled
\* or is running, if no other thread uses the id: the event_del before it has seen to that.
AssignedAtRest == clash \cap Alone = {}

-----------------------------------------------------------------------------
\* Jobs run once each in the order they were accepted, and one in the queue always has a wake-up
\* on its way.
JobsInOrder == TypeOK /\ RunInOrder /\ NoStrandedJob

\* libevent has nothing scheduled for an entry unless the registry or a call in progress refers to
\* it, whichever threads use the timer, and a call_later callback is run at most once.  A timer
\* whose id one thread uses stays descheduled once it is; with its id used on the loop only, its
\* callback is not executing once stop() has returned elsewhere.
TimersKept == ScheduledIsHeld /\ OneShotOnce /\ HaltedStaysHalted /\ StoppedIsQuiet

\* Once remove(id) has returned on a thread other than the loop's, the timer's callback is not
\* executing, and event_assign in disarm never meets an event that libevent has scheduled or is
\* running, if no other thread uses the id.
RemovedIsQuietApart == RemovedIsQuiet /\ AssignedAtRest
=============================================================================

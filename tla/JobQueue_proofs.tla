-------------------------- MODULE JobQueue_proofs --------------------------
(***************************************************************************)
(* Proofs about the job queue and its timers (JobQueue), for any number of *)
(* jobs, timers, threads and calls, and whichever threads use a timer.     *)
(***************************************************************************)
EXTENDS JobQueue, TLAPS

\* Where the loop thread is, and what that says of the calls it and the others are in.
Loops ==
    /\ at \notin Jobs \cup Timers \cup Users => op[Loop].name = "none"
    /\ op[Loop].name = "disposal" => at = op[Loop].on
    /\ at \in Users => op[at].name = "quit" /\ op[Loop].name = "quit"
    /\ \A u \in Users : op[u].name # "disposal" /\ (op[u].name = "quit" => op[u].todo = <<>>)

\* How far stop() is.
Stopping ==
    /\ op[Loop].name = "quit" /\ op[Loop].todo = <<"registry">> => ~running
    /\ op[Loop].name = "quit" /\ op[Loop].todo = <<>> => ~running
    /\ ~running => registry_stopped \/ (op[Loop].name = "quit" /\ op[Loop].todo = <<"registry">>)
    /\ registry_stopped => registry = {}

\* What the calls in progress say of the entries they refer to.
Entries ==
    \A p \in Threads : op[p].on \in Timers =>
        /\ p \in owner[op[p].on] \/ op[p].name = "disposal"
        /\ op[p].name \in {"wake", "repeat", "stop", "remove"} => op[p].on \notin one_shot
        /\ op[p].name = "disposal" => op[p].on \in one_shot
        /\ op[p].name \in {"remove", "disposal"} => op[p].on \notin registry

\* A one-shot fires from the registry, and is off it and cancelled by the time its callback is over.
Fires(t) ==
    \/ fired[t] = 0 /\ t \in registry /\ at # t
    \/ fired[t] = 1 /\ at = t /\ (t \in registry \/ op[Loop].name = "disposal")
    \/ fired[t] = 1 /\ at # t /\ t \notin armed \cup active
OneShots ==
    /\ \A t \in one_shot : ~registry_stopped => Fires(t)
    /\ ~registry_stopped => \A p \in Threads : op[p].name = "add_entry" /\ op[p].on \in one_shot
                               /\ fired[op[p].on] # 0 => op[p].todo = <<>>
    /\ op[Loop].name = "disposal" /\ op[Loop].todo = <<>> => op[Loop].on \notin armed \cup active

\* One thread adds an entry; a one-shot is not scheduled before it is done, and stop() does not come
\* between a one-shot's callback and its disposal.
Adds ==
    /\ \A p, q \in Threads : op[p].name = "add_entry" /\ op[q].name = "add_entry" /\ op[p].on = op[q].on => p = q
    /\ \A p \in Threads : op[p].name = "add_entry" /\ op[p].on \in one_shot /\ op[p].todo # <<>> =>
          op[p].on \notin armed \cup active
    /\ op[Loop].name = "disposal" => ~registry_stopped
NotYet == \A t \in Timers \ used : fired[t] = 0 /\ at # t

Quiet ==
    /\ quit => registry_stopped
    /\ registry_stopped => \A t \in OnLoop : t \notin armed \cup active /\ op[Loop].on # t

\* What a disarm in progress has done, and what it leaves.
Halts ==
    /\ \A t \in halted \cap Alone :
          /\ t \notin armed /\ t \notin repeats /\ t \notin one_shot
          /\ \A p \in Threads : op[p].on = t => op[p].name \notin {"repeat", "add_entry"}
    /\ \A p \in Threads : op[p].name = "stop" /\ op[p].on \in Alone =>
          /\ op[p].todo \in {<<"assign">>, <<"assign", "activate">>} =>
                op[p].on \notin armed \cup active /\ (p = Loop \/ at # op[p].on)
          /\ op[p].todo \in {<<"activate">>, <<>>} => op[p].on \notin armed \cup repeats

Removes ==
    /\ \A t \in removed \cap Alone :
          /\ at # t /\ t \notin armed \cup active /\ t \notin registry
          /\ \A p \in Threads : op[p].on # t
    /\ \A u \in Users : op[u].name = "remove" /\ op[u].on \in Alone /\ op[u].todo = <<>> =>
          at # op[u].on /\ op[u].on \notin armed \cup active

-----------------------------------------------------------------------------
(* Types.                                                                  *)

\* The conjuncts of TypeOK: jobs and flags, timers, calls.
JobTypes ==
    /\ running \in BOOLEAN /\ waker \in BOOLEAN /\ registry_stopped \in BOOLEAN /\ quit \in BOOLEAN
    /\ queue \in Seq(Jobs) /\ batch \in Seq(Jobs)
    /\ submitted \in Seq(Jobs) /\ started \in Seq(Jobs) /\ dropped \subseteq Jobs
    /\ at \in {"idle", "waker", "jobs"} \cup Jobs \cup Timers \cup Users
    /\ registry_stopped => ~running
    /\ running \/ (queue = <<>> /\ ~waker)
TimerTypes ==
    /\ owner \in [Timers -> SUBSET Threads]
    /\ registry \subseteq used /\ one_shot \subseteq used /\ used \subseteq Timers
    /\ armed \subseteq used /\ repeats \subseteq used /\ active \subseteq used
    /\ halted \subseteq used /\ removed \subseteq used /\ clash \subseteq used
Fired == fired \in [Timers -> 0..2]
Calling ==
    /\ calls \in 0..MaxCalls
    /\ op \in [Threads -> [name : Names, on : Jobs \cup Timers \cup {Idle}, todo : Seq(LibCalls)]]
Formed(p) == op[p].on \in OnWhat(op[p].name) /\ op[p].todo \in Left(op[p].name)
OpTypes == Calling /\ \A p \in Threads : Formed(p)

\* The type invariant by parts, before and after a step.
LEMMA TypeParts == TypeOK <=> JobTypes /\ TimerTypes /\ Fired /\ OpTypes
  BY Zenon DEF TypeOK, JobTypes, TimerTypes, Fired, OpTypes, Calling, Formed

LEMMA TypePartsNext == TypeOK' <=> JobTypes' /\ TimerTypes' /\ Fired' /\ OpTypes'
  BY Zenon DEF TypeOK, JobTypes, TimerTypes, Fired, OpTypes, Calling, Formed

\* The lists of libevent calls, shortened.
LEMMA Tails ==
    ASSUME NEW x, NEW y, NEW z
    PROVE  /\ Tail(<<x>>) = <<>> /\ Tail(<<x, y>>) = <<y>> /\ Tail(<<x, y, z>>) = <<y, z>>
           /\ <<x>>[1] = x /\ <<x, y>>[1] = x /\ <<x, y, z>>[1] = x
           /\ <<x>> # <<>> /\ <<x, y>> # <<>> /\ <<x, y, z>> # <<>>
  OBVIOUS

\* What a call in progress may be.
TimerCalls == {"add_entry", "wake", "repeat", "stop", "remove", "disposal"}
LEMMA Kinds ==
    ASSUME OpTypes, NEW p \in Threads
    PROVE  /\ op[p].name \in Names /\ op[p].todo \in Left(op[p].name)
           /\ op[p].name \in TimerCalls => op[p].on \in used
           /\ op[p].name = "call_get" => op[p].on \in Jobs /\ op[p].todo = <<>>
           /\ op[p].name \in {"none", "quit"} => op[p].on = Idle
           /\ op[p].name = "none" => op[p] = NoCall
<1>1. op[p] \in [name : Names, on : Jobs \cup Timers \cup {Idle}, todo : Seq(LibCalls)]
      /\ op[p].on \in OnWhat(op[p].name) /\ op[p].todo \in Left(op[p].name)
  BY Zenon DEF OpTypes, Calling, Formed
<1>2. op[p].name \in {"none", "call_get"} => op[p].todo = <<>>
  BY <1>1, Zenon DEF Left
<1>3. op[p].name = "none" => op[p] = NoCall
  BY <1>1, <1>2, Zenon DEF OnWhat, NoCall
<1> QED BY <1>1, <1>2, <1>3, Zenon DEF OnWhat, TimerCalls

\* A call is on a timer exactly if it is one of the timers' calls.
LEMMA OnTimer ==
    ASSUME TimerTypes, OpTypes, NEW p \in Threads
    PROVE  op[p].on \in Timers <=> op[p].name \in TimerCalls
<1>1. op[p].name \in TimerCalls \/ op[p].name \in {"none", "quit", "call_get"}
  BY Kinds, Zenon DEF Names, TimerCalls
<1>2. op[p].name \in TimerCalls => op[p].on \in Timers
  BY Kinds, Zenon DEF TimerTypes
<1>3. op[p].name \in {"none", "quit", "call_get"} => op[p].on \notin Timers
  BY Kinds, JobQueueAssumption, Zenon
<1> QED BY <1>1, <1>2, <1>3, Zenon

\* A step that puts one thread into another call keeps the types of the calls.
LEMMA OpStep ==
    ASSUME OpTypes, used \subseteq used', calls' \in 0..MaxCalls,
           NEW p \in Threads, NEW c \in [name : Names, on : Jobs \cup Timers \cup {Idle}, todo : Seq(LibCalls)],
           c.name \in TimerCalls => c.on \in used',
           c.name = "call_get" => c.on \in Jobs,
           c.name \in {"none", "quit"} => c.on = Idle,
           c.todo \in Left(c.name),
           op' = [op EXCEPT ![p] = c]
    PROVE  OpTypes'
<1>1. Calling'
  BY Zenon DEF OpTypes, Calling
<1> SUFFICES ASSUME NEW q \in Threads PROVE Formed(q)'
  BY <1>1, Zenon DEF OpTypes
<1>2. op'[p] = c /\ (q # p => op'[q] = op[q])
  BY Zenon DEF OpTypes, Calling
<1>3. CASE q = p
  BY <1>2, <1>3 DEF Formed, OnWhat, Names, TimerCalls
<1>4. CASE q # p
  <2>1. Formed(q)
    BY Zenon DEF OpTypes
  <2> QED BY <1>2, <1>4, <2>1, Zenon DEF Formed, OnWhat
<1> QED BY <1>3, <1>4, Zenon

\* A step that leaves the calls alone.
LEMMA OpSame ==
    ASSUME OpTypes, used \subseteq used', calls' \in 0..MaxCalls, op' = op
    PROVE  OpTypes'
<1>1. Calling'
  BY Zenon DEF OpTypes, Calling
<1> SUFFICES ASSUME NEW q \in Threads PROVE Formed(q)'
  BY <1>1, Zenon DEF OpTypes
<1>2. Formed(q)
  BY Zenon DEF OpTypes
<1> QED BY <1>2, Zenon DEF Formed, OnWhat

\* The same for the lists there are.
LEMMA Shortened ==
    /\ Tail(<<"add">>) = <<>> /\ <<"add">>[1] = "add"
    /\ Tail(<<"add0">>) = <<>> /\ <<"add0">>[1] = "add0"
    /\ Tail(<<"activate">>) = <<>> /\ <<"activate">>[1] = "activate"
    /\ Tail(<<"del">>) = <<>> /\ <<"del">>[1] = "del"
    /\ Tail(<<"assign">>) = <<>> /\ <<"assign">>[1] = "assign"
    /\ Tail(<<"add", "activate">>) = <<"activate">> /\ <<"add", "activate">>[1] = "add"
    /\ Tail(<<"assign", "activate">>) = <<"activate">> /\ <<"assign", "activate">>[1] = "assign"
    /\ Tail(<<"del", "assign">>) = <<"assign">> /\ <<"del", "assign">>[1] = "del"
    /\ Tail(<<"del", "assign", "activate">>) = <<"assign", "activate">> /\ <<"del", "assign", "activate">>[1] = "del"
  BY Tails

\* What a libevent call is part of, and what it leaves to do.
LibDoes(p, t, old, new) ==
    \/ event_add(t, TRUE) /\ op[p].name = "add_entry" /\ old = <<"add">> /\ new = <<>>
    \/ event_add(t, FALSE) /\ op[p].name = "add_entry" /\ old = <<"add0">> /\ new = <<>>
    \/ event_add(t, TRUE) /\ op[p].name = "repeat" /\ new \in {<<"activate">>, <<>>}
    \/ event_active(t) /\ op[p].name \in {"wake", "repeat", "stop"} /\ old = <<"activate">> /\ new = <<>>
    \/ event_del(p, t) /\ op[p].name \in {"remove", "disposal"} /\ old = <<"del">> /\ new = <<>>
    \/ event_del(p, t) /\ op[p].name = "stop" /\ new \in {<<"assign">>, <<"assign", "activate">>}
    \/ /\ event_assign(p, t) /\ op[p].name = "stop"
       /\ old \in {<<"assign">>, <<"assign", "activate">>} /\ new \in {<<"activate">>, <<>>}

\* What one libevent call does: it is taken off the list of what the call has left.
LEMMA LibStepDoes ==
    ASSUME TimerTypes, OpTypes, NEW p \in Threads, LibStep(p)
    PROVE  /\ op[p].on \in used /\ op[p].name \in TimerCalls
           /\ op' = [op EXCEPT ![p] = LeftWith(op[p], Tail(op[p].todo))]
           /\ Tail(op[p].todo) \in Left(op[p].name)
           /\ LibDoes(p, op[p].on, op[p].todo, Tail(op[p].todo))
<1> DEFINE t == op[p].on  l == op[p].todo
<1>1. op[p].name \in TimerCalls /\ t \in used /\ l \in Left(op[p].name) /\ l # <<>>
  BY OnTimer, Kinds, Zenon DEF LibStep
<1>2. /\ l[1] = "add" => event_add(t, TRUE)
      /\ l[1] = "add0" => event_add(t, FALSE)
      /\ l[1] = "activate" => event_active(t)
      /\ l[1] = "del" => event_del(p, t)
      /\ l[1] = "assign" => event_assign(p, t)
  BY Zenon DEF LibStep
<1>3. op' = [op EXCEPT ![p] = LeftWith(op[p], Tail(op[p].todo))]
  BY Zenon DEF LibStep
<1>6. CASE op[p].name = "add_entry"
  <2>1. l \in {<<"add">>, <<"add0">>}
    BY <1>1, <1>6, Zenon DEF Left
  <2>2. Tail(l) = <<>> /\ <<>> \in Left("add_entry")
    BY <2>1, Shortened, Zenon DEF Left
  <2>3. (l = <<"add">> /\ event_add(t, TRUE)) \/ (l = <<"add0">> /\ event_add(t, FALSE))
    BY <1>2, <2>1, Shortened, Zenon
  <2> QED BY <1>1, <1>3, <1>6, <2>2, <2>3, Zenon DEF LibDoes
<1>7. CASE op[p].name = "wake"
  <2>1. l = <<"activate">>
    BY <1>1, <1>7, Zenon DEF Left
  <2>2. Tail(l) = <<>> /\ <<>> \in Left("wake")
    BY <2>1, Shortened, Zenon DEF Left
  <2>3. event_active(t)
    BY <1>2, <2>1, Shortened, Zenon
  <2> QED BY <1>1, <1>3, <1>7, <2>1, <2>2, <2>3, Zenon DEF LibDoes
<1>8. CASE op[p].name = "repeat"
  <2>1. l \in {<<"add">>, <<"add", "activate">>, <<"activate">>}
    BY <1>1, <1>8, Zenon DEF Left
  <2>2. Tail(l) \in {<<"activate">>, <<>>} /\ Tail(l) \in Left("repeat")
    BY <2>1, Shortened, Zenon DEF Left
  <2>3. event_add(t, TRUE) \/ (event_active(t) /\ l = <<"activate">> /\ Tail(l) = <<>>)
    BY <1>2, <2>1, Shortened, Zenon
  <2> QED BY <1>1, <1>3, <1>8, <2>2, <2>3, Zenon DEF LibDoes
<1>9. CASE op[p].name = "stop"
  <2>1. l \in {<<"del", "assign">>, <<"del", "assign", "activate">>, <<"assign">>,
               <<"assign", "activate">>, <<"activate">>}
    BY <1>1, <1>9, Zenon DEF Left
  <2>2. Tail(l) \in Left("stop")
    BY <2>1, Shortened, Zenon DEF Left
  <2>3. \/ event_del(p, t) /\ Tail(l) \in {<<"assign">>, <<"assign", "activate">>}
        \/ /\ event_assign(p, t) /\ Tail(l) \in {<<"activate">>, <<>>}
           /\ l \in {<<"assign">>, <<"assign", "activate">>}
        \/ event_active(t) /\ l = <<"activate">> /\ Tail(l) = <<>>
    BY <1>2, <2>1, Shortened, Zenon
  <2> QED BY <1>1, <1>3, <1>9, <2>2, <2>3, Zenon DEF LibDoes
<1>10. CASE op[p].name \in {"remove", "disposal"}
  <2>1. l = <<"del">>
    BY <1>1, <1>10, Zenon DEF Left
  <2>2. Tail(l) = <<>> /\ <<>> \in Left(op[p].name)
    BY <1>10, <2>1, Shortened, Zenon DEF Left
  <2>3. event_del(p, t)
    BY <1>2, <2>1, Shortened, Zenon
  <2> QED BY <1>1, <1>3, <1>10, <2>1, <2>2, <2>3, Zenon DEF LibDoes
<1> QED BY <1>1, <1>6, <1>7, <1>8, <1>9, <1>10, Zenon DEF TimerCalls

-----------------------------------------------------------------------------
(* Jobs.                                                                   *)

\* A job taken moves from the batch to those that ran.
LEMMA FromTheBatch ==
    \A a, b \in Seq(Jobs) : b # <<>> => a \o b = Append(a, b[1]) \o Tail(b)
  OBVIOUS

\* The queue becomes the batch.
LEMMA Swapped ==
    ASSUME NEW S, NEW a \in Seq(S), NEW c \in Seq(S)
    PROVE  a \o <<>> \o c = a \o c \o <<>>
  OBVIOUS

\* What has run is the first part of it all.
LEMMA FirstPart ==
    ASSUME NEW S, NEW a \in Seq(S), NEW b \in Seq(S), NEW c \in Seq(S), NEW s, s = a \o b \o c
    PROVE  Len(a) <= Len(s) /\ \A i \in DOMAIN a : a[i] = s[i]
  OBVIOUS

\* What is known of the jobs: the invariants, and that a batch is in the hands of the loop.
BatchHeld == batch # <<>> => at \in {"jobs"} \cup Jobs
JobInv == JobTypes /\ RunInOrder /\ NoStrandedJob /\ BatchHeld

\* A step that leaves the jobs alone.
LEMMA JobsAside ==
    ASSUME JobInv, UNCHANGED jobVars, quit' \in BOOLEAN, registry_stopped' \in BOOLEAN,
           registry_stopped' => ~running,
           \/ at' = at
           \/ at \notin {"waker", "jobs"} \cup Jobs /\ at' \in {"idle"} \cup Timers \cup Users
    PROVE  JobInv'
<1>1. JobTypes'
  BY Zenon DEF JobInv, JobTypes, jobVars
<1>2. RunInOrder'
  BY Zenon DEF JobInv, RunInOrder, jobVars
<1>3. NoStrandedJob' /\ BatchHeld'
  BY Zenon DEF JobInv, NoStrandedJob, BatchHeld, jobVars
<1> QED BY <1>1, <1>2, <1>3, Zenon DEF JobInv

\* A job accepted is the last.
LEMMA AtTheBack ==
    \A a, b \in Seq(Jobs), x \in Jobs : Append(a \o b, x) = a \o Append(b, x)
  OBVIOUS

\* A job is accepted.
LEMMA Enqueued ==
    ASSUME JobInv, NEW j \in Jobs, running, Enqueue(j),
           UNCHANGED <<running, registry_stopped, quit, batch, started, dropped, at>>
    PROVE  JobInv'
<1>1. JobTypes' /\ NoStrandedJob' /\ BatchHeld'
  BY DEF JobInv, JobTypes, NoStrandedJob, BatchHeld, Enqueue
<1>2. /\ submitted' = started' \o batch' \o queue'
      /\ started' \in Seq(Jobs) /\ batch' \in Seq(Jobs) /\ queue' \in Seq(Jobs)
  <2>1. /\ submitted = started \o batch \o queue
        /\ started \in Seq(Jobs) /\ batch \in Seq(Jobs) /\ queue \in Seq(Jobs)
    BY Zenon DEF JobInv, JobTypes, RunInOrder
  <2>2. Append(started \o batch \o queue, j) = started \o batch \o Append(queue, j)
    <3>1. started \o batch \in Seq(Jobs)
      BY <2>1
    <3> QED BY <2>1, <3>1, AtTheBack, Zenon
  <2>3. Append(queue, j) \in Seq(Jobs)
    BY <2>1
  <2> QED BY <2>1, <2>2, <2>3, Zenon DEF Enqueue
<1>3. RunInOrder'
  BY <1>2, FirstPart DEF RunInOrder
<1> QED BY <1>1, <1>3, Zenon DEF JobInv

\* The steps of process_job_queue.
LEMMA JobSteps ==
    ASSUME JobInv, WakerFires \/ SwapQueue \/ NextJob \/ JobReturns \/ BatchEnds
    PROVE  JobInv'
<1> USE JobQueueAssumption
<1>1. CASE WakerFires
  <2>1. JobTypes' /\ NoStrandedJob' /\ BatchHeld'
    BY <1>1, Zenon DEF WakerFires, JobInv, JobTypes, NoStrandedJob, BatchHeld, timerVars, ghosts
  <2>2. RunInOrder'
    BY <1>1, Zenon DEF WakerFires, JobInv, RunInOrder
  <2> QED BY <2>1, <2>2, Zenon DEF JobInv
<1>2. CASE SwapQueue
  <2>1. JobTypes' /\ NoStrandedJob' /\ BatchHeld' /\ batch = <<>>
    BY <1>2, Zenon DEF SwapQueue, JobInv, JobTypes, NoStrandedJob, BatchHeld, timerVars, ghosts
  <2>2. running => submitted' = started' \o batch' \o queue'
    BY <1>2, <2>1, Swapped DEF SwapQueue, JobInv, JobTypes, RunInOrder
  <2>3. RunInOrder'
    BY <1>2, <2>2, Zenon DEF SwapQueue, JobInv, RunInOrder
  <2> QED BY <2>1, <2>3, Zenon DEF JobInv
<1>3. CASE NextJob
  <2>1. batch[1] \in Jobs /\ Tail(batch) \in Seq(Jobs) /\ batch # <<>> /\ running
    BY <1>3 DEF NextJob, JobInv, JobTypes
  <2>2. JobTypes' /\ NoStrandedJob' /\ BatchHeld'
    BY <1>3, <2>1 DEF NextJob, TakeJob, JobInv, JobTypes, NoStrandedJob, BatchHeld, timerVars, ghosts
  <2>3. submitted' = started' \o batch' \o queue'
    <3>1. /\ started' = Append(started, batch[1]) /\ batch' = Tail(batch) /\ queue' = queue /\ submitted' = submitted
          /\ submitted = started \o batch \o queue
          /\ started \in Seq(Jobs) /\ batch \in Seq(Jobs) /\ queue \in Seq(Jobs)
      BY <1>3, Zenon DEF NextJob, TakeJob, JobInv, JobTypes, RunInOrder
    <3>2. started \o batch = Append(started, batch[1]) \o Tail(batch)
      BY <2>1, <3>1, FromTheBatch, Zenon
    <3> QED BY <3>1, <3>2, Zenon
  <2>4. RunInOrder'
    BY <2>2, <2>3, FirstPart DEF RunInOrder, JobTypes
  <2> QED BY <2>2, <2>4, Zenon DEF JobInv
<1>4. CASE JobReturns
  <2>1. JobTypes' /\ NoStrandedJob' /\ BatchHeld'
    BY <1>4, Zenon DEF JobReturns, JobInv, JobTypes, NoStrandedJob, BatchHeld, jobVars, timerVars, ghosts
  <2>2. RunInOrder'
    BY <1>4, Zenon DEF JobReturns, JobInv, RunInOrder, jobVars
  <2> QED BY <2>1, <2>2, Zenon DEF JobInv
<1>5. CASE BatchEnds
  <2>1. Range(batch) \subseteq Jobs
    BY DEF Range, JobInv, JobTypes
  <2>2. JobTypes' /\ NoStrandedJob' /\ BatchHeld'
    BY <1>5, <2>1, Zenon DEF BatchEnds, JobInv, JobTypes, NoStrandedJob, BatchHeld, timerVars, ghosts
  <2>3. running => batch = <<>> /\ batch' = <<>>
    BY <1>5, Zenon DEF BatchEnds
  <2>4. RunInOrder'
    BY <1>5, <2>3, Zenon DEF BatchEnds, JobInv, RunInOrder
  <2> QED BY <2>2, <2>4, Zenon DEF JobInv
<1> QED BY <1>1, <1>2, <1>3, <1>4, <1>5, Zenon

\* stop() drops the jobs still in the queue.
LEMMA StopJobsJobs ==
    ASSUME JobInv, StopJobs
    PROVE  JobInv'
<1>1. Range(queue) \subseteq Jobs
  BY DEF Range, JobInv, JobTypes
<1>2. /\ running' = FALSE /\ waker' = FALSE /\ queue' = <<>> /\ dropped' = dropped \cup Range(queue)
      /\ UNCHANGED <<batch, submitted, started, at, registry_stopped, quit>>
  BY Zenon DEF StopJobs, timerVars, ghosts
<1>3. JobTypes'
  <2>1. dropped' \subseteq Jobs
    BY <1>1, <1>2, Zenon DEF JobInv, JobTypes
  <2>2. queue' \in Seq(Jobs)
    BY <1>2
  <2> QED BY <1>2, <2>1, <2>2, Zenon DEF JobInv, JobTypes
<1>4. NoStrandedJob' /\ BatchHeld'
  BY <1>2, Zenon DEF JobInv, NoStrandedJob, BatchHeld
<1>5. RunInOrder'
  BY <1>2, Zenon DEF JobInv, RunInOrder
<1> QED BY <1>3, <1>4, <1>5, Zenon DEF JobInv

-----------------------------------------------------------------------------
(* Timers: types.                                                          *)

\* Every step keeps the types of the timers.
LEMMA TimerTypesNext ==
    ASSUME TimerTypes, Fired, OpTypes, Next
    PROVE  TimerTypes' /\ Fired'
<1> USE DEF TimerTypes, Fired
<1>1. ASSUME UNCHANGED <<owner, timerVars, eventVars, ghosts>>
      PROVE  TimerTypes' /\ Fired'
  BY <1>1, Zenon DEF timerVars, eventVars, ghosts
<1>2. ASSUME NEW p \in Threads, NEW t \in Timers, NEW once \in BOOLEAN, NEW delay \in BOOLEAN,
             add_entry(p, t, once, delay), UNCHANGED owner
      PROVE  TimerTypes' /\ Fired'
  BY <1>2, Zenon DEF add_entry, eventVars, ghosts
<1>3. ASSUME NEW p \in Threads, NEW t \in Timers, NEW positive \in BOOLEAN, NEW now \in BOOLEAN,
             repeat(p, t, positive, now), UNCHANGED owner
      PROVE  TimerTypes' /\ Fired'
  BY <1>3, Zenon DEF repeat, eventVars, timerVars
<1>4. ASSUME NEW p \in Threads, NEW t \in Timers, remove(p, t), UNCHANGED owner
      PROVE  TimerTypes' /\ Fired'
  BY <1>4, Zenon DEF remove, eventVars, ghosts
<1>5. ASSUME NEW p \in Threads, LibStep(p), UNCHANGED owner
      PROVE  TimerTypes' /\ Fired'
  <2>1. op[p].on \in used /\ LibDoes(p, op[p].on, op[p].todo, Tail(op[p].todo))
    BY <1>5, LibStepDoes, Zenon
  <2>2. UNCHANGED <<owner, timerVars, ghosts>>
    BY <1>5, Zenon DEF LibStep
  <2>3. armed' \subseteq used /\ active' \subseteq used /\ repeats' \subseteq used /\ clash' \subseteq used
    BY <2>1, Zenon DEF LibDoes, event_add, event_active, event_del, event_assign
  <2> QED BY <2>2, <2>3, Zenon DEF timerVars, ghosts
<1>6. ASSUME NEW p \in Threads, Return(p), UNCHANGED owner
      PROVE  TimerTypes' /\ Fired'
  <2>1. op[p].on \in used
    BY <1>6, OnTimer, Kinds, Zenon DEF Return
  <2> QED BY <1>6, <2>1, Zenon DEF Return, Dispose, timerVars
<1>7. ASSUME NEW t \in Timers, Expire(t), UNCHANGED owner
      PROVE  TimerTypes' /\ Fired'
  BY <1>7, Zenon DEF Expire, timerVars, ghosts
<1>8. ASSUME NEW t \in Timers, Dispatch(t), UNCHANGED owner
      PROVE  TimerTypes' /\ Fired'
  BY <1>8 DEF Dispatch, timerVars
<1>9. ASSUME NEW t \in Timers, CallbackReturns(t), UNCHANGED owner
      PROVE  TimerTypes' /\ Fired'
  BY <1>9, Zenon DEF CallbackReturns, eventVars, ghosts
<1>10. ASSUME StopRegistry, UNCHANGED owner
      PROVE  TimerTypes' /\ Fired'
  BY <1>10, Zenon DEF StopRegistry, Dispose, ghosts
<1>11. ASSUME StopReturns, UNCHANGED owner
      PROVE  TimerTypes' /\ Fired'
  BY <1>11, Zenon DEF StopReturns, timerVars, eventVars
<1>12. UNCHANGED owner
  BY Zenon DEF Next
<1>13. CASE LoopStep
  BY <1>1, <1>5, <1>6, <1>8, <1>9, <1>10, <1>11, <1>12, <1>13, Zenon
     DEF LoopStep, WakerFires, SwapQueue, NextJob, TakeJob, JobReturns, BatchEnds, MainQueueStops,
         StopJobs, Threads
<1>14. CASE \E u \in Users : UserStep(u)
  BY <1>1, <1>5, <1>6, <1>12, <1>14, Zenon DEF UserStep, call_get_returns, Threads
<1>15. CASE Calls
  <2>1. ASSUME NEW p \in Threads, NEW t \in Timers, wake(p, t) \/ stop_timer(p, t)
        PROVE  TimerTypes' /\ Fired'
    BY <1>1, <1>12, <2>1, Zenon DEF wake, stop_timer
  <2>2. ASSUME NEW p \in Threads, NEW j \in Jobs, call_soon(p, j) \/ call_get(p, j)
        PROVE  TimerTypes' /\ Fired'
    BY <1>1, <1>12, <2>2, Zenon DEF call_soon, call_get
  <2>3. ASSUME NEW p \in Threads, stop(p)
        PROVE  TimerTypes' /\ Fired'
    BY <1>1, <1>12, <2>3, Zenon DEF stop
  <2> QED BY <1>2, <1>3, <1>4, <1>12, <1>15, <2>1, <2>2, <2>3, Zenon DEF Calls
<1> QED BY <1>7, <1>12, <1>13, <1>14, <1>15, Zenon DEF Next

\* What may be left to do are libevent calls, or the halves of stop().
LEMMA LeftCalls ==
    ASSUME NEW name \in Names, NEW l \in Left(name)
    PROVE  l \in Seq(LibCalls)
<1>1. \/ l = <<>> \/ l = <<"add">> \/ l = <<"add0">> \/ l = <<"activate">> \/ l = <<"add", "activate">>
      \/ l = <<"del", "assign">> \/ l = <<"del", "assign", "activate">> \/ l = <<"assign">>
      \/ l = <<"assign", "activate">> \/ l = <<"del">> \/ l = <<"jobs", "registry">> \/ l = <<"registry">>
  BY Zenon DEF Left, Names
<1>2. \A x, y, z \in LibCalls : <<>> \in Seq(LibCalls) /\ <<x>> \in Seq(LibCalls)
         /\ <<x, y>> \in Seq(LibCalls) /\ <<x, y, z>> \in Seq(LibCalls)
  OBVIOUS
<1>3. /\ "add" \in LibCalls /\ "add0" \in LibCalls /\ "activate" \in LibCalls /\ "del" \in LibCalls
      /\ "assign" \in LibCalls /\ "jobs" \in LibCalls /\ "registry" \in LibCalls
  BY Zenon DEF LibCalls
<1> QED BY <1>1, <1>2, <1>3, Zenon

\* A call entered.
LEMMA Entered ==
    ASSUME OpTypes, used \subseteq used', NEW p \in Threads, MayCall(p),
           NEW name \in Names, NEW on \in Jobs \cup Timers \cup {Idle}, NEW todo \in Left(name),
           name \in TimerCalls => on \in used', name = "call_get" => on \in Jobs,
           name \in {"none", "quit"} => on = Idle,
           Enter(p, name, on, todo)
    PROVE  OpTypes' /\ op' = [op EXCEPT ![p] = [name |-> name, on |-> on, todo |-> todo]]
<1> DEFINE c == [name |-> name, on |-> on, todo |-> todo]
<1>1. calls' \in 0..MaxCalls
  BY JobQueueAssumption DEF Enter, MayCall, OpTypes, Calling
<1>2. todo \in Seq(LibCalls)
  BY LeftCalls, Zenon
<1>3. op' = [op EXCEPT ![p] = c]
  BY Zenon DEF Enter
<1>4. /\ c \in [name : Names, on : Jobs \cup Timers \cup {Idle}, todo : Seq(LibCalls)]
      /\ c.name = name /\ c.on = on /\ c.todo = todo
  BY <1>2, Zenon
<1> HIDE DEF c
<1>5. OpTypes'
  BY <1>1, <1>3, <1>4, OpStep, Zenon
<1> QED BY <1>3, <1>5, Zenon DEF c

\* A call that goes on.
LEMMA GoesOn ==
    ASSUME TimerTypes, OpTypes, used' = used, calls' = calls, NEW p \in Threads,
           NEW todo \in Left(op[p].name), op' = [op EXCEPT ![p] = LeftWith(op[p], todo)]
    PROVE  OpTypes'
<1> DEFINE c == LeftWith(op[p], todo)
<1>1. op[p].name \in Names /\ op[p].on \in Jobs \cup Timers \cup {Idle}
  BY Zenon DEF OpTypes, Calling
<1>2. todo \in Seq(LibCalls)
  BY <1>1, LeftCalls, Zenon
<1>3. /\ c \in [name : Names, on : Jobs \cup Timers \cup {Idle}, todo : Seq(LibCalls)]
      /\ c.name = op[p].name /\ c.on = op[p].on /\ c.todo = todo
  BY <1>1, <1>2, Zenon DEF LeftWith
<1>4. calls' \in 0..MaxCalls
  BY Zenon DEF OpTypes, Calling
<1> HIDE DEF c
<1>5. c.name \in TimerCalls => c.on \in used'
  BY <1>3, Kinds, Zenon
<1>6. (c.name = "call_get" => c.on \in Jobs) /\ (c.name \in {"none", "quit"} => c.on = Idle)
  BY <1>3, Kinds, Zenon
<1> QED BY <1>3, <1>4, <1>5, <1>6, OpStep, Zenon DEF c

\* A call that returns.
LEMMA Returned ==
    ASSUME OpTypes, used' = used, calls' = calls, NEW p \in Threads, op' = [op EXCEPT ![p] = NoCall]
    PROVE  OpTypes'
<1>1. /\ NoCall \in [name : Names, on : Jobs \cup Timers \cup {Idle}, todo : Seq(LibCalls)]
      /\ NoCall.name = "none" /\ NoCall.on = Idle /\ NoCall.todo = <<>> /\ <<>> \in Left("none")
  BY DEF NoCall, Names, Left
<1>2. calls' \in 0..MaxCalls
  BY Zenon DEF OpTypes, Calling
<1> QED BY <1>1, <1>2, OpStep, Zenon DEF TimerCalls

\* Names and lists of the calls there are.
LEMMA Listed ==
    /\ TimerCalls \subseteq Names /\ {"quit", "call_get", "none"} \subseteq Names
    /\ TimerCalls \cap {"quit", "call_get", "none"} = {}
    /\ <<>> \in Left("call_get") /\ <<"add">> \in Left("add_entry") /\ <<"add0">> \in Left("add_entry")
    /\ <<>> \in Left("add_entry") /\ <<"activate">> \in Left("wake")
    /\ <<"add">> \in Left("repeat") /\ <<"add", "activate">> \in Left("repeat")
    /\ <<"del", "assign">> \in Left("stop") /\ <<"del", "assign", "activate">> \in Left("stop")
    /\ <<"del">> \in Left("remove") /\ <<"del">> \in Left("disposal")
    /\ <<>> \in Left("quit") /\ <<"registry">> \in Left("quit") /\ <<"jobs", "registry">> \in Left("quit")
<1>1. /\ TimerCalls \subseteq Names /\ {"quit", "call_get", "none"} \subseteq Names
      /\ TimerCalls \cap {"quit", "call_get", "none"} = {}
  BY Zenon DEF TimerCalls, Names
<1>2. /\ <<>> \in Left("call_get") /\ <<"add">> \in Left("add_entry") /\ <<"add0">> \in Left("add_entry")
      /\ <<>> \in Left("add_entry") /\ <<"activate">> \in Left("wake")
      /\ <<"add">> \in Left("repeat") /\ <<"add", "activate">> \in Left("repeat")
  BY Zenon DEF Left
<1>3. /\ <<"del", "assign">> \in Left("stop") /\ <<"del", "assign", "activate">> \in Left("stop")
      /\ <<"del">> \in Left("remove") /\ <<"del">> \in Left("disposal")
      /\ <<>> \in Left("quit") /\ <<"registry">> \in Left("quit") /\ <<"jobs", "registry">> \in Left("quit")
  BY Zenon DEF Left
<1> QED BY <1>1, <1>2, <1>3, Zenon

\* The calls on timers, entered.
LEMMA TimerCallEntered ==
    ASSUME TimerTypes, OpTypes, NEW p \in Threads, NEW t \in Timers,
           NEW once \in BOOLEAN, NEW delay \in BOOLEAN, NEW positive \in BOOLEAN, NEW now \in BOOLEAN
    PROVE  /\ add_entry(p, t, once, delay) =>
                \E todo \in Left("add_entry") :
                    op' = [op EXCEPT ![p] = [name |-> "add_entry", on |-> t, todo |-> todo]] /\ OpTypes'
           /\ wake(p, t) =>
                op' = [op EXCEPT ![p] = [name |-> "wake", on |-> t, todo |-> <<"activate">>]] /\ OpTypes'
           /\ repeat(p, t, positive, now) =>
                \E todo \in Left(IF positive THEN "repeat" ELSE "stop") :
                    /\ ~positive => todo \in {<<"del", "assign">>, <<"del", "assign", "activate">>}
                    /\ op' = [op EXCEPT ![p] = [name |-> IF positive THEN "repeat" ELSE "stop",
                                                on |-> t, todo |-> todo]]
                    /\ OpTypes'
           /\ stop_timer(p, t) =>
                op' = [op EXCEPT ![p] = [name |-> "stop", on |-> t, todo |-> <<"del", "assign">>]] /\ OpTypes'
           /\ remove(p, t) =>
                op' = [op EXCEPT ![p] = [name |-> "remove", on |-> t, todo |-> <<"del">>]] /\ OpTypes'
<1> USE Listed
<1>1. ASSUME NEW name \in TimerCalls, NEW todo \in Left(name), MayCall(p), Enter(p, name, t, todo),
             used \subseteq used', t \in used'
      PROVE  op' = [op EXCEPT ![p] = [name |-> name, on |-> t, todo |-> todo]] /\ OpTypes'
  <2>1. name \in Names /\ name # "call_get" /\ name \notin {"none", "quit"}
    BY Zenon
  <2> QED BY <1>1, <2>1, Entered, Zenon
<1>2. /\ "add_entry" \in TimerCalls /\ "wake" \in TimerCalls /\ "repeat" \in TimerCalls
      /\ "stop" \in TimerCalls /\ "remove" \in TimerCalls
  BY Zenon DEF TimerCalls
<1>3. ASSUME add_entry(p, t, once, delay)
      PROVE  \E todo \in Left("add_entry") :
                op' = [op EXCEPT ![p] = [name |-> "add_entry", on |-> t, todo |-> todo]] /\ OpTypes'
  <2> DEFINE todo == IF delay THEN <<"add">> ELSE IF once THEN <<"add0">> ELSE <<>>
  <2>1. todo \in Left("add_entry")
    BY Zenon
  <2>2. MayCall(p) /\ Enter(p, "add_entry", t, todo) /\ used \subseteq used' /\ t \in used'
    BY <1>3, Zenon DEF add_entry
  <2> HIDE DEF todo
  <2> QED BY <1>1, <1>2, <2>1, <2>2, Zenon
<1>4. Found(p, t) => MayCall(p) /\ t \in used
  BY Zenon DEF Found, TimerTypes
<1>5. ASSUME wake(p, t)
      PROVE  op' = [op EXCEPT ![p] = [name |-> "wake", on |-> t, todo |-> <<"activate">>]] /\ OpTypes'
  <2>1. MayCall(p) /\ Enter(p, "wake", t, <<"activate">>) /\ used \subseteq used' /\ t \in used'
    BY <1>4, <1>5, Zenon DEF wake, timerVars
  <2> QED BY <1>1, <1>2, <2>1, Zenon
<1>6. ASSUME repeat(p, t, positive, now)
      PROVE  \E todo \in Left(IF positive THEN "repeat" ELSE "stop") :
                /\ ~positive => todo \in {<<"del", "assign">>, <<"del", "assign", "activate">>}
                /\ op' = [op EXCEPT ![p] = [name |-> IF positive THEN "repeat" ELSE "stop",
                                            on |-> t, todo |-> todo]]
                /\ OpTypes'
  <2> DEFINE todo == IF positive THEN Arm(now) ELSE Disarm(now)
             name == IF positive THEN "repeat" ELSE "stop"
  <2>1. todo \in IF positive THEN {<<"add">>, <<"add", "activate">>}
                             ELSE {<<"del", "assign">>, <<"del", "assign", "activate">>}
    BY Zenon DEF Arm, Disarm
  <2>2. MayCall(p) /\ Enter(p, name, t, todo) /\ used \subseteq used' /\ t \in used'
    BY <1>4, <1>6, Zenon DEF repeat, timerVars
  <2>3. name \in TimerCalls
    BY <1>2, Zenon
  <2>4. todo \in Left(name)
    BY <2>1, Zenon
  <2> HIDE DEF todo, name
  <2>5. op' = [op EXCEPT ![p] = [name |-> name, on |-> t, todo |-> todo]] /\ OpTypes'
    BY <1>1, <2>2, <2>3, <2>4, Zenon
  <2>6. ~positive => todo \in {<<"del", "assign">>, <<"del", "assign", "activate">>}
    BY <2>1, Zenon
  <2> QED BY <2>4, <2>5, <2>6, Zenon DEF name
<1>7. ASSUME stop_timer(p, t)
      PROVE  op' = [op EXCEPT ![p] = [name |-> "stop", on |-> t, todo |-> <<"del", "assign">>]] /\ OpTypes'
  <2>1. MayCall(p) /\ Enter(p, "stop", t, <<"del", "assign">>) /\ used \subseteq used' /\ t \in used'
    BY <1>4, <1>7, Zenon DEF stop_timer, timerVars, Disarm
  <2> QED BY <1>1, <1>2, <2>1, Zenon
<1>8. ASSUME remove(p, t)
      PROVE  op' = [op EXCEPT ![p] = [name |-> "remove", on |-> t, todo |-> <<"del">>]] /\ OpTypes'
  <2>1. MayCall(p) /\ Enter(p, "remove", t, <<"del">>) /\ used \subseteq used' /\ t \in used'
    BY <1>4, <1>8, Zenon DEF remove
  <2> QED BY <1>1, <1>2, <2>1, Zenon
<1> QED BY <1>3, <1>5, <1>6, <1>7, <1>8, Zenon

\* The two halves of stop().
LEMMA StopJobsDoes ==
    ASSUME OpTypes, StopJobs
    PROVE  /\ op[Loop].name = "quit" /\ op[Loop].todo = <<"jobs", "registry">>
           /\ op' = [op EXCEPT ![Loop] = LeftWith(op[Loop], IF running THEN <<"registry">> ELSE <<>>)]
<1>1. op[Loop].name = "quit" /\ op[Loop].todo \in Left("quit")
  BY Kinds, Zenon DEF StopJobs, Threads
<1>2. op[Loop].todo = <<"jobs", "registry">>
  <2>1. op[Loop].todo \in {<<"jobs", "registry">>, <<"registry">>, <<>>}
    BY <1>1, Zenon DEF Left
  <2>2. op[Loop].todo # <<>> /\ op[Loop].todo[1] = "jobs"
    BY Zenon DEF StopJobs
  <2> QED BY <2>1, <2>2, Tails, Zenon
<1>3. Tail(<<"jobs", "registry">>) = <<"registry">>
  BY Tails
<1> QED BY <1>1, <1>2, <1>3, Zenon DEF StopJobs

\* The second half of stop() is the last thing it has to do.
LEMMA StopRegistryDoes ==
    ASSUME OpTypes, StopRegistry
    PROVE  /\ op[Loop].name = "quit" /\ op[Loop].todo = <<"registry">>
           /\ op' = [op EXCEPT ![Loop] = LeftWith(op[Loop], <<>>)]
<1>1. op[Loop].name = "quit" /\ op[Loop].todo \in Left("quit")
  BY Kinds, Zenon DEF StopRegistry, Threads
<1>2. op[Loop].todo = <<"registry">>
  <2>1. op[Loop].todo \in {<<"jobs", "registry">>, <<"registry">>, <<>>}
    BY <1>1, Zenon DEF Left
  <2>2. op[Loop].todo # <<>> /\ op[Loop].todo[1] = "registry"
    BY Zenon DEF StopRegistry
  <2> QED BY <2>1, <2>2, Tails
<1> QED BY <1>1, <1>2, Zenon DEF StopRegistry

\* Calls of stop(), on the loop or for another thread.
LEMMA QuitEntered ==
    ASSUME OpTypes, used' = used, calls' \in 0..MaxCalls, NEW p \in Threads,
           NEW todo \in {<<"jobs", "registry">>, <<>>},
           op' = [op EXCEPT ![p] = [name |-> "quit", on |-> Idle, todo |-> todo]]
    PROVE  OpTypes'
<1> DEFINE c == [name |-> "quit", on |-> Idle, todo |-> todo]
<1>1. todo \in Left("quit") /\ "quit" \in Names /\ "quit" \notin TimerCalls
  BY Listed, Zenon
<1>2. todo \in Seq(LibCalls)
  BY <1>1, LeftCalls, Zenon
<1>3. /\ c \in [name : Names, on : Jobs \cup Timers \cup {Idle}, todo : Seq(LibCalls)]
      /\ c.name = "quit" /\ c.on = Idle /\ c.todo = todo
  BY <1>1, <1>2, Zenon
<1> HIDE DEF c
<1> QED BY <1>1, <1>3, OpStep, Zenon DEF c

\* Every step keeps the calls in progress well formed.
LEMMA OpTypesNext ==
    ASSUME JobInv, TimerTypes, OpTypes, Loops, Next
    PROVE  OpTypes'
<1>1. calls \in 0..MaxCalls
  BY Zenon DEF OpTypes, Calling
<1>2. ASSUME used' = used, op' = op, calls' = calls \/ (calls < MaxCalls /\ calls' = calls + 1)
      PROVE  OpTypes'
  BY <1>1, <1>2, OpSame, JobQueueAssumption
<1>3. ASSUME NEW u \in Users, NEW j \in Jobs, call_get(u, j)
      PROVE  OpTypes'
  <2>1. MayCall(u) /\ Enter(u, "call_get", j, <<>>) /\ used \subseteq used' /\ u \in Threads
    BY <1>3, Zenon DEF call_get, timerVars, Threads
  <2>2. "call_get" \notin TimerCalls /\ <<>> \in Left("call_get") /\ "call_get" \in Names
    BY Listed, Zenon
  <2> QED BY <2>1, <2>2, Entered, Zenon
<1>4. ASSUME NEW p \in Threads, NEW t \in Timers, NEW once \in BOOLEAN, NEW delay \in BOOLEAN,
             \/ add_entry(p, t, once, delay) \/ wake(p, t) \/ stop_timer(p, t) \/ remove(p, t)
             \/ repeat(p, t, once, delay)
      PROVE  OpTypes'
  BY <1>4, TimerCallEntered, Zenon
<1>5. ASSUME NEW p \in Threads, LibStep(p)
      PROVE  OpTypes'
  <2>1. op' = [op EXCEPT ![p] = LeftWith(op[p], Tail(op[p].todo))] /\ Tail(op[p].todo) \in Left(op[p].name)
    BY <1>5, LibStepDoes, Zenon
  <2>2. used' = used /\ calls' = calls
    BY <1>5, Zenon DEF LibStep, timerVars
  <2> QED BY <2>1, <2>2, GoesOn, Zenon
<1>6. ASSUME NEW p \in Threads, Return(p)
      PROVE  OpTypes'
  BY <1>6, Returned, Zenon DEF Return, timerVars
<1>7. ASSUME NEW u \in Users, call_get_returns(u)
      PROVE  OpTypes'
  BY <1>7, Returned, Zenon DEF call_get_returns, timerVars, Threads
<1>8. ASSUME NEW t \in Timers, CallbackReturns(t)
      PROVE  OpTypes'
  <2>1. used' = used /\ calls' = calls
    BY <1>8, Zenon DEF CallbackReturns
  <2>2. CASE t \in one_shot \cap registry
    <3> DEFINE c == [name |-> "disposal", on |-> t, todo |-> <<"del">>]
    <3>1. op' = [op EXCEPT ![Loop] = c] /\ t \in used
      BY <1>8, <2>2, Zenon DEF CallbackReturns, TimerTypes
    <3>2. /\ "disposal" \in Names /\ <<"del">> \in Left("disposal")
          /\ "disposal" \notin {"none", "quit", "call_get"}
      BY Listed, Zenon DEF TimerCalls
    <3>3. <<"del">> \in Seq(LibCalls)
      BY <3>2, LeftCalls, Zenon
    <3>4. /\ c \in [name : Names, on : Jobs \cup Timers \cup {Idle}, todo : Seq(LibCalls)]
          /\ c.name = "disposal" /\ c.on = t /\ c.todo = <<"del">>
      BY <3>2, <3>3, Zenon
    <3>5. Loop \in Threads
      BY Zenon DEF Threads
    <3> HIDE DEF c
    <3> QED BY <1>1, <2>1, <3>1, <3>2, <3>4, <3>5, OpStep, Zenon
  <2>3. CASE t \notin one_shot \cap registry
    <3>1. op' = op
      BY <1>8, <2>3, Zenon DEF CallbackReturns
    <3> QED BY <1>2, <2>1, <3>1, Zenon
  <2> QED BY <2>2, <2>3, Zenon
<1>9. ASSUME NEW p \in Threads, stop(p)
      PROVE  OpTypes'
  <2>1. /\ op' = [op EXCEPT ![p] = [name |-> "quit", on |-> Idle,
                                    todo |-> IF p = Loop THEN <<"jobs", "registry">> ELSE <<>>]]
        /\ used' = used /\ calls < MaxCalls /\ calls' = calls + 1
    BY <1>9, Zenon DEF stop, Enter, MayCall, timerVars
  <2>2. calls' \in 0..MaxCalls
    BY <1>1, <2>1, JobQueueAssumption
  <2> QED BY <2>1, <2>2, QuitEntered, Zenon
<1>10. ASSUME NEW u \in Users, MainQueueStops(u)
       PROVE  OpTypes'
  <2>1. /\ op' = [op EXCEPT ![Loop] = [name |-> "quit", on |-> Idle, todo |-> <<"jobs", "registry">>]]
        /\ used' = used /\ calls' = calls /\ Loop \in Threads
    BY <1>10, Zenon DEF MainQueueStops, timerVars, Threads
  <2> QED BY <1>1, <2>1, QuitEntered, Zenon
<1>11. ASSUME StopJobs
       PROVE  OpTypes'
  <2>1. /\ used' = used /\ calls' = calls /\ Loop \in Threads
        /\ (IF running THEN <<"registry">> ELSE <<>>) \in Left(op[Loop].name)
    BY <1>11, StopJobsDoes, Listed, Zenon DEF StopJobs, timerVars, Threads
  <2> QED BY <1>11, <2>1, StopJobsDoes, GoesOn, Zenon
<1>12. ASSUME StopRegistry
       PROVE  OpTypes'
  <2>1. used' = used /\ calls' = calls /\ Loop \in Threads /\ <<>> \in Left(op[Loop].name)
    BY <1>12, StopRegistryDoes, Listed, Zenon DEF StopRegistry, Threads
  <2> QED BY <1>12, <2>1, StopRegistryDoes, GoesOn, Zenon
<1>13. ASSUME StopReturns
       PROVE  OpTypes'
  <2>1. used' = used /\ calls' = calls
        /\ op' = [p \in Threads |-> IF p = Loop \/ p = at THEN NoCall ELSE op[p]]
    BY <1>13, Zenon DEF StopReturns, timerVars
  <2>2. /\ NoCall \in [name : Names, on : Jobs \cup Timers \cup {Idle}, todo : Seq(LibCalls)]
        /\ NoCall.name = "none" /\ NoCall.on = Idle /\ NoCall.todo = <<>>
    BY DEF NoCall, Names
  <2>3. Calling'
    BY <2>1, <2>2, Zenon DEF OpTypes, Calling
  <2> SUFFICES ASSUME NEW q \in Threads PROVE Formed(q)'
    BY <2>3, Zenon DEF OpTypes
  <2>4. CASE op'[q] = op[q]
    <3>1. Formed(q)
      BY Zenon DEF OpTypes
    <3> QED BY <2>1, <2>4, <3>1, Zenon DEF Formed, OnWhat
  <2>5. CASE op'[q] = NoCall
    BY <2>2, <2>5, Zenon DEF Formed, OnWhat, Left
  <2> QED BY <2>1, <2>4, <2>5, Zenon
<1>14. CASE LoopStep
  <2>1. CASE WakerFires \/ SwapQueue \/ NextJob \/ JobReturns \/ BatchEnds
    BY <1>2, <2>1, Zenon DEF WakerFires, SwapQueue, NextJob, TakeJob, JobReturns, BatchEnds, timerVars
  <2>2. CASE \E t \in Timers : Dispatch(t)
    BY <1>2, <2>2, Zenon DEF Dispatch, timerVars
  <2> QED BY <1>5, <1>6, <1>8, <1>10, <1>11, <1>12, <1>13, <1>14, <2>1, <2>2, Zenon DEF LoopStep, Threads
<1>15. CASE \E u \in Users : UserStep(u)
  BY <1>5, <1>6, <1>7, <1>15, Zenon DEF UserStep, Threads
<1>16. CASE \E t \in Timers : Expire(t)
  BY <1>2, <1>16, Zenon DEF Expire, timerVars
<1>17. CASE Calls
  <2>1. ASSUME NEW p \in Threads, NEW j \in Jobs, call_soon(p, j)
        PROVE  OpTypes'
    BY <1>2, <2>1, Zenon DEF call_soon, timerVars, MayCall
  <2> QED BY <1>3, <1>4, <1>9, <1>17, <2>1, Zenon DEF Calls
<1> QED BY <1>14, <1>15, <1>16, <1>17, Zenon DEF Next

-----------------------------------------------------------------------------
(* What the steps do to the calls.                                         *)

\* Only p's call changes, to this.
Sets(p, name, on, todo) ==
    /\ op'[p].name = name /\ op'[p].on = on /\ op'[p].todo = todo
    /\ \A q \in Threads : q # p => op'[q] = op[q]

\* A step that sets the call of one thread.
LEMMA SetsCall ==
    ASSUME OpTypes, NEW p \in Threads, NEW name, NEW on, NEW todo,
           op' = [op EXCEPT ![p] = [name |-> name, on |-> on, todo |-> todo]]
    PROVE  Sets(p, name, on, todo)
<1>1. op'[p] = [name |-> name, on |-> on, todo |-> todo]
  BY Zenon DEF OpTypes, Calling
<1>2. \A q \in Threads : q # p => op'[q] = op[q]
  BY Zenon DEF OpTypes, Calling
<1> QED BY <1>1, <1>2 DEF Sets

\* A thread that may make a call is in none; the loop's makes one inside a job or a callback only.
LEMMA Caller ==
    ASSUME NEW p \in Threads, MayCall(p)
    PROVE  /\ op[p].name = "none" /\ op[p].on = Idle /\ op[p].todo = <<>>
           /\ p = Loop => at \in Jobs \cup Timers
  BY DEF MayCall, NoCall

\* The calls on timers.
Enters(p, t) ==
    /\ MayCall(p) /\ p \in owner[t] /\ at' = at /\ UNCHANGED <<owner, jobVars, eventVars, fired, removed, quit>>
    /\ \/ /\ t \notin used /\ ~registry_stopped
          /\ used' = used \cup {t} /\ registry' = registry \cup {t}
          /\ one_shot' \in {one_shot, one_shot \cup {t}}
          /\ UNCHANGED <<registry_stopped, halted>>
          /\ \E todo \in Left("add_entry") : Sets(p, "add_entry", t, todo)
       \/ /\ t \in registry \ one_shot /\ UNCHANGED <<timerVars, halted>>
          /\ Sets(p, "wake", t, <<"activate">>)
       \/ /\ t \in registry \ one_shot /\ UNCHANGED timerVars /\ halted' = halted \ {t}
          /\ \E todo \in Left("repeat") : Sets(p, "repeat", t, todo)
       \/ /\ t \in registry \ one_shot /\ UNCHANGED <<timerVars, halted>>
          /\ \E todo \in {<<"del", "assign">>, <<"del", "assign", "activate">>} : Sets(p, "stop", t, todo)
       \/ /\ t \in registry \ one_shot /\ registry' = registry \ {t}
          /\ UNCHANGED <<registry_stopped, one_shot, used, halted>>
          /\ Sets(p, "remove", t, <<"del">>)

\* The calls on a timer, as what they enter.
LEMMA EntersCall ==
    ASSUME TimerTypes, OpTypes, UNCHANGED owner, NEW p \in Threads, NEW t \in Timers,
           NEW once \in BOOLEAN, NEW delay \in BOOLEAN,
           \/ add_entry(p, t, once, delay) \/ wake(p, t) \/ stop_timer(p, t) \/ remove(p, t)
           \/ repeat(p, t, once, delay)
    PROVE  Enters(p, t)
<1>1. CASE add_entry(p, t, once, delay)
  <2>1. PICK todo \in Left("add_entry") :
            op' = [op EXCEPT ![p] = [name |-> "add_entry", on |-> t, todo |-> todo]] /\ OpTypes'
    BY <1>1, TimerCallEntered
  <2>2. Sets(p, "add_entry", t, todo)
    BY <2>1, SetsCall, Zenon
  <2> QED BY <1>1, <2>2, Zenon DEF add_entry, Enters, ghosts
<1>2. CASE wake(p, t)
  <2>1. Sets(p, "wake", t, <<"activate">>)
    BY <1>2, TimerCallEntered, SetsCall, Zenon
  <2> QED BY <1>2, <2>1, Zenon DEF wake, Enters, Found, ghosts
<1>3. CASE stop_timer(p, t)
  <2>1. Sets(p, "stop", t, <<"del", "assign">>)
    BY <1>3, TimerCallEntered, SetsCall, Zenon
  <2> QED BY <1>3, <2>1, Zenon DEF stop_timer, Enters, Found, ghosts
<1>4. CASE remove(p, t)
  <2>1. Sets(p, "remove", t, <<"del">>)
    BY <1>4, TimerCallEntered, SetsCall, Zenon
  <2> QED BY <1>4, <2>1, Zenon DEF remove, Enters, Found, ghosts
<1>5. CASE repeat(p, t, once, delay)
  <2>1. PICK todo \in Left(IF once THEN "repeat" ELSE "stop") :
            /\ ~once => todo \in {<<"del", "assign">>, <<"del", "assign", "activate">>}
            /\ op' = [op EXCEPT ![p] = [name |-> IF once THEN "repeat" ELSE "stop", on |-> t, todo |-> todo]]
            /\ OpTypes'
    BY <1>5, TimerCallEntered
  <2>2. Sets(p, IF once THEN "repeat" ELSE "stop", t, todo)
    BY <2>1, SetsCall, Zenon
  <2>3. Found(p, t) /\ UNCHANGED <<jobVars, timerVars, eventVars, fired, removed, quit, at>>
        /\ halted' = IF once THEN halted \ {t} ELSE halted
    BY <1>5, Zenon DEF repeat
  <2>4. CASE once
    BY <2>1, <2>2, <2>3, <2>4, Zenon DEF Enters, Found
  <2>5. CASE ~once
    BY <2>1, <2>2, <2>3, <2>5, Zenon DEF Enters, Found
  <2> QED BY <2>4, <2>5, Zenon
<1> QED BY <1>1, <1>2, <1>3, <1>4, <1>5, Zenon

\* The other steps of the calls.
Quiescent == UNCHANGED <<owner, timerVars, eventVars, ghosts>>
Gets(u, j) == MayCall(u) /\ Sets(u, "call_get", j, <<>>) /\ Quiescent /\ at' = at
GetEnds(u) == op[u].name = "call_get" /\ Sets(u, "none", Idle, <<>>) /\ Quiescent /\ at' = at
Quits(p) ==
    /\ MayCall(p) /\ Quiescent /\ at' = at
    /\ Sets(p, "quit", Idle, IF p = Loop THEN <<"jobs", "registry">> ELSE <<>>)
MainQuits(u) ==
    /\ at = "idle" /\ at' = u /\ op[u].name = "quit" /\ Quiescent
    /\ Sets(Loop, "quit", Idle, <<"jobs", "registry">>)
HalfStops ==
    /\ op[Loop].name = "quit" /\ op[Loop].todo = <<"jobs", "registry">> /\ Quiescent /\ at' = at
    /\ Sets(Loop, "quit", Idle, IF running THEN <<"registry">> ELSE <<>>)
Libs(p) ==
    /\ op[p].on \in used /\ op[p].name \in TimerCalls /\ UNCHANGED <<owner, jobVars, timerVars, ghosts, at>>
    /\ Sets(p, op[p].name, op[p].on, Tail(op[p].todo))
    /\ LibDoes(p, op[p].on, op[p].todo, Tail(op[p].todo))
Returns(p) ==
    /\ op[p].on \in used /\ op[p].name \in TimerCalls /\ op[p].todo = <<>> /\ Return(p)
    /\ Sets(p, "none", Idle, <<>>)
OneShotEnds(t) ==
    /\ at = t /\ at' = t /\ op[Loop].name = "none" /\ t \in one_shot \cap registry
    /\ registry' = registry \ {t} /\ Sets(Loop, "disposal", t, <<"del">>)
    /\ UNCHANGED <<owner, jobVars, registry_stopped, one_shot, used, eventVars, ghosts>>
CallbackEnds(t) ==
    /\ at = t /\ at' = "idle" /\ op[Loop].name = "none" /\ t \notin one_shot \cap registry
    /\ UNCHANGED <<owner, jobVars, timerVars, eventVars, ghosts, op>>
RegistryStops ==
    /\ op[Loop].name = "quit" /\ op[Loop].todo = <<"registry">>
    /\ registry_stopped' = TRUE /\ registry' = {} /\ Dispose({t \in registry : Holders(t) = {}})
    /\ Sets(Loop, "quit", Idle, <<>>)
    /\ UNCHANGED <<owner, one_shot, used, jobVars, ghosts, at>>
QuitEnds ==
    /\ op[Loop].name = "quit" /\ op[Loop].todo = <<>>
    /\ \A p \in Threads : IF p = Loop \/ p = at THEN op'[p].name = "none" /\ op'[p].on = Idle /\ op'[p].todo = <<>>
                          ELSE op'[p] = op[p]
    /\ at' = (IF at \in Users THEN "idle" ELSE at)
    /\ quit' = (quit \/ at \in Users)
    /\ UNCHANGED <<owner, jobVars, timerVars, eventVars, fired, halted, removed>>

\* What the calls on jobs and the steps of stop() do to the calls in progress.
LEMMA OtherCalls ==
    ASSUME TimerTypes, OpTypes, UNCHANGED owner
    PROVE  /\ \A u \in Users, j \in Jobs : call_get(u, j) => Gets(u, j)
           /\ \A u \in Users : call_get_returns(u) => GetEnds(u)
           /\ \A p \in Threads : stop(p) => Quits(p)
           /\ \A u \in Users : MainQueueStops(u) => MainQuits(u)
           /\ StopJobs => HalfStops
<1>1. Loop \in Threads /\ Users \subseteq Threads
  BY Zenon DEF Threads
<1>2. ASSUME NEW u \in Users, NEW j \in Jobs, call_get(u, j)
      PROVE  Gets(u, j)
  <2>1. Sets(u, "call_get", j, <<>>)
    BY <1>1, <1>2, SetsCall, Zenon DEF call_get, Enter
  <2> QED BY <1>2, <2>1, Zenon DEF call_get, Gets, Quiescent
<1>3. ASSUME NEW u \in Users, call_get_returns(u)
      PROVE  GetEnds(u)
  <2>1. Sets(u, "none", Idle, <<>>)
    BY <1>1, <1>3, SetsCall, Zenon DEF call_get_returns, NoCall
  <2> QED BY <1>3, <2>1, Zenon DEF call_get_returns, GetEnds, Quiescent
<1>4. ASSUME NEW p \in Threads, stop(p)
      PROVE  Quits(p)
  <2>1. Sets(p, "quit", Idle, IF p = Loop THEN <<"jobs", "registry">> ELSE <<>>)
    BY <1>4, SetsCall, Zenon DEF stop, Enter
  <2> QED BY <1>4, <2>1, Zenon DEF stop, Quits, Quiescent
<1>5. ASSUME NEW u \in Users, MainQueueStops(u)
      PROVE  MainQuits(u)
  <2>1. Sets(Loop, "quit", Idle, <<"jobs", "registry">>)
    BY <1>1, <1>5, SetsCall, Zenon DEF MainQueueStops
  <2> QED BY <1>5, <2>1, Zenon DEF MainQueueStops, MainQuits, Quiescent
<1>6. ASSUME StopJobs
      PROVE  HalfStops
  <2>1. /\ op[Loop].name = "quit" /\ op[Loop].todo = <<"jobs", "registry">> /\ op[Loop].on = Idle
        /\ op' = [op EXCEPT ![Loop] = LeftWith(op[Loop], IF running THEN <<"registry">> ELSE <<>>)]
    BY <1>1, <1>6, StopJobsDoes, Kinds, Zenon
  <2>2. Sets(Loop, "quit", Idle, IF running THEN <<"registry">> ELSE <<>>)
    BY <1>1, <2>1, SetsCall, Zenon DEF LeftWith
  <2> QED BY <1>6, <2>1, <2>2, Zenon DEF StopJobs, HalfStops, Quiescent
<1> QED BY <1>2, <1>3, <1>4, <1>5, <1>6, Zenon

\* The steps that enter no call.
LEMMA OtherSteps ==
    ASSUME TimerTypes, OpTypes, UNCHANGED owner
    PROVE  /\ \A p \in Threads : LibStep(p) => Libs(p)
           /\ \A p \in Threads : Return(p) => Returns(p)
           /\ \A t \in Timers : CallbackReturns(t) => OneShotEnds(t) \/ CallbackEnds(t)
           /\ StopRegistry => RegistryStops
           /\ StopReturns => QuitEnds
<1>1. Loop \in Threads /\ Users \subseteq Threads
  BY Zenon DEF Threads
<1>2. ASSUME NEW p \in Threads, LibStep(p)
      PROVE  Libs(p)
  <2>1. Sets(p, op[p].name, op[p].on, Tail(op[p].todo))
    BY <1>2, LibStepDoes, SetsCall, Zenon DEF LeftWith
  <2>2. UNCHANGED <<jobVars, timerVars, ghosts, at>>
    BY <1>2, Zenon DEF LibStep
  <2> QED BY <1>2, <2>1, <2>2, LibStepDoes, Zenon DEF Libs
<1>3. ASSUME NEW p \in Threads, Return(p)
      PROVE  Returns(p)
  <2>1. Sets(p, "none", Idle, <<>>)
    BY <1>3, SetsCall, Zenon DEF Return, NoCall
  <2>2. op[p].on \in Timers /\ op[p].todo = <<>>
    BY <1>3, Zenon DEF Return
  <2> QED BY <1>3, <2>1, <2>2, OnTimer, Kinds, Zenon DEF Returns
<1>4. ASSUME NEW t \in Timers, CallbackReturns(t)
      PROVE  OneShotEnds(t) \/ CallbackEnds(t)
  <2>1. op[Loop].name = "none" /\ at = t
    BY <1>4 DEF CallbackReturns, NoCall
  <2>2. CASE t \in one_shot \cap registry
    <3>1. Sets(Loop, "disposal", t, <<"del">>)
      BY <1>1, <1>4, <2>2, SetsCall, Zenon DEF CallbackReturns
    <3> QED BY <1>4, <2>1, <2>2, <3>1, Zenon DEF CallbackReturns, OneShotEnds
  <2>3. CASE t \notin one_shot \cap registry
    BY <1>4, <2>1, <2>3, Zenon DEF CallbackReturns, CallbackEnds, timerVars
  <2> QED BY <2>2, <2>3, Zenon
<1>5. ASSUME StopRegistry
      PROVE  RegistryStops
  <2>1. /\ op[Loop].name = "quit" /\ op[Loop].todo = <<"registry">> /\ op[Loop].on = Idle
        /\ op' = [op EXCEPT ![Loop] = LeftWith(op[Loop], <<>>)]
    BY <1>1, <1>5, StopRegistryDoes, Kinds, Zenon
  <2>2. Sets(Loop, "quit", Idle, <<>>)
    BY <1>1, <2>1, SetsCall, Zenon DEF LeftWith
  <2> QED BY <1>5, <2>1, <2>2, Zenon DEF StopRegistry, RegistryStops
<1>6. ASSUME StopReturns
      PROVE  QuitEnds
  <2>1. \A p \in Threads : op'[p] = IF p = Loop \/ p = at THEN NoCall ELSE op[p]
    BY <1>6, Zenon DEF StopReturns
  <2>2. \A p \in Threads : IF p = Loop \/ p = at THEN op'[p].name = "none" /\ op'[p].on = Idle /\ op'[p].todo = <<>>
                           ELSE op'[p] = op[p]
    BY <2>1 DEF NoCall
  <2> QED BY <1>6, <2>2, Zenon DEF StopReturns, QuitEnds
<1> QED BY <1>2, <1>3, <1>4, <1>5, <1>6, Zenon

-----------------------------------------------------------------------------
(* Where the loop is, and how far stop() is.                               *)

LoopInv == Loops /\ Stopping

\* A step that leaves the calls alone.
LEMMA LoopInvSame ==
    ASSUME TimerTypes, LoopInv, UNCHANGED <<op, running, registry, registry_stopped>>,
           at' = at \/ (op[Loop].name = "none" /\ at' \notin Users)
    PROVE  LoopInv'
<1>1. Loops'
  BY Zenon DEF LoopInv, Loops
<1>2. Stopping'
  BY Zenon DEF LoopInv, Stopping
<1> QED BY <1>1, <1>2, Zenon DEF LoopInv

\* Entering a call keeps what is said of the loop thread.
LEMMA LoopInvEnters ==
    ASSUME TimerTypes, OpTypes, LoopInv, NEW p \in Threads, NEW t \in Timers, Enters(p, t)
    PROVE  LoopInv'
<1>1. at' = at /\ running' = running /\ registry_stopped' = registry_stopped
  BY Zenon DEF Enters, jobVars, timerVars
<1>2. op[p].name = "none" /\ (p = Loop => at \in Jobs \cup Timers)
  BY Caller, Zenon DEF Enters
<1>3. PICK name \in {"add_entry", "wake", "repeat", "stop", "remove"}, todo \in UNION {Left(n) : n \in Names} : Sets(p, name, t, todo)
  <2>1. /\ <<"activate">> \in Left("wake") /\ <<"del">> \in Left("remove")
        /\ <<"del", "assign">> \in Left("stop") /\ <<"del", "assign", "activate">> \in Left("stop")
        /\ "add_entry" \in Names /\ "wake" \in Names /\ "repeat" \in Names /\ "stop" \in Names /\ "remove" \in Names
    BY Listed, Zenon DEF Names
  <2> QED BY <2>1, Zenon DEF Enters
<1>4. op'[p].name = name /\ \A q \in Threads : q # p => op'[q] = op[q]
  BY <1>3, Zenon DEF Sets
<1>5. Loop \in Threads /\ Users \subseteq Threads /\ Loop \notin Users
  BY JobQueueAssumption, Zenon DEF Threads
<1>6. registry_stopped => registry' = {}
  BY Zenon DEF Enters, LoopInv, Stopping
<1>7. Loops'
  BY <1>1, <1>2, <1>4, <1>5, JobQueueAssumption, Zenon DEF LoopInv, Loops
<1>8. Stopping'
  <2>1. op'[Loop].name = "quit" => op'[Loop] = op[Loop]
    BY <1>4, <1>5, Zenon
  <2>2. op[Loop].name = "quit" => op'[Loop] = op[Loop]
    BY <1>2, <1>4, <1>5, Zenon
  <2> QED BY <1>1, <1>6, <2>1, <2>2, Zenon DEF LoopInv, Stopping
<1> QED BY <1>7, <1>8, Zenon DEF LoopInv

\* A step of a call that is not stop().
LEMMA LoopInvCall ==
    ASSUME OpTypes, LoopInv, NEW p \in Threads, op[p].name # "quit",
           op'[p].name \in {op[p].name, "none"} \/ (p # Loop /\ op'[p].name = "call_get"),
           op'[p].on = op[p].on \/ op'[p].name # "disposal",
           \A q \in Threads : q # p => op'[q] = op[q],
           UNCHANGED <<running, registry, registry_stopped>>,
           at' = at \/ (at' = "idle" /\ p = Loop /\ op'[Loop].name = "none")
    PROVE  LoopInv'
<1>1. Loop \in Threads /\ Users \subseteq Threads /\ Loop \notin Users
  BY JobQueueAssumption, Zenon DEF Threads
<1>2. Loops'
  BY <1>1, JobQueueAssumption DEF LoopInv, Loops
<1>3. (op'[Loop].name = "quit" => op'[Loop] = op[Loop]) /\ (op[Loop].name = "quit" => op'[Loop] = op[Loop])
  BY <1>1, Zenon
<1>4. Stopping'
  BY <1>3, Zenon DEF LoopInv, Stopping
<1> QED BY <1>2, <1>4, Zenon DEF LoopInv

\* The steps of stop().
LEMMA LoopInvStop ==
    ASSUME JobInv, TimerTypes, OpTypes, LoopInv,
           \/ \E p \in Threads : Quits(p) /\ running' = running
           \/ \E u \in Users : MainQuits(u) /\ running' = running
           \/ HalfStops /\ running' = FALSE
           \/ RegistryStops \/ QuitEnds
    PROVE  LoopInv'
<1>1. Loop \in Threads /\ Users \subseteq Threads /\ Loop \notin Users
  BY JobQueueAssumption, Zenon DEF Threads
<1>2. <<"jobs", "registry">> # <<"registry">> /\ <<"jobs", "registry">> # <<>> /\ <<"registry">> # <<>>
  BY Zenon
<1>3. ASSUME NEW p \in Threads, Quits(p), running' = running
      PROVE  LoopInv'
  <2>1. /\ op[p].name = "none" /\ (p = Loop => at \in Jobs \cup Timers) /\ at' = at
        /\ registry' = registry /\ registry_stopped' = registry_stopped
    BY <1>3, Caller, Zenon DEF Quits, Quiescent, timerVars
  <2>2. /\ op'[p].name = "quit" /\ op'[p].todo = (IF p = Loop THEN <<"jobs", "registry">> ELSE <<>>)
        /\ \A q \in Threads : q # p => op'[q] = op[q]
    BY <1>3, Zenon DEF Quits, Sets
  <2>3. Loops'
    BY <1>1, <2>1, <2>2, JobQueueAssumption DEF LoopInv, Loops
  <2>4. Stopping'
    BY <1>1, <1>2, <1>3, <2>1, <2>2, Zenon DEF LoopInv, Stopping
  <2> QED BY <2>3, <2>4, Zenon DEF LoopInv
<1>4. ASSUME NEW u \in Users, MainQuits(u), running' = running
      PROVE  LoopInv'
  <2>1. at = "idle" /\ at' = u /\ op[u].name = "quit" /\ registry' = registry /\ registry_stopped' = registry_stopped
    BY <1>4, Zenon DEF MainQuits, Quiescent, timerVars
  <2>2. /\ op'[Loop].name = "quit" /\ op'[Loop].todo = <<"jobs", "registry">>
        /\ \A q \in Threads : q # Loop => op'[q] = op[q]
    BY <1>4, Zenon DEF MainQuits, Sets
  <2>3. op[Loop].name = "none"
    BY <2>1, JobQueueAssumption, Zenon DEF LoopInv, Loops
  <2>4. Loops'
    BY <1>1, <2>1, <2>2, <2>3, Zenon DEF LoopInv, Loops
  <2>5. Stopping'
    BY <1>2, <1>4, <2>1, <2>2, <2>3, Zenon DEF LoopInv, Stopping
  <2> QED BY <2>4, <2>5, Zenon DEF LoopInv
<1>5. ASSUME HalfStops, running' = FALSE
      PROVE  LoopInv'
  <2>1. /\ op[Loop].name = "quit" /\ op[Loop].todo = <<"jobs", "registry">> /\ at' = at
        /\ registry' = registry /\ registry_stopped' = registry_stopped
    BY <1>5, Zenon DEF HalfStops, Quiescent, timerVars
  <2>2. /\ op'[Loop].name = "quit" /\ op'[Loop].todo = (IF running THEN <<"registry">> ELSE <<>>)
        /\ \A q \in Threads : q # Loop => op'[q] = op[q]
    BY <1>5, Zenon DEF HalfStops, Sets
  <2>3. Loops'
    BY <1>1, <2>1, <2>2 DEF LoopInv, Loops
  <2>4. ~running => registry_stopped
    BY <1>2, <2>1, Zenon DEF LoopInv, Stopping
  <2>5. Stopping'
    BY <1>2, <1>5, <2>1, <2>2, <2>4, Zenon DEF LoopInv, Stopping
  <2> QED BY <2>3, <2>5, Zenon DEF LoopInv
<1>6. ASSUME RegistryStops
      PROVE  LoopInv'
  <2>1. /\ op[Loop].name = "quit" /\ op[Loop].todo = <<"registry">> /\ at' = at /\ running' = running
        /\ registry' = {} /\ registry_stopped' = TRUE
    BY <1>6, Zenon DEF RegistryStops, jobVars
  <2>2. /\ op'[Loop].name = "quit" /\ op'[Loop].todo = <<>>
        /\ \A q \in Threads : q # Loop => op'[q] = op[q]
    BY <1>6, Zenon DEF RegistryStops, Sets
  <2>3. Loops'
    BY <1>1, <2>1, <2>2, Zenon DEF LoopInv, Loops
  <2>4. Stopping'
    BY <1>2, <2>1, <2>2, Zenon DEF LoopInv, Stopping
  <2> QED BY <2>3, <2>4, Zenon DEF LoopInv
<1>7. ASSUME QuitEnds
      PROVE  LoopInv'
  <2>1. /\ op[Loop].name = "quit" /\ op[Loop].todo = <<>> /\ at' = (IF at \in Users THEN "idle" ELSE at)
        /\ running' = running /\ registry' = registry /\ registry_stopped' = registry_stopped
    BY <1>7, Zenon DEF QuitEnds, jobVars, timerVars
  <2>2. op'[Loop].name = "none" /\ \A q \in Threads : op'[q] = op[q] \/ op'[q].name = "none"
    BY <1>1, <1>7, Zenon DEF QuitEnds
  <2>3. at' \notin Users
    BY <2>1, JobQueueAssumption, Zenon
  <2>4. Loops'
    BY <1>1, <2>1, <2>2, <2>3 DEF LoopInv, Loops
  <2>5. Stopping'
    BY <1>2, <2>1, <2>2, Zenon DEF LoopInv, Stopping
  <2> QED BY <2>4, <2>5, Zenon DEF LoopInv
<1> QED BY <1>3, <1>4, <1>5, <1>6, <1>7, Zenon

\* Every step is one of these.
QueueStep == WakerFires \/ SwapQueue \/ NextJob \/ JobReturns \/ BatchEnds
StopStep ==
    \/ \E p \in Threads : Quits(p) /\ UNCHANGED jobVars
    \/ \E u \in Users : MainQuits(u) /\ UNCHANGED jobVars
    \/ HalfStops /\ StopJobs
OtherStep ==
    \/ QueueStep \/ StopStep \/ RegistryStops \/ QuitEnds
    \/ \E p \in Threads, j \in Jobs : call_soon(p, j)
    \/ \E u \in Users, j \in Jobs : call_get(u, j) /\ Gets(u, j)
    \/ \E u \in Users : GetEnds(u) /\ UNCHANGED jobVars
    \/ \E p \in Threads : Libs(p) \/ Returns(p)
    \/ \E t \in Timers : OneShotEnds(t) \/ CallbackEnds(t) \/ Expire(t) \/ Dispatch(t)
LEMMA Steps ==
    ASSUME TimerTypes, OpTypes, Next
    PROVE  UNCHANGED owner /\ ((\E p \in Threads, t \in Timers : Enters(p, t)) \/ OtherStep)
<1>1. UNCHANGED owner /\ Loop \in Threads /\ Users \subseteq Threads
  BY Zenon DEF Next, Threads
<1>2. CASE LoopStep
  <2>1. CASE \E u \in Users : MainQueueStops(u)
    BY <1>1, <2>1, OtherCalls, Zenon DEF MainQueueStops, OtherStep, StopStep
  <2>2. CASE StopJobs
    BY <1>1, <2>2, OtherCalls, Zenon DEF OtherStep, StopStep
  <2> QED BY <1>1, <1>2, <2>1, <2>2, OtherSteps, Zenon DEF LoopStep, OtherStep, QueueStep
<1>3. CASE \E u \in Users : UserStep(u)
  BY <1>1, <1>3, OtherCalls, OtherSteps, Zenon DEF UserStep, call_get_returns, OtherStep
<1>4. CASE \E t \in Timers : Expire(t)
  BY <1>1, <1>4, Zenon DEF OtherStep
<1>5. CASE Calls
  <2>1. PICK p \in Threads :
            \/ \E j \in Jobs : call_soon(p, j) \/ (p \in Users /\ call_get(p, j))
            \/ \E t \in Timers :
                  \/ \E once, delay \in BOOLEAN : add_entry(p, t, once, delay)
                  \/ wake(p, t) \/ stop_timer(p, t) \/ remove(p, t)
                  \/ \E positive, now \in BOOLEAN : repeat(p, t, positive, now)
            \/ stop(p)
    BY <1>5, Zenon DEF Calls
  <2>2. CASE \E j \in Jobs : call_soon(p, j) \/ (p \in Users /\ call_get(p, j))
    BY <1>1, <2>2, OtherCalls, Zenon DEF OtherStep
  <2>3. CASE stop(p)
    BY <1>1, <2>3, OtherCalls, Zenon DEF stop, OtherStep, StopStep
  <2>4. ASSUME NEW t \in Timers,
               \/ \E once, delay \in BOOLEAN : add_entry(p, t, once, delay)
               \/ wake(p, t) \/ stop_timer(p, t) \/ remove(p, t)
               \/ \E positive, now \in BOOLEAN : repeat(p, t, positive, now)
        PROVE  Enters(p, t)
    <3>1. \E once, delay \in BOOLEAN : \/ add_entry(p, t, once, delay) \/ wake(p, t) \/ stop_timer(p, t)
                                       \/ remove(p, t) \/ repeat(p, t, once, delay)
      <4>1. TRUE \in BOOLEAN
        BY Zenon
      <4> QED BY <2>4, <4>1, Zenon
    <3> QED BY <1>1, <3>1, EntersCall, Zenon
  <2> QED BY <1>1, <2>1, <2>2, <2>3, <2>4, Zenon
<1> QED BY <1>2, <1>3, <1>4, <1>5, Zenon DEF Next

\* Every step keeps what is said of the loop thread.
LEMMA LoopInvNext ==
    ASSUME JobInv, TimerTypes, OpTypes, LoopInv, Next
    PROVE  LoopInv'
<1>1. CASE \E p \in Threads, t \in Timers : Enters(p, t)
  BY <1>1, LoopInvEnters, Zenon
<1>2. CASE QueueStep
  <2>1. /\ op' = op /\ running' = running /\ registry' = registry /\ registry_stopped' = registry_stopped
        /\ at \in {"idle", "waker", "jobs"} \/ op[Loop] = NoCall
        /\ at' \in {"idle", "waker", "jobs"} \/ (at' = batch[1] /\ batch # <<>>)
    BY <1>2, Zenon DEF QueueStep, WakerFires, SwapQueue, NextJob, TakeJob, JobReturns, BatchEnds, jobVars, timerVars
  <2>2. batch # <<>> => batch[1] \in Jobs
    BY DEF JobInv, JobTypes
  <2>3. op[Loop].name = "none"
    BY <2>1, JobQueueAssumption DEF LoopInv, Loops, NoCall
  <2>4. at' \notin Users
    BY <2>1, <2>2, JobQueueAssumption, Zenon
  <2> QED BY <2>1, <2>3, <2>4, LoopInvSame, Zenon
<1>3. ASSUME NEW p \in Threads, NEW j \in Jobs, call_soon(p, j)
      PROVE  LoopInv'
  BY <1>3, LoopInvSame, Zenon DEF call_soon, timerVars
<1>4. ASSUME NEW t \in Timers, Expire(t)
      PROVE  LoopInv'
  BY <1>4, LoopInvSame, Zenon DEF Expire, jobVars, timerVars
<1>5. ASSUME NEW t \in Timers, Dispatch(t) \/ CallbackEnds(t)
      PROVE  LoopInv'
  <2>1. op' = op /\ running' = running /\ registry' = registry /\ registry_stopped' = registry_stopped
    BY <1>5, Zenon DEF Dispatch, CallbackEnds, jobVars, timerVars
  <2>2. op[Loop].name = "none" /\ at' \notin Users
    BY <1>5, JobQueueAssumption, Zenon DEF Dispatch, CallbackEnds, LoopInv, Loops
  <2> QED BY <2>1, <2>2, LoopInvSame, Zenon
<1>6. CASE StopStep \/ RegistryStops \/ QuitEnds
  BY <1>6, LoopInvStop, Zenon DEF StopStep, StopJobs, jobVars
<1>7. Loop \in Threads /\ Users \subseteq Threads /\ Loop \notin Users
  BY JobQueueAssumption, Zenon DEF Threads
<1>8. ASSUME NEW u \in Users, NEW j \in Jobs, call_get(u, j), Gets(u, j)
      PROVE  LoopInv'
  <2>1. op[u].name = "none" /\ at' = at
    BY <1>7, <1>8, Caller, Zenon DEF Gets
  <2>2. op'[u].name = "call_get" /\ \A q \in Threads : q # u => op'[q] = op[q]
    BY <1>8, Zenon DEF Gets, Sets
  <2>3. UNCHANGED <<running, registry, registry_stopped>>
    BY <1>8, Zenon DEF call_get, timerVars
  <2>4. op[u].name # "quit" /\ op'[u].name # "disposal" /\ u # Loop
    BY <1>7, <2>1, <2>2, Zenon
  <2> QED BY <1>7, <2>1, <2>2, <2>3, <2>4, LoopInvCall, Zenon
<1>9. ASSUME NEW u \in Users, GetEnds(u), UNCHANGED jobVars
      PROVE  LoopInv'
  <2>1. op[u].name = "call_get" /\ at' = at /\ UNCHANGED <<running, registry, registry_stopped>>
    BY <1>9, Zenon DEF GetEnds, Quiescent, jobVars, timerVars
  <2>2. op'[u].name = "none" /\ \A q \in Threads : q # u => op'[q] = op[q]
    BY <1>9, Zenon DEF GetEnds, Sets
  <2>4. op[u].name # "quit" /\ op'[u].name # "disposal" /\ u \in Threads
    BY <1>7, <2>1, <2>2, Zenon
  <2> QED BY <2>1, <2>2, <2>4, LoopInvCall, Zenon
<1>10. ASSUME NEW p \in Threads, Libs(p)
       PROVE  LoopInv'
  <2>1. op[p].name \in TimerCalls /\ at' = at /\ UNCHANGED <<running, registry, registry_stopped>>
    BY <1>10, Zenon DEF Libs, jobVars, timerVars
  <2>2. op'[p].name = op[p].name /\ op'[p].on = op[p].on /\ \A q \in Threads : q # p => op'[q] = op[q]
    BY <1>10, Zenon DEF Libs, Sets
  <2>4. op[p].name # "quit"
    BY <2>1, Zenon DEF TimerCalls
  <2> QED BY <2>1, <2>2, <2>4, LoopInvCall, Zenon
<1>11. ASSUME NEW p \in Threads, Returns(p)
       PROVE  LoopInv'
  <2>1. /\ op[p].name \in TimerCalls /\ UNCHANGED <<running, registry, registry_stopped>>
        /\ at' = IF op[p].name = "disposal" THEN "idle" ELSE at
    BY <1>11, Zenon DEF Returns, Return, jobVars, timerVars
  <2>2. op'[p].name = "none" /\ \A q \in Threads : q # p => op'[q] = op[q]
    BY <1>11, Zenon DEF Returns, Sets
  <2>3. op[p].name = "disposal" => p = Loop
    BY Zenon DEF LoopInv, Loops, Threads
  <2>4. op[p].name # "quit" /\ op'[p].name # "disposal"
    BY <2>1, <2>2, Zenon DEF TimerCalls
  <2>5. at' = at \/ (at' = "idle" /\ p = Loop /\ op'[Loop].name = "none")
    BY <2>1, <2>2, <2>3, Zenon
  <2> QED BY <2>1, <2>2, <2>4, <2>5, LoopInvCall, Zenon
<1>12. ASSUME NEW t \in Timers, OneShotEnds(t)
       PROVE  LoopInv'
  <2>1. /\ at = t /\ at' = t /\ op[Loop].name = "none" /\ t \in registry
        /\ UNCHANGED <<running, registry_stopped>>
    BY <1>12, Zenon DEF OneShotEnds, jobVars
  <2>2. op'[Loop].name = "disposal" /\ op'[Loop].on = t /\ \A q \in Threads : q # Loop => op'[q] = op[q]
    BY <1>12, Zenon DEF OneShotEnds, Sets
  <2>3. Loops'
    BY <1>7, <2>1, <2>2, JobQueueAssumption DEF LoopInv, Loops
  <2>4. Stopping'
    BY <2>1, <2>2, Zenon DEF LoopInv, Stopping
  <2> QED BY <2>3, <2>4, Zenon DEF LoopInv
<1> QED BY <1>1, <1>2, <1>3, <1>4, <1>5, <1>6, <1>8, <1>9, <1>10, <1>11, <1>12, Steps, Zenon DEF OtherStep

\* Every step keeps the jobs in order.
LEMMA JobInvNext ==
    ASSUME JobInv, TimerTypes, OpTypes, LoopInv, Next
    PROVE  JobInv'
<1>1. quit \in BOOLEAN /\ registry_stopped \in BOOLEAN /\ (registry_stopped => ~running)
  BY Zenon DEF JobInv, JobTypes
<1>2. ASSUME UNCHANGED jobVars, UNCHANGED <<registry_stopped, quit, at>>
      PROVE  JobInv'
  BY <1>1, <1>2, JobsAside, Zenon
<1>3. CASE \E p \in Threads, t \in Timers : Enters(p, t)
  BY <1>2, <1>3, Zenon DEF Enters, timerVars
<1>4. CASE QueueStep
  BY <1>4, JobSteps, Zenon DEF QueueStep
<1>5. ASSUME NEW p \in Threads, NEW j \in Jobs, call_soon(p, j)
      PROVE  JobInv'
  BY <1>5, Enqueued, Zenon DEF call_soon, timerVars, ghosts
<1>6. ASSUME NEW u \in Users, NEW j \in Jobs, call_get(u, j)
      PROVE  JobInv'
  BY <1>6, Enqueued, Zenon DEF call_get, timerVars, ghosts
<1>7. CASE StopStep
  <2>1. ASSUME NEW u \in Users, MainQuits(u), UNCHANGED jobVars
        PROVE  JobInv'
    <3>1. at = "idle" /\ at' = u /\ UNCHANGED <<registry_stopped, quit>>
      BY <2>1, Zenon DEF MainQuits, Quiescent, timerVars, ghosts
    <3>2. at \notin {"waker", "jobs"} \cup Jobs
      BY <3>1, JobQueueAssumption, Zenon
    <3> QED BY <1>1, <2>1, <3>1, <3>2, JobsAside, Zenon
  <2> QED BY <1>2, <1>7, <2>1, StopJobsJobs, Zenon DEF StopStep, Quits, Quiescent, timerVars, ghosts
<1>8. CASE RegistryStops
  <2>1. ~running
    BY <1>8, Zenon DEF RegistryStops, LoopInv, Stopping
  <2>2. UNCHANGED <<jobVars, quit, at>> /\ registry_stopped' \in BOOLEAN
    BY <1>8, Zenon DEF RegistryStops, ghosts
  <2> QED BY <1>1, <2>1, <2>2, JobsAside, Zenon
<1>9. CASE QuitEnds
  <2>1. UNCHANGED <<jobVars, registry_stopped>> /\ at' = (IF at \in Users THEN "idle" ELSE at) /\ quit' \in BOOLEAN
    BY <1>1, <1>9, Zenon DEF QuitEnds, timerVars
  <2>2. at' = at \/ (at \notin {"waker", "jobs"} \cup Jobs /\ at' \in {"idle"} \cup Timers \cup Users)
    BY <2>1, JobQueueAssumption, Zenon
  <2> QED BY <1>1, <2>1, <2>2, JobsAside, Zenon
<1>10. ASSUME NEW u \in Users, GetEnds(u), UNCHANGED jobVars
       PROVE  JobInv'
  BY <1>2, <1>10, Zenon DEF GetEnds, Quiescent, timerVars, ghosts
<1>11. ASSUME NEW p \in Threads, Libs(p)
       PROVE  JobInv'
  BY <1>2, <1>11, Zenon DEF Libs, timerVars, ghosts
<1>12. ASSUME NEW p \in Threads, Returns(p)
       PROVE  JobInv'
  <2>1. /\ UNCHANGED <<jobVars, registry_stopped, quit>> /\ op[p].on \in Timers
        /\ at' = IF op[p].name = "disposal" THEN "idle" ELSE at
    BY <1>12, Zenon DEF Returns, Return, timerVars
  <2>2. op[p].name = "disposal" => at = op[p].on
    BY Zenon DEF LoopInv, Loops, Threads
  <2>3. at' = at \/ (at \notin {"waker", "jobs"} \cup Jobs /\ at' \in {"idle"} \cup Timers \cup Users)
    BY <2>1, <2>2, JobQueueAssumption, Zenon
  <2> QED BY <1>1, <2>1, <2>3, JobsAside, Zenon
<1>13. ASSUME NEW t \in Timers, OneShotEnds(t) \/ Expire(t)
       PROVE  JobInv'
  BY <1>2, <1>13, Zenon DEF OneShotEnds, Expire, timerVars, ghosts
<1>14. ASSUME NEW t \in Timers, CallbackEnds(t) \/ Dispatch(t)
       PROVE  JobInv'
  <2>1. UNCHANGED <<jobVars, registry_stopped, quit>> /\ at \in {t, "idle"} /\ at' \in {t, "idle"}
    BY <1>14, Zenon DEF CallbackEnds, Dispatch, timerVars, ghosts
  <2>2. at \notin {"waker", "jobs"} \cup Jobs /\ at' \in {"idle"} \cup Timers \cup Users
    BY <2>1, JobQueueAssumption, Zenon
  <2> QED BY <1>1, <2>1, <2>2, JobsAside, Zenon
<1> QED BY <1>3, <1>4, <1>5, <1>6, <1>7, <1>8, <1>9, <1>10, <1>11, <1>12, <1>13, <1>14, Steps, Zenon
        DEF OtherStep

-----------------------------------------------------------------------------
(* Timers.                                                                 *)

\* What is known between steps, and of one.
Known == JobInv /\ TimerTypes /\ Fired /\ OpTypes /\ LoopInv
TimerInv == NotYet /\ Adds /\ Entries /\ ScheduledIsHeld /\ OneShots /\ Quiet /\ Halts /\ AssignedAtRest /\ Removes

\* A step that has to do with no timer: jobs, call_get, and stop() but for the registry.
Aside ==
    /\ UNCHANGED <<owner, timerVars, eventVars, fired, halted, removed>> /\ (quit' => quit \/ registry_stopped)
    /\ \A p \in Threads : \/ op'[p] = op[p]
                          \/ /\ op[p].on \notin Timers /\ op'[p].on \notin Timers
                             /\ op[p].name \notin TimerCalls /\ op'[p].name \notin TimerCalls
    /\ at' = at \/ (at \notin Timers /\ at' \notin Timers)

\* The steps of the job queue proper leave the timers aside.
LEMMA AsideSteps ==
    ASSUME Known, UNCHANGED owner,
           \/ QueueStep \/ StopStep \/ QuitEnds
           \/ \E p \in Threads, j \in Jobs : call_soon(p, j)
           \/ \E u \in Users, j \in Jobs : call_get(u, j) /\ Gets(u, j)
           \/ \E u \in Users : GetEnds(u) /\ UNCHANGED jobVars
    PROVE  Aside
<1>1. OpTypes /\ TimerTypes /\ Loop \in Threads /\ Users \subseteq Threads
  BY Zenon DEF Known, Threads
<1>2. "none" \notin TimerCalls /\ "call_get" \notin TimerCalls /\ "quit" \notin TimerCalls
  BY Zenon DEF TimerCalls
<1>3. Idle \notin Timers /\ \A j \in Jobs : j \notin Timers
  BY JobQueueAssumption, Zenon
<1>4. ASSUME NEW p \in Threads, NEW name \in {"none", "call_get", "quit"}, NEW on, NEW todo,
             on \notin Timers, op[p].name \in {"none", "call_get", "quit"}, Quiescent, Sets(p, name, on, todo),
             at' = at \/ (at \notin Timers /\ at' \notin Timers)
      PROVE  Aside
  <2>1. op[p].on \notin Timers /\ op[p].name \notin TimerCalls
    BY <1>1, <1>2, <1>4, OnTimer, Zenon
  <2> QED BY <1>2, <1>4, <2>1, Zenon DEF Aside, Sets, Quiescent, ghosts
<1>5. CASE QueueStep
  <2>1. /\ op' = op /\ Quiescent
        /\ at \in {"idle", "waker", "jobs"} \cup Jobs
        /\ at' \in {"idle", "waker", "jobs"} \/ (at' = batch[1] /\ batch # <<>>)
    BY <1>5, Zenon DEF QueueStep, WakerFires, SwapQueue, NextJob, TakeJob, JobReturns, BatchEnds, Quiescent
  <2>2. batch # <<>> => batch[1] \in Jobs
    BY DEF Known, JobInv, JobTypes
  <2>3. at \notin Timers /\ at' \notin Timers
    BY <2>1, <2>2, JobQueueAssumption, Zenon
  <2> QED BY <2>1, <2>3, Zenon DEF Aside, Quiescent, ghosts
<1>6. ASSUME NEW p \in Threads, NEW j \in Jobs, call_soon(p, j)
      PROVE  Aside
  BY <1>6, Zenon DEF call_soon, Aside, ghosts
<1>7. ASSUME NEW u \in Users, NEW j \in Jobs, Gets(u, j)
      PROVE  Aside
  <2>1. op[u].name = "none"
    BY <1>1, <1>7, Caller, Zenon DEF Gets
  <2> QED BY <1>1, <1>3, <1>4, <1>7, <2>1, Zenon DEF Gets
<1>8. ASSUME NEW u \in Users, GetEnds(u)
      PROVE  Aside
  BY <1>1, <1>3, <1>4, <1>8, Zenon DEF GetEnds
<1>9. ASSUME NEW p \in Threads, Quits(p)
      PROVE  Aside
  <2>1. op[p].name = "none"
    BY <1>1, <1>9, Caller, Zenon DEF Quits
  <2> QED BY <1>1, <1>3, <1>4, <1>9, <2>1, Zenon DEF Quits
<1>10. ASSUME NEW u \in Users, MainQuits(u)
       PROVE  Aside
  <2>1. op[Loop].name = "none"
    BY <1>10, JobQueueAssumption, Zenon DEF MainQuits, Known, LoopInv, Loops
  <2>2. at \notin Timers /\ at' \notin Timers
    BY <1>10, JobQueueAssumption, Zenon DEF MainQuits
  <2> QED BY <1>1, <1>3, <1>4, <1>10, <2>1, <2>2, Zenon DEF MainQuits
<1>11. CASE HalfStops
  BY <1>1, <1>3, <1>4, <1>11, Zenon DEF HalfStops
<1>12. CASE QuitEnds
  <2>1. /\ op[Loop].name = "quit" /\ op[Loop].todo = <<>> /\ at' = (IF at \in Users THEN "idle" ELSE at)
        /\ \A p \in Threads : IF p = Loop \/ p = at THEN op'[p].name = "none" /\ op'[p].on = Idle /\ op'[p].todo = <<>>
                              ELSE op'[p] = op[p]
        /\ UNCHANGED <<owner, timerVars, eventVars, fired, halted, removed>>
    BY <1>12, Zenon DEF QuitEnds
  <2>2. registry_stopped
    <3>1. <<"registry">> # <<>>
      BY Zenon
    <3> QED BY <2>1, <3>1, Zenon DEF Known, LoopInv, Stopping
  <2>3. at' = at \/ (at \notin Timers /\ at' \notin Timers)
    BY <2>1, JobQueueAssumption, Zenon
  <2>4. ASSUME NEW p \in Threads, p = Loop \/ p = at
        PROVE  op[p].name = "quit" /\ op[p].on \notin Timers
    <3>1. op[p].name = "quit"
      <4>1. CASE p = Loop
        BY <2>1, <4>1, Zenon
      <4>2. CASE p # Loop
        BY <2>4, <4>2, Zenon DEF Known, LoopInv, Loops, Threads
      <4> QED BY <4>1, <4>2, Zenon
    <3> QED BY <1>1, <1>2, <3>1, OnTimer, Zenon
  <2> QED BY <1>2, <1>3, <2>1, <2>2, <2>3, <2>4, Zenon DEF Aside
<1> QED BY <1>5, <1>6, <1>7, <1>8, <1>9, <1>10, <1>11, <1>12, Zenon DEF StopStep

\* What leaves the timers aside keeps what is said of them.
LEMMA AsideKeeps ==
    ASSUME Known, TimerInv, Aside
    PROVE  TimerInv'
<1>1. /\ UNCHANGED <<owner, registry, registry_stopped, one_shot, used, armed, repeats, active, clash>>
      /\ UNCHANGED <<fired, halted, removed>> /\ (quit' => quit \/ registry_stopped)
  BY Zenon DEF Aside, timerVars, eventVars
<1>2. \A p \in Threads : op'[p] = op[p] \/ (op'[p].on \notin Timers /\ op'[p].name \notin TimerCalls)
  BY Zenon DEF Aside
<1>3. \A p \in Threads : op'[p] = op[p] \/ (op[p].on \notin Timers /\ op[p].name \notin TimerCalls)
  BY Zenon DEF Aside
<1>4. \A t \in Timers : at' = t <=> at = t
  BY Zenon DEF Aside
<1>5. Loop \in Threads /\ Users \subseteq Threads
  BY Zenon DEF Threads
<1>6. OnLoop' = OnLoop /\ Alone' = Alone /\ OnLoop \subseteq Timers /\ Alone \subseteq Timers
  BY <1>1, Zenon DEF OnLoop, Alone
<1>7. \A t \in Timers, p \in Threads : op'[p].on = t <=> op[p].on = t
  BY <1>2, <1>3, Zenon
<1>8. \A t \in Timers : Holders(t)' = Holders(t)
  BY <1>7, Zenon DEF Holders
<1>9. used \subseteq Timers /\ one_shot \subseteq Timers /\ armed \subseteq Timers /\ active \subseteq Timers
  BY Zenon DEF Known, TimerTypes
<1>10. \A p \in Threads : op[p].name \in TimerCalls => op[p].on \in Timers
  BY <1>9, Kinds, Zenon DEF Known
<1>11. Entries'
  BY <1>1, <1>2, Zenon DEF TimerInv, Entries
<1>12. ScheduledIsHeld'
  BY <1>1, <1>8, <1>9, Zenon DEF TimerInv, ScheduledIsHeld
<1>13. OneShots'
  <2>1. op'[Loop].name = "disposal" <=> op[Loop].name = "disposal"
    BY <1>2, <1>3, <1>5, Zenon DEF TimerCalls
  <2>2. \A t \in Timers : Fires(t)' <=> Fires(t)
    BY <1>1, <1>4, <2>1, Zenon DEF Fires
  <2>3. \A t \in one_shot' : ~registry_stopped' => Fires(t)'
    BY <1>1, <1>9, <2>2, Zenon DEF TimerInv, OneShots
  <2>4. ~registry_stopped' => \A p \in Threads : op'[p].name = "add_entry" /\ op'[p].on \in one_shot'
                               /\ fired'[op'[p].on] # 0 => op'[p].todo = <<>>
    BY <1>1, <1>2, Zenon DEF TimerInv, OneShots, TimerCalls
  <2>5. op'[Loop].name = "disposal" /\ op'[Loop].todo = <<>> => op'[Loop].on \notin armed' \cup active'
    BY <1>1, <1>2, <1>5, Zenon DEF TimerInv, OneShots, TimerCalls
  <2> QED BY <2>3, <2>4, <2>5, Zenon DEF OneShots
<1>14. Quiet'
  BY <1>1, <1>5, <1>6, <1>7, Zenon DEF TimerInv, Quiet
<1>15. Halts'
  <2>1. \A t \in halted' \cap Alone' :
          /\ t \notin armed' /\ t \notin repeats' /\ t \notin one_shot'
          /\ \A p \in Threads : op'[p].on = t => op'[p].name \notin {"repeat", "add_entry"}
    BY <1>1, <1>2, <1>6, Zenon DEF TimerInv, Halts, TimerCalls
  <2>2. ASSUME NEW p \in Threads, op'[p].name = "stop", op'[p].on \in Alone'
        PROVE  /\ op'[p].todo \in {<<"assign">>, <<"assign", "activate">>} =>
                      op'[p].on \notin armed' \cup active' /\ (p = Loop \/ at' # op'[p].on)
               /\ op'[p].todo \in {<<"activate">>, <<>>} => op'[p].on \notin armed' \cup repeats'
    <3>1. op'[p] = op[p] /\ op[p].name = "stop"
      BY <1>2, <2>2, Zenon DEF TimerCalls
    <3>2. at' = op'[p].on <=> at = op[p].on
      BY <1>4, <1>6, <2>2, <3>1, Zenon
    <3> QED BY <1>1, <1>6, <2>2, <3>1, <3>2, Zenon DEF TimerInv, Halts
  <2> QED BY <2>1, <2>2, Zenon DEF Halts
<1>16. AssignedAtRest'
  BY <1>1, <1>6, Zenon DEF TimerInv, AssignedAtRest
<1>17. Removes'
  <2>1. \A t \in removed' \cap Alone' :
          /\ at' # t /\ t \notin armed' \cup active' /\ t \notin registry'
          /\ \A p \in Threads : op'[p].on # t
    BY <1>1, <1>4, <1>6, <1>7, Zenon DEF TimerInv, Removes
  <2>2. ASSUME NEW u \in Users, op'[u].name = "remove", op'[u].on \in Alone', op'[u].todo = <<>>
        PROVE  at' # op'[u].on /\ op'[u].on \notin armed' \cup active'
    <3>1. op'[u] = op[u] /\ op[u].name = "remove"
      BY <1>2, <1>5, <2>2, Zenon DEF TimerCalls
    <3>2. at' = op'[u].on <=> at = op[u].on
      BY <1>4, <1>6, <2>2, <3>1, Zenon
    <3> QED BY <1>1, <1>6, <2>2, <3>1, <3>2, Zenon DEF TimerInv, Removes
  <2> QED BY <2>1, <2>2, Zenon DEF Removes
<1>18. NotYet'
  BY <1>1, <1>4, Zenon DEF TimerInv, NotYet
<1>19. Adds'
  <2>1. \A p \in Threads : op'[p].name \in {"add_entry", "disposal"} => op'[p] = op[p]
    BY <1>2, Zenon DEF TimerCalls
  <2> QED BY <1>1, <1>5, <2>1, Zenon DEF TimerInv, Adds
<1> QED BY <1>11, <1>12, <1>13, <1>14, <1>15, <1>16, <1>17, <1>18, <1>19, Zenon DEF TimerInv

\* The lists there are that differ.
LEMMA Differ ==
    /\ <<"del", "assign">> \notin {<<"assign">>, <<"assign", "activate">>, <<"activate">>, <<>>}
    /\ <<"del", "assign", "activate">> \notin {<<"assign">>, <<"assign", "activate">>, <<"activate">>, <<>>}
    /\ <<"assign">> \notin {<<"activate">>, <<>>} /\ <<"assign", "activate">> \notin {<<"activate">>, <<>>}
    /\ <<"del">> # <<>> /\ <<"add">> # <<>> /\ <<"add0">> # <<>> /\ <<"activate">> # <<>>
  BY Shortened, Zenon

\* A call on a timer begins.
LEMMA EntersDoes ==
    ASSUME NEW p \in Threads, NEW t \in Timers, Enters(p, t)
    PROVE  /\ op[p].name = "none" /\ op[p].on = Idle /\ p \in owner[t]
           /\ UNCHANGED <<owner, registry_stopped, armed, repeats, active, clash, fired, removed, quit, at>>
           /\ op'[p].on = t /\ \A q \in Threads : q # p => op'[q] = op[q]
           /\ op'[p].name \in {"add_entry", "wake", "repeat", "stop", "remove"}
           /\ op'[p].name = "stop" => op'[p].todo \in {<<"del", "assign">>, <<"del", "assign", "activate">>}
           /\ op'[p].name = "remove" => op'[p].todo = <<"del">> /\ registry' = registry \ {t}
           /\ op'[p].name = "repeat" => t \notin halted'
           /\ halted' \subseteq halted
           /\ IF op'[p].name = "add_entry"
              THEN /\ t \notin used /\ ~registry_stopped /\ registry' = registry \cup {t} /\ used' = used \cup {t}
                   /\ one_shot' \in {one_shot, one_shot \cup {t}}
              ELSE /\ t \in registry \ one_shot /\ one_shot' = one_shot /\ used' = used
                   /\ op'[p].name # "remove" => registry' = registry
<1>1. op[p].name = "none" /\ op[p].on = Idle
  BY Caller, Zenon DEF Enters
<1>2. UNCHANGED <<owner, armed, repeats, active, clash, fired, removed, quit, at>> /\ p \in owner[t]
  BY Zenon DEF Enters, eventVars
<1>3. \A q \in Threads : q # p => op'[q] = op[q]
  BY Zenon DEF Enters, Sets
<1> QED BY <1>1, <1>2, <1>3, Zenon DEF Enters, Sets, timerVars

\* Entering a call keeps what is said of the timers.
LEMMA EntersKeeps ==
    ASSUME Known, TimerInv, NEW p \in Threads, NEW t \in Timers, Enters(p, t)
    PROVE  TimerInv'
<1>1. /\ op[p].name = "none" /\ op[p].on = Idle /\ p \in owner[t]
      /\ op'[p].on = t
      /\ op'[p].name \in {"add_entry", "wake", "repeat", "stop", "remove"}
      /\ op'[p].name = "stop" => op'[p].todo \in {<<"del", "assign">>, <<"del", "assign", "activate">>}
      /\ op'[p].name = "remove" => op'[p].todo = <<"del">> /\ registry' = registry \ {t}
      /\ op'[p].name = "repeat" => t \notin halted'
      /\ halted' \subseteq halted
  BY EntersDoes, Zenon
<1>2. /\ UNCHANGED <<owner, registry_stopped, armed, repeats, active, clash, fired, removed, quit, at>>
      /\ \A q \in Threads : q # p => op'[q] = op[q]
  BY EntersDoes, Zenon
<1>3. /\ op'[p].name = "add_entry" =>
            /\ t \notin used /\ ~registry_stopped /\ registry' = registry \cup {t} /\ used' = used \cup {t}
            /\ one_shot' \in {one_shot, one_shot \cup {t}}
      /\ op'[p].name # "add_entry" =>
            /\ t \in registry \ one_shot /\ one_shot' = one_shot /\ used' = used
            /\ op'[p].name # "remove" => registry' = registry
  BY EntersDoes, Zenon
<1>4. Loop \in Threads /\ Users \subseteq Threads /\ Idle \notin Timers
  BY JobQueueAssumption, Zenon DEF Threads
<1>5. OnLoop' = OnLoop /\ Alone' = Alone /\ OnLoop \subseteq Timers /\ Alone \subseteq Timers
  BY <1>2, Zenon DEF OnLoop, Alone
<1>6. /\ used \subseteq Timers /\ one_shot \subseteq used /\ armed \subseteq used /\ active \subseteq used
      /\ registry \subseteq used /\ halted \subseteq used /\ removed \subseteq used /\ repeats \subseteq used
  BY Zenon DEF Known, TimerTypes
<1>7. \A q \in Threads : op[q].on \in Timers => op[q].on \in used
  BY OnTimer, Kinds, Zenon DEF Known
<1>8. registry \ {t} \subseteq registry' /\ one_shot \subseteq one_shot' /\ one_shot' \subseteq one_shot \cup {t}
  BY <1>1, <1>3, Zenon
<1>9. registry' \subseteq registry \cup {t} /\ (op'[p].name # "add_entry" => registry' \subseteq registry)
  BY <1>1, <1>3, Zenon
<1>10. ASSUME NEW q \in Threads, q # p
       PROVE  /\ op'[q] = op[q]
              /\ op[q].on \in Timers => /\ op[q].on \in one_shot' <=> op[q].on \in one_shot
                                        /\ op[q].on \in registry' => op[q].on \in registry
  BY <1>2, <1>3, <1>7, <1>9, <1>10, Zenon
<1>11. Entries'
  <2> SUFFICES ASSUME NEW q \in Threads, op'[q].on \in Timers
               PROVE  /\ q \in owner'[op'[q].on] \/ op'[q].name = "disposal"
                      /\ op'[q].name \in {"wake", "repeat", "stop", "remove"} => op'[q].on \notin one_shot'
                      /\ op'[q].name = "disposal" => op'[q].on \in one_shot'
                      /\ op'[q].name \in {"remove", "disposal"} => op'[q].on \notin registry'
    BY Zenon DEF Entries
  <2>1. CASE q = p
    BY <1>1, <1>2, <1>3, <2>1, Zenon
  <2>2. CASE q # p
    BY <1>2, <1>10, <2>2, Zenon DEF TimerInv, Entries
  <2> QED BY <2>1, <2>2, Zenon
<1>12. ScheduledIsHeld'
  <2> SUFFICES ASSUME NEW s \in armed \cup active
               PROVE  s \in registry' \/ Holders(s)' # {}
    BY <1>2, Zenon DEF ScheduledIsHeld
  <2>1. CASE s = t
    BY <1>1, <2>1, Zenon DEF Holders
  <2>2. CASE s # t
    <3>1. s \in registry \/ \E q \in Threads : op[q].on = s
      BY Zenon DEF TimerInv, ScheduledIsHeld, Holders
    <3>2. ASSUME NEW q \in Threads, op[q].on = s
          PROVE  op'[q].on = s
      <4>1. s \in Timers
        BY <1>6, Zenon
      <4> QED BY <1>1, <1>2, <1>4, <3>2, <4>1, Zenon
    <3> QED BY <1>8, <2>2, <3>1, <3>2, Zenon DEF Holders
  <2> QED BY <2>1, <2>2, Zenon
<1>13. OneShots'
  <2>1. op'[Loop].name = "disposal" <=> op[Loop].name = "disposal"
    BY <1>1, <1>2, <1>4, Zenon
  <2>2. ASSUME NEW s \in one_shot', ~registry_stopped
        PROVE  Fires(s)'
    <3>1. CASE s \in one_shot
      <4>1. Fires(s) /\ (s \in registry => s \in registry')
        BY <1>1, <1>3, <2>2, <3>1, Zenon DEF TimerInv, OneShots
      <4> QED BY <1>2, <2>1, <4>1, Zenon DEF Fires
    <3>2. CASE s \notin one_shot
      <4>1. s = t /\ op'[p].name = "add_entry"
        BY <1>3, <1>8, <3>2, Zenon
      <4>2. fired[t] = 0 /\ at # t /\ t \in registry'
        BY <1>3, <4>1, Zenon DEF TimerInv, NotYet
      <4> QED BY <1>2, <4>1, <4>2, Zenon DEF Fires
    <3> QED BY <3>1, <3>2, Zenon
  <2>3. ASSUME ~registry_stopped, NEW q \in Threads, op'[q].name = "add_entry", op'[q].on \in one_shot',
               fired'[op'[q].on] # 0
        PROVE  op'[q].todo = <<>>
    <3>1. CASE q = p
      <4>1. fired[t] = 0
        BY <1>1, <1>3, <2>3, <3>1, Zenon DEF TimerInv, NotYet
      <4> QED BY <1>1, <1>2, <2>3, <3>1, <4>1, Zenon
    <3>2. CASE q # p
      <4>1. op'[q] = op[q] /\ op[q].on \in one_shot
        <5>1. op[q].on \in Timers
          BY <1>2, <2>3, <3>2, <1>6, <1>8, Zenon
        <5> QED BY <1>10, <2>3, <3>2, <5>1, Zenon
      <4> QED BY <1>2, <2>3, <4>1, Zenon DEF TimerInv, OneShots
    <3> QED BY <3>1, <3>2, Zenon
  <2>4. op'[Loop].name = "disposal" /\ op'[Loop].todo = <<>> => op'[Loop].on \notin armed' \cup active'
    BY <1>1, <1>2, <1>4, Zenon DEF TimerInv, OneShots
  <2> QED BY <1>2, <2>2, <2>3, <2>4, Zenon DEF OneShots
<1>14. Quiet'
  <2>1. ~registry_stopped
    <3>1. CASE op'[p].name = "add_entry"
      BY <1>3, <3>1, Zenon
    <3>2. CASE op'[p].name # "add_entry"
      BY <1>3, <3>2, Zenon DEF Known, LoopInv, Stopping
    <3> QED BY <3>1, <3>2, Zenon
  <2> QED BY <1>2, <2>1, Zenon DEF TimerInv, Quiet
<1>15. Halts'
  <2>1. ASSUME NEW s \in halted' \cap Alone'
        PROVE  /\ s \notin armed' /\ s \notin repeats' /\ s \notin one_shot'
               /\ \A q \in Threads : op'[q].on = s => op'[q].name \notin {"repeat", "add_entry"}
    <3>1. s \in halted \cap Alone /\ s \in used
      BY <1>1, <1>5, <1>6, Zenon
    <3>2. s \notin armed' /\ s \notin repeats' /\ s \notin one_shot'
      BY <1>2, <1>3, <3>1, Zenon DEF TimerInv, Halts
    <3>3. ASSUME NEW q \in Threads, op'[q].on = s
          PROVE  op'[q].name \notin {"repeat", "add_entry"}
      <4>1. CASE q = p
        BY <1>1, <1>3, <2>1, <3>1, <3>3, <4>1, Zenon
      <4>2. CASE q # p
        BY <1>2, <3>1, <3>3, <4>2, Zenon DEF TimerInv, Halts
      <4> QED BY <4>1, <4>2, Zenon
    <3> QED BY <3>2, <3>3, Zenon
  <2>2. ASSUME NEW q \in Threads, op'[q].name = "stop", op'[q].on \in Alone'
        PROVE  /\ op'[q].todo \in {<<"assign">>, <<"assign", "activate">>} =>
                      op'[q].on \notin armed' \cup active' /\ (q = Loop \/ at' # op'[q].on)
               /\ op'[q].todo \in {<<"activate">>, <<>>} => op'[q].on \notin armed' \cup repeats'
    <3>1. CASE q = p
      <4>1. op'[q].todo \in {<<"del", "assign">>, <<"del", "assign", "activate">>}
        BY <1>1, <2>2, <3>1, Zenon
      <4> QED BY <4>1, Differ, Zenon
    <3>2. CASE q # p
      <4>1. op'[q] = op[q]
        BY <1>2, <3>2, Zenon
      <4> QED BY <1>2, <1>5, <2>2, <4>1, Zenon DEF TimerInv, Halts
    <3> QED BY <3>1, <3>2, Zenon
  <2> QED BY <2>1, <2>2, Zenon DEF Halts
<1>16. AssignedAtRest'
  BY <1>2, <1>5, Zenon DEF TimerInv, AssignedAtRest
<1>17. Removes'
  <2>1. ASSUME NEW s \in removed' \cap Alone'
        PROVE  /\ at' # s /\ s \notin armed' \cup active' /\ s \notin registry'
               /\ \A q \in Threads : op'[q].on # s
    <3>1. s \in removed \cap Alone /\ s \in used
      BY <1>2, <1>5, <1>6, Zenon
    <3>2. at # s /\ s \notin armed \cup active /\ s \notin registry /\ \A q \in Threads : op[q].on # s
      BY <3>1, Zenon DEF TimerInv, Removes
    <3>3. s # t
      BY <1>3, <3>1, <3>2, Zenon
    <3> QED BY <1>1, <1>2, <1>9, <3>2, <3>3, Zenon
  <2>2. ASSUME NEW u \in Users, op'[u].name = "remove", op'[u].on \in Alone', op'[u].todo = <<>>
        PROVE  at' # op'[u].on /\ op'[u].on \notin armed' \cup active'
    <3>1. u # p
      BY <1>1, <2>2, Differ, Zenon
    <3>2. op'[u] = op[u]
      BY <1>2, <1>4, <3>1, Zenon
    <3> QED BY <1>2, <1>5, <2>2, <3>2, Zenon DEF TimerInv, Removes
  <2> QED BY <2>1, <2>2, Zenon DEF Removes
<1>18. NotYet'
  BY <1>2, <1>3, Zenon DEF TimerInv, NotYet
<1>19. Adds'
  <2>1. ASSUME NEW q \in Threads, op'[q].name = "add_entry", q # p
        PROVE  op[q].name = "add_entry" /\ op'[q].on = op[q].on /\ op[q].on \in used /\ op[q].on \in Timers
    BY <1>2, <1>6, <2>1, Kinds, Zenon DEF Known, TimerCalls
  <2>2. ASSUME NEW q \in Threads, NEW r \in Threads, op'[q].name = "add_entry", op'[r].name = "add_entry",
               op'[q].on = op'[r].on
        PROVE  q = r
    <3>1. CASE q # p /\ r # p
      BY <2>1, <2>2, <3>1, Zenon DEF TimerInv, Adds
    <3>2. CASE q = p /\ r # p
      BY <1>1, <1>3, <2>1, <2>2, <3>2, Zenon
    <3>3. CASE q # p /\ r = p
      BY <1>1, <1>3, <2>1, <2>2, <3>3, Zenon
    <3> QED BY <3>1, <3>2, <3>3, Zenon
  <2>3. ASSUME NEW q \in Threads, op'[q].name = "add_entry", op'[q].on \in one_shot', op'[q].todo # <<>>
        PROVE  op'[q].on \notin armed' \cup active'
    <3>1. CASE q = p
      BY <1>1, <1>2, <1>3, <1>6, <2>3, <3>1, Zenon
    <3>2. CASE q # p
      BY <1>2, <1>10, <2>1, <2>3, <3>2, Zenon DEF TimerInv, Adds
    <3> QED BY <3>1, <3>2, Zenon
  <2>4. op'[Loop].name = "disposal" => ~registry_stopped'
    BY <1>1, <1>2, <1>4, Zenon DEF TimerInv, Adds
  <2> QED BY <2>2, <2>3, <2>4, Zenon DEF Adds
<1> QED BY <1>11, <1>12, <1>13, <1>14, <1>15, <1>16, <1>17, <1>18, <1>19, Zenon DEF TimerInv

\* A timeout is due.
LEMMA ExpireKeeps ==
    ASSUME Known, TimerInv, UNCHANGED owner, NEW t \in Timers, Expire(t)
    PROVE  TimerInv'
<1>1. /\ UNCHANGED <<owner, registry, registry_stopped, one_shot, used, repeats, clash>>
      /\ UNCHANGED <<fired, halted, removed, quit, at, op>>
      /\ t \in armed /\ armed' = armed \ {t} /\ active' = active \cup {t}
  BY Zenon DEF Expire, timerVars, ghosts
<1>2. armed' \cup active' = armed \cup active /\ armed' \subseteq armed
  BY <1>1, Zenon
<1>3. OnLoop' = OnLoop /\ Alone' = Alone /\ \A s : Holders(s)' = Holders(s)
  BY <1>1, Zenon DEF OnLoop, Alone, Holders
<1>4. Entries' /\ NotYet' /\ AssignedAtRest'
  BY <1>1, <1>3, Zenon DEF TimerInv, Entries, NotYet, AssignedAtRest
<1>5. ScheduledIsHeld' /\ Quiet'
  BY <1>1, <1>2, <1>3, Zenon DEF TimerInv, ScheduledIsHeld, Quiet
<1>6. Adds'
  BY <1>1, <1>2, Zenon DEF TimerInv, Adds
<1>7. OneShots'
  <2>1. \A s : Fires(s)' <=> Fires(s)
    BY <1>1, <1>2, Zenon DEF Fires
  <2> QED BY <1>1, <1>2, <2>1, Zenon DEF TimerInv, OneShots
<1>8. Halts'
  <2>1. \A s \in halted' \cap Alone' :
          /\ s \notin armed' /\ s \notin repeats' /\ s \notin one_shot'
          /\ \A p \in Threads : op'[p].on = s => op'[p].name \notin {"repeat", "add_entry"}
    BY <1>1, <1>2, <1>3, Zenon DEF TimerInv, Halts
  <2>2. ASSUME NEW p \in Threads, op[p].name = "stop", op[p].on \in Alone
        PROVE  /\ op[p].todo \in {<<"assign">>, <<"assign", "activate">>} =>
                      op[p].on \notin armed' \cup active' /\ (p = Loop \/ at # op[p].on)
               /\ op[p].todo \in {<<"activate">>, <<>>} => op[p].on \notin armed' \cup repeats
    <3>1. /\ op[p].todo \in {<<"assign">>, <<"assign", "activate">>} =>
                      op[p].on \notin armed \cup active /\ (p = Loop \/ at # op[p].on)
          /\ op[p].todo \in {<<"activate">>, <<>>} => op[p].on \notin armed \cup repeats
      BY <2>2, Zenon DEF TimerInv, Halts
    <3> QED BY <1>2, <3>1, Zenon
  <2> QED BY <1>1, <1>3, <2>1, <2>2, Zenon DEF Halts
<1>9. Removes'
  BY <1>1, <1>2, <1>3, Zenon DEF TimerInv, Removes
<1> QED BY <1>4, <1>5, <1>6, <1>7, <1>8, <1>9, Zenon DEF TimerInv

\* A callback starts.
LEMMA DispatchKeeps ==
    ASSUME Known, TimerInv, UNCHANGED owner, NEW t \in Timers, Dispatch(t)
    PROVE  TimerInv'
<1>1. /\ UNCHANGED <<owner, registry, registry_stopped, one_shot, used, repeats, clash>>
      /\ UNCHANGED <<halted, removed, quit, op>>
      /\ at = "idle" /\ at' = t /\ t \in active /\ active' = active \ {t}
      /\ armed' = IF t \in repeats THEN armed \cup {t} ELSE armed
      /\ fired' = [fired EXCEPT ![t] = IF @ < 2 THEN @ + 1 ELSE 2]
  BY Zenon DEF Dispatch, timerVars
<1>2. at \notin Timers /\ op[Loop].name = "none"
  BY <1>1, JobQueueAssumption, Zenon DEF Known, LoopInv, Loops
<1>3. armed' \cup active' \subseteq armed \cup active /\ (t \notin repeats => armed' = armed) /\ t \in used
      /\ armed' \subseteq armed \cup {t}
  BY <1>1, Zenon DEF Known, TimerTypes
<1>4. OnLoop' = OnLoop /\ Alone' = Alone /\ OnLoop \subseteq Timers /\ Alone \subseteq Timers
      /\ \A s : Holders(s)' = Holders(s)
  BY <1>1, Zenon DEF OnLoop, Alone, Holders
<1>5. \A s \in Timers : s # t => fired'[s] = fired[s]
  BY <1>1, Zenon DEF Known, Fired
<1>6. fired[t] = 0 => fired'[t] = 1
  BY <1>1 DEF Known, Fired
<1>7. Entries' /\ AssignedAtRest'
  BY <1>1, <1>4, Zenon DEF TimerInv, Entries, AssignedAtRest
<1>8. NotYet'
  BY <1>1, <1>3, <1>5, Zenon DEF TimerInv, NotYet
<1>9. ScheduledIsHeld'
  BY <1>1, <1>3, <1>4, Zenon DEF TimerInv, ScheduledIsHeld
<1>10. Quiet'
  BY <1>1, <1>3, <1>4, Zenon DEF TimerInv, Quiet
<1>11. Adds'
  <2>1. \A p \in Threads : op'[p].name = "add_entry" /\ op'[p].on \in one_shot' /\ op'[p].todo # <<>> =>
            op'[p].on \notin armed' \cup active'
    BY <1>1, <1>3, Zenon DEF TimerInv, Adds
  <2> QED BY <1>1, <2>1, Zenon DEF TimerInv, Adds
<1>12. OneShots'
  <2>1. ASSUME NEW s \in one_shot, ~registry_stopped
        PROVE  Fires(s)'
    <3>1. Fires(s) /\ s \in Timers
      BY <2>1, Zenon DEF TimerInv, OneShots, Known, TimerTypes
    <3>2. CASE s = t
      <4>1. fired[t] = 0 /\ t \in registry
        BY <1>1, <1>2, <3>1, <3>2, Zenon DEF Fires
      <4> QED BY <1>1, <1>6, <3>2, <4>1, Zenon DEF Fires
    <3>3. CASE s # t
      <4>1. fired'[s] = fired[s] /\ at # s /\ at' # s
        BY <1>1, <1>2, <1>5, <3>1, <3>3, Zenon
      <4> QED BY <1>1, <1>3, <3>1, <4>1, Zenon DEF Fires
    <3> QED BY <3>2, <3>3, Zenon
  <2>2. ASSUME ~registry_stopped, NEW p \in Threads, op[p].name = "add_entry", op[p].on \in one_shot,
               fired'[op[p].on] # 0
        PROVE  op[p].todo = <<>>
    <3>1. CASE op[p].on = t
      BY <1>1, <2>2, <3>1, Zenon DEF TimerInv, Adds
    <3>2. CASE op[p].on # t
      <4>1. fired'[op[p].on] = fired[op[p].on]
        BY <1>5, <2>2, <3>2, Zenon DEF Known, TimerTypes
      <4> QED BY <2>2, <4>1, Zenon DEF TimerInv, OneShots
    <3> QED BY <3>1, <3>2, Zenon
  <2>3. op[Loop].name # "disposal"
    BY <1>2, Zenon
  <2> QED BY <1>1, <2>1, <2>2, <2>3, Zenon DEF OneShots
<1>13. Halts'
  <2>1. ASSUME NEW s \in halted \cap Alone
        PROVE  /\ s \notin armed' /\ s \notin repeats /\ s \notin one_shot
               /\ \A p \in Threads : op[p].on = s => op[p].name \notin {"repeat", "add_entry"}
    <3>1. /\ s \notin armed /\ s \notin repeats /\ s \notin one_shot
          /\ \A p \in Threads : op[p].on = s => op[p].name \notin {"repeat", "add_entry"}
      BY Zenon DEF TimerInv, Halts
    <3> QED BY <1>1, <3>1, Zenon
  <2>2. ASSUME NEW p \in Threads, op[p].name = "stop", op[p].on \in Alone
        PROVE  /\ op[p].todo \in {<<"assign">>, <<"assign", "activate">>} =>
                      op[p].on \notin armed' \cup active' /\ (p = Loop \/ at' # op[p].on)
               /\ op[p].todo \in {<<"activate">>, <<>>} => op[p].on \notin armed' \cup repeats
    <3>1. /\ op[p].todo \in {<<"assign">>, <<"assign", "activate">>} =>
                      op[p].on \notin armed \cup active /\ (p = Loop \/ at # op[p].on)
          /\ op[p].todo \in {<<"activate">>, <<>>} => op[p].on \notin armed \cup repeats
      BY <2>2, Zenon DEF TimerInv, Halts
    <3>2. op[p].on \notin armed \cup active => op[p].on \notin armed' \cup active' /\ at' # op[p].on
      BY <1>1, <1>3, Zenon
    <3>3. op[p].on \notin armed \cup repeats => op[p].on \notin armed' \cup repeats
      BY <1>1, Zenon
    <3> QED BY <3>1, <3>2, <3>3, Zenon
  <2> QED BY <1>1, <1>4, <2>1, <2>2, Zenon DEF Halts
<1>14. Removes'
  <2>1. ASSUME NEW s, s \notin armed \cup active
        PROVE  at' # s /\ s \notin armed' \cup active'
    BY <1>1, <1>3, <2>1, Zenon
  <2> QED BY <1>1, <1>4, <2>1, Zenon DEF TimerInv, Removes
<1> QED BY <1>7, <1>8, <1>9, <1>10, <1>11, <1>12, <1>13, <1>14, Zenon DEF TimerInv

\* A callback is over.
LEMMA CallbackEndsKeeps ==
    ASSUME Known, TimerInv, NEW t \in Timers, CallbackEnds(t)
    PROVE  TimerInv'
<1>1. /\ UNCHANGED <<owner, registry, registry_stopped, one_shot, used, armed, repeats, active, clash>>
      /\ UNCHANGED <<fired, halted, removed, quit, op>>
      /\ at = t /\ at' = "idle" /\ op[Loop].name = "none" /\ t \notin one_shot \cap registry
  BY Zenon DEF CallbackEnds, timerVars, eventVars, ghosts
<1>2. \A s \in Timers : at' # s
  BY <1>1, JobQueueAssumption, Zenon
<1>3. OnLoop' = OnLoop /\ Alone' = Alone /\ Alone \subseteq Timers /\ \A s : Holders(s)' = Holders(s)
  BY <1>1, Zenon DEF OnLoop, Alone, Holders
<1>4. Entries' /\ AssignedAtRest' /\ ScheduledIsHeld' /\ Quiet' /\ Adds'
  BY <1>1, <1>3, Zenon DEF TimerInv, Entries, AssignedAtRest, ScheduledIsHeld, Quiet, Adds
<1>5. NotYet'
  BY <1>1, <1>2, Zenon DEF TimerInv, NotYet
<1>6. OneShots'
  <2>1. ASSUME NEW s \in one_shot, ~registry_stopped
        PROVE  Fires(s)'
    <3>1. Fires(s) /\ s \in Timers
      BY <2>1, Zenon DEF TimerInv, OneShots, Known, TimerTypes
    <3>2. s # t
      BY <1>1, <3>1, Zenon DEF Fires
    <3> QED BY <1>1, <1>2, <3>1, <3>2, Zenon DEF Fires
  <2> QED BY <1>1, <2>1, Zenon DEF TimerInv, OneShots
<1>7. Halts' /\ Removes'
  BY <1>1, <1>2, <1>3, Zenon DEF TimerInv, Halts, Removes
<1> QED BY <1>4, <1>5, <1>6, <1>7, Zenon DEF TimerInv

\* The callback of a one-shot is over and the loop takes its entry off the registry.
LEMMA OneShotEndsKeeps ==
    ASSUME Known, TimerInv, NEW t \in Timers, OneShotEnds(t)
    PROVE  TimerInv'
<1>1. /\ UNCHANGED <<owner, registry_stopped, one_shot, used, armed, repeats, active, clash>>
      /\ UNCHANGED <<fired, halted, removed, quit>>
      /\ at = t /\ at' = t /\ op[Loop].name = "none" /\ t \in one_shot \cap registry /\ registry' = registry \ {t}
  BY Zenon DEF OneShotEnds, eventVars, ghosts
<1>2. /\ op'[Loop].name = "disposal" /\ op'[Loop].on = t /\ op'[Loop].todo = <<"del">>
      /\ \A q \in Threads : q # Loop => op'[q] = op[q]
  BY Zenon DEF OneShotEnds, Sets
<1>3. OnLoop' = OnLoop /\ Alone' = Alone /\ Alone \subseteq Timers
  BY <1>1, Zenon DEF OnLoop, Alone
<1>4. Loop \in Threads /\ Users \subseteq Threads /\ Loop \notin Users
  BY JobQueueAssumption, Zenon DEF Threads
<1>5. op[Loop].on = Idle /\ Idle \notin Timers /\ <<"del">> # <<>>
  BY <1>1, <1>4, Kinds, JobQueueAssumption, Zenon DEF Known
<1>6. ~registry_stopped
  BY <1>1, Zenon DEF Known, LoopInv, Stopping
<1>7. Entries'
  <2> SUFFICES ASSUME NEW q \in Threads, op'[q].on \in Timers
               PROVE  /\ q \in owner'[op'[q].on] \/ op'[q].name = "disposal"
                      /\ op'[q].name \in {"wake", "repeat", "stop", "remove"} => op'[q].on \notin one_shot'
                      /\ op'[q].name = "disposal" => op'[q].on \in one_shot'
                      /\ op'[q].name \in {"remove", "disposal"} => op'[q].on \notin registry'
    BY Zenon DEF Entries
  <2>1. CASE q = Loop
    BY <1>1, <1>2, <2>1, Zenon
  <2>2. CASE q # Loop
    BY <1>1, <1>2, <2>2, Zenon DEF TimerInv, Entries
  <2> QED BY <2>1, <2>2, Zenon
<1>8. ScheduledIsHeld'
  <2> SUFFICES ASSUME NEW s \in armed \cup active
               PROVE  s \in registry' \/ Holders(s)' # {}
    BY <1>1, Zenon DEF ScheduledIsHeld
  <2>1. CASE s = t
    BY <1>2, <1>4, <2>1, Zenon DEF Holders
  <2>2. CASE s # t
    <3>1. s \in registry \/ \E q \in Threads : op[q].on = s
      BY Zenon DEF TimerInv, ScheduledIsHeld, Holders
    <3>2. \A q \in Threads : op[q].on = s => op'[q].on = s
      BY <1>2, <1>5, Zenon DEF Known, TimerTypes
    <3> QED BY <1>1, <2>2, <3>1, <3>2, Zenon DEF Holders
  <2> QED BY <2>1, <2>2, Zenon
<1>9. OneShots'
  <2>1. ASSUME NEW s \in one_shot
        PROVE  Fires(s)'
    <3>1. Fires(s)
      BY <1>6, Zenon DEF TimerInv, OneShots
    <3>2. CASE s = t
      BY <1>1, <1>2, <3>1, <3>2, Zenon DEF Fires
    <3>3. CASE s # t
      BY <1>1, <3>1, <3>3, Zenon DEF Fires
    <3> QED BY <3>2, <3>3, Zenon
  <2>2. ASSUME NEW p \in Threads, op'[p].name = "add_entry", op'[p].on \in one_shot', fired'[op'[p].on] # 0
        PROVE  op'[p].todo = <<>>
    <3>1. op'[p] = op[p]
      BY <1>2, <2>2, Zenon
    <3> QED BY <1>1, <1>6, <2>2, <3>1, Zenon DEF TimerInv, OneShots
  <2> QED BY <1>1, <1>2, <1>5, <2>1, <2>2, Zenon DEF OneShots
<1>10. Quiet'
  BY <1>1, <1>6, Zenon DEF TimerInv, Quiet
<1>11. Halts'
  <2>1. \A p \in Threads : op'[p].name \in {"repeat", "add_entry", "stop"} => op'[p] = op[p]
    BY <1>2, Zenon
  <2> QED BY <1>1, <1>3, <2>1 DEF TimerInv, Halts
<1>12. AssignedAtRest' /\ NotYet'
  BY <1>1, <1>3, Zenon DEF TimerInv, AssignedAtRest, NotYet
<1>13. Removes'
  <2>1. \A u \in Users : op'[u] = op[u]
    BY <1>2, <1>4, Zenon
  <2>2. ASSUME NEW s \in removed \cap Alone
        PROVE  /\ at # s /\ s \notin armed \cup active /\ s \notin registry'
               /\ \A p \in Threads : op'[p].on # s
    <3>1. /\ at # s /\ s \notin armed \cup active /\ s \notin registry
          /\ \A p \in Threads : op[p].on # s
      BY Zenon DEF TimerInv, Removes
    <3>2. s # t
      BY <1>1, <3>1, Zenon
    <3> QED BY <1>1, <1>2, <3>1, <3>2, Zenon
  <2>3. ASSUME NEW u \in Users, op'[u].name = "remove", op'[u].on \in Alone, op'[u].todo = <<>>
        PROVE  at # op'[u].on /\ op'[u].on \notin armed \cup active
    BY <2>1, <2>3, Zenon DEF TimerInv, Removes
  <2>4. at' = at
    BY <1>1, Zenon
  <2> QED BY <1>1, <1>3, <2>2, <2>3, <2>4, Zenon DEF Removes
<1>14. Adds'
  <2>1. \A p \in Threads : op'[p].name = "add_entry" => op'[p] = op[p]
    BY <1>2, Zenon
  <2> QED BY <1>1, <1>6, <2>1 DEF TimerInv, Adds
<1> QED BY <1>7, <1>8, <1>9, <1>10, <1>11, <1>12, <1>13, <1>14, Zenon DEF TimerInv

\* stop() clears the registry.
LEMMA RegistryStopsKeeps ==
    ASSUME Known, TimerInv, RegistryStops
    PROVE  TimerInv'
<1> DEFINE S == {t \in registry : Holders(t) = {}}
<1>1. /\ UNCHANGED <<owner, one_shot, used, clash, fired, halted, removed, quit, at>>
      /\ op[Loop].name = "quit" /\ registry_stopped' = TRUE /\ registry' = {}
      /\ armed' = armed \ S /\ active' = active \ S /\ repeats' = repeats \ S
  BY Zenon DEF RegistryStops, Dispose, ghosts
<1>2. /\ op'[Loop].name = "quit" /\ op'[Loop].on = Idle /\ op'[Loop].todo = <<>>
      /\ \A q \in Threads : q # Loop => op'[q] = op[q]
  BY Zenon DEF RegistryStops, Sets
<1>3. OnLoop' = OnLoop /\ Alone' = Alone /\ OnLoop \subseteq Timers
  BY <1>1, Zenon DEF OnLoop, Alone
<1>4. Loop \in Threads /\ Users \subseteq Threads /\ Loop \notin Users
  BY JobQueueAssumption, Zenon DEF Threads
<1>5. op[Loop].on = Idle /\ Idle \notin Timers
  BY <1>1, <1>4, Kinds, JobQueueAssumption, Zenon DEF Known
<1>6. /\ armed \subseteq Timers /\ active \subseteq Timers
      /\ armed' \subseteq armed /\ active' \subseteq active /\ repeats' \subseteq repeats
  BY <1>1, Zenon DEF Known, TimerTypes
<1>7. \A q \in Threads : op'[q].on = op[q].on /\ (op'[q] = op[q] \/ (q = Loop /\ op'[q].name = "quit"))
  BY <1>2, <1>5, Zenon
<1>8. ASSUME NEW t \in armed' \cup active'
      PROVE  \E q \in Threads : op[q].on = t
  BY <1>1, <1>8, Zenon DEF TimerInv, ScheduledIsHeld, Holders
<1>9. ScheduledIsHeld'
  BY <1>7, <1>8, Zenon DEF ScheduledIsHeld, Holders
<1>10. Entries'
  <2> SUFFICES ASSUME NEW q \in Threads, op'[q].on \in Timers
               PROVE  /\ q \in owner'[op'[q].on] \/ op'[q].name = "disposal"
                      /\ op'[q].name \in {"wake", "repeat", "stop", "remove"} => op'[q].on \notin one_shot'
                      /\ op'[q].name = "disposal" => op'[q].on \in one_shot'
                      /\ op'[q].name \in {"remove", "disposal"} => op'[q].on \notin registry'
    BY Zenon DEF Entries
  <2>1. op'[q] = op[q]
    BY <1>2, <1>5, Zenon
  <2> QED BY <1>1, <2>1, Zenon DEF TimerInv, Entries
<1>11. OneShots'
  BY <1>1, <1>2, Zenon DEF OneShots
<1>12. Quiet'
  <2> SUFFICES ASSUME NEW t \in OnLoop
               PROVE  t \notin armed' \cup active' /\ op'[Loop].on # t
    BY <1>1, <1>3, Zenon DEF Quiet
  <2>1. ASSUME NEW q \in Threads, op[q].on = t
        PROVE  FALSE
    <3>1. q # Loop /\ t \in Timers /\ q \in Users
      BY <1>3, <1>5, <2>1, Zenon DEF Threads
    <3>2. op[q].name # "disposal"
      BY <3>1, Zenon DEF Known, LoopInv, Loops
    <3>3. q \in owner[t]
      BY <2>1, <3>1, <3>2, Zenon DEF TimerInv, Entries
    <3> QED BY <1>4, <3>1, <3>3, Zenon DEF OnLoop
  <2> QED BY <1>2, <1>3, <1>5, <1>8, <2>1, Zenon
<1>13. Halts'
  <2>1. \A p \in Threads : op'[p].name \in {"repeat", "add_entry", "stop"} => op'[p] = op[p]
    BY <1>2, Zenon
  <2>2. ASSUME NEW s \in halted \cap Alone
        PROVE  /\ s \notin armed' /\ s \notin repeats' /\ s \notin one_shot
               /\ \A p \in Threads : op'[p].on = s => op'[p].name \notin {"repeat", "add_entry"}
    BY <1>6, <2>1, Zenon DEF TimerInv, Halts
  <2>3. ASSUME NEW p \in Threads, op'[p].name = "stop", op'[p].on \in Alone
        PROVE  /\ op'[p].todo \in {<<"assign">>, <<"assign", "activate">>} =>
                      op'[p].on \notin armed' \cup active' /\ (p = Loop \/ at # op'[p].on)
               /\ op'[p].todo \in {<<"activate">>, <<>>} => op'[p].on \notin armed' \cup repeats'
    <3>1. op'[p] = op[p]
      BY <2>1, <2>3, Zenon
    <3>2. /\ op[p].todo \in {<<"assign">>, <<"assign", "activate">>} =>
                      op[p].on \notin armed \cup active /\ (p = Loop \/ at # op[p].on)
          /\ op[p].todo \in {<<"activate">>, <<>>} => op[p].on \notin armed \cup repeats
      BY <2>3, <3>1, Zenon DEF TimerInv, Halts
    <3> QED BY <1>6, <3>1, <3>2, Zenon
  <2> QED BY <1>1, <1>3, <2>2, <2>3, Zenon DEF Halts
<1>14. AssignedAtRest' /\ NotYet'
  BY <1>1, <1>3, Zenon DEF TimerInv, AssignedAtRest, NotYet
<1>15. Removes'
  <2>1. \A u \in Users : op'[u] = op[u]
    BY <1>2, <1>4, Zenon
  <2> QED BY <1>1, <1>3, <1>6, <1>7, <2>1 DEF TimerInv, Removes
<1>16. Adds'
  <2>1. \A p \in Threads : op'[p].name = "add_entry" => op'[p] = op[p]
    BY <1>2, Zenon
  <2> QED BY <1>1, <1>2, <1>6, <2>1 DEF TimerInv, Adds
<1> QED BY <1>9, <1>10, <1>11, <1>12, <1>13, <1>14, <1>15, <1>16, Zenon DEF TimerInv

\* A timer that one thread uses is in one thread's call only, but for the disposal of a one-shot.
LEMMA OneCaller ==
    ASSUME TimerInv, NEW p \in Threads, NEW q \in Threads, op[p].on \in Alone, op[q].on = op[p].on,
           op[p].name # "disposal", op[q].name # "disposal"
    PROVE  p = q
<1>1. op[p].on \in Timers /\ \E r \in Threads : owner[op[p].on] \subseteq {r}
  BY Zenon DEF Alone
<1>2. p \in owner[op[p].on] /\ q \in owner[op[p].on]
  BY <1>1, Zenon DEF TimerInv, Entries
<1> QED BY <1>1, <1>2, Zenon

\* A call on a timer returns.
LEMMA ReturnsKeeps ==
    ASSUME Known, TimerInv, UNCHANGED owner, NEW p \in Threads, Returns(p)
    PROVE  TimerInv'
<1> DEFINE t == op[p].on
           S == IF t \notin registry /\ Holders(t) = {p} THEN {t} ELSE {}
<1>1. /\ UNCHANGED <<owner, registry, registry_stopped, one_shot, used, clash, fired, quit>>
      /\ op[p].todo = <<>> /\ op[p].name \in TimerCalls
      /\ armed' = armed \ S /\ active' = active \ S /\ repeats' = repeats \ S
      /\ at' = IF op[p].name = "disposal" THEN "idle" ELSE at
      /\ halted' = IF op[p].name = "stop" THEN halted \cup {t} ELSE halted
      /\ removed' = IF op[p].name = "remove" /\ p \in Users THEN removed \cup {t} ELSE removed
  BY Zenon DEF Returns, Return, Dispose, timerVars
<1>2. /\ op'[p].name = "none" /\ op'[p].on = Idle /\ op'[p].todo = <<>>
      /\ \A q \in Threads : q # p => op'[q] = op[q]
  BY Zenon DEF Returns, Sets
<1>3. OnLoop' = OnLoop /\ Alone' = Alone /\ OnLoop \subseteq Timers /\ Alone \subseteq Timers
  BY <1>1, Zenon DEF OnLoop, Alone
<1>4. Loop \in Threads /\ Users \subseteq Threads /\ Loop \notin Users /\ Idle \notin Timers
  BY JobQueueAssumption, Zenon DEF Threads
<1>5. t \in used /\ t \in Timers
  BY Zenon DEF Returns, Known, TimerTypes
<1>6. /\ armed \subseteq Timers /\ active \subseteq Timers
      /\ armed' \subseteq armed /\ active' \subseteq active /\ repeats' \subseteq repeats
  BY <1>1, Zenon DEF Known, TimerTypes
<1>7. op[p].name = "disposal" => p = Loop /\ at = t
  BY Zenon DEF Known, LoopInv, Loops, Threads
<1>8. \A q \in Threads : op'[q].on \in Timers \/ op'[q].name # "none" => op'[q] = op[q] /\ q # p
  BY <1>2, <1>4, Zenon
<1>9. \A s \in Timers : at # s => at' # s
  BY <1>1, JobQueueAssumption, Zenon
<1>10. Entries'
  BY <1>1, <1>8, Zenon DEF TimerInv, Entries
<1>11. ScheduledIsHeld'
  <2> SUFFICES ASSUME NEW s \in armed' \cup active'
               PROVE  s \in registry \/ \E q \in Threads : op'[q].on = s
    BY <1>1, Zenon DEF ScheduledIsHeld, Holders
  <2>1. s \in registry \/ \E q \in Threads : op[q].on = s
    BY <1>6, Zenon DEF TimerInv, ScheduledIsHeld, Holders
  <2>2. CASE s # t
    BY <1>2, <2>1, <2>2, Zenon
  <2>3. CASE s = t
    <3>1. t \in registry \/ Holders(t) # {p}
      BY <1>1, <2>3, Zenon
    <3>2. t \in registry \/ \E q \in Threads : q # p /\ op[q].on = t
      BY <3>1, Zenon DEF Holders
    <3> QED BY <1>2, <2>3, <3>2, Zenon
  <2> QED BY <2>2, <2>3, Zenon
<1>12. OneShots'
  <2>1. ASSUME NEW s \in one_shot, ~registry_stopped
        PROVE  Fires(s)'
    <3>1. Fires(s) /\ s \in Timers
      BY <2>1, Zenon DEF TimerInv, OneShots, Known, TimerTypes
    <3>2. CASE op[p].name = "disposal"
      <4>1. p = Loop /\ at = t /\ at' = "idle" /\ at' # s /\ op[Loop].name = "disposal" /\ op[Loop].todo = <<>>
        BY <1>1, <1>7, <3>1, <3>2, JobQueueAssumption, Zenon
      <4>2. CASE s = t
        <5>1. t \notin armed \cup active
          BY <4>1, Zenon DEF TimerInv, OneShots
        <5>2. fired[s] = 1
          BY <3>1, <4>1, <4>2, Zenon DEF Fires
        <5> QED BY <1>1, <1>6, <4>1, <4>2, <5>1, <5>2, Zenon DEF Fires
      <4>3. CASE s # t
        BY <1>1, <1>6, <3>1, <4>1, <4>3, Zenon DEF Fires
      <4> QED BY <4>2, <4>3, Zenon
    <3>3. CASE op[p].name # "disposal"
      <4>1. at' = at /\ (op[Loop].name = "disposal" => op'[Loop].name = "disposal")
        BY <1>1, <1>2, <1>4, <3>3, Zenon
      <4> QED BY <1>1, <1>6, <3>1, <4>1, Zenon DEF Fires
    <3> QED BY <3>2, <3>3, Zenon
  <2>2. ASSUME ~registry_stopped, NEW q \in Threads, op'[q].name = "add_entry", op'[q].on \in one_shot,
               fired[op'[q].on] # 0
        PROVE  op'[q].todo = <<>>
    <3>1. op'[q] = op[q]
      BY <1>8, <2>2, Zenon
    <3> QED BY <2>2, <3>1, Zenon DEF TimerInv, OneShots
  <2>3. op'[Loop].name = "disposal" /\ op'[Loop].todo = <<>> => op'[Loop].on \notin armed' \cup active'
    BY <1>4, <1>6, <1>8, Zenon DEF TimerInv, OneShots
  <2> QED BY <1>1, <2>1, <2>2, <2>3, Zenon DEF OneShots
<1>13. Quiet'
  <2>1. \A s \in OnLoop : op[Loop].on # s => op'[Loop].on # s
    BY <1>2, <1>3, <1>4, Zenon
  <2> QED BY <1>1, <1>3, <1>6, <2>1, Zenon DEF TimerInv, Quiet
<1>14. Halts'
  <2>1. ASSUME NEW s \in halted' \cap Alone
        PROVE  /\ s \notin armed' /\ s \notin repeats' /\ s \notin one_shot
               /\ \A q \in Threads : op'[q].on = s => op'[q].name \notin {"repeat", "add_entry"}
    <3>1. CASE s \in halted
      <4>1. /\ s \notin armed /\ s \notin repeats /\ s \notin one_shot
            /\ \A q \in Threads : op[q].on = s => op[q].name \notin {"repeat", "add_entry"}
        BY <2>1, <3>1, Zenon DEF TimerInv, Halts
      <4>2. \A q \in Threads : op'[q].on = s => op'[q] = op[q]
        BY <1>3, <1>8, <2>1, Zenon
      <4> QED BY <1>6, <4>1, <4>2, Zenon
    <3>2. CASE s \notin halted
      <4>1. s = t /\ op[p].name = "stop" /\ t \in Alone
        BY <1>1, <2>1, <3>2, Zenon
      <4>2. t \notin armed \cup repeats
        BY <1>1, <4>1, Zenon DEF TimerInv, Halts
      <4>3. t \notin one_shot
        BY <1>5, <4>1, Zenon DEF TimerInv, Entries
      <4>4. ASSUME NEW q \in Threads, op'[q].on = t
            PROVE  op'[q].name \notin {"repeat", "add_entry"}
        <5>1. op'[q] = op[q] /\ q # p
          BY <1>5, <1>8, <4>4, Zenon
        <5>2. op[q].name = "disposal"
          BY <4>1, <4>4, <5>1, OneCaller, Zenon
        <5> QED BY <5>1, <5>2, Zenon
      <4> QED BY <1>6, <4>1, <4>2, <4>3, <4>4, Zenon
    <3> QED BY <3>1, <3>2, Zenon
  <2>2. ASSUME NEW q \in Threads, op'[q].name = "stop", op'[q].on \in Alone
        PROVE  /\ op'[q].todo \in {<<"assign">>, <<"assign", "activate">>} =>
                      op'[q].on \notin armed' \cup active' /\ (q = Loop \/ at' # op'[q].on)
               /\ op'[q].todo \in {<<"activate">>, <<>>} => op'[q].on \notin armed' \cup repeats'
    <3>1. op'[q] = op[q]
      BY <1>8, <2>2, Zenon
    <3>2. /\ op[q].todo \in {<<"assign">>, <<"assign", "activate">>} =>
                      op[q].on \notin armed \cup active /\ (q = Loop \/ at # op[q].on)
          /\ op[q].todo \in {<<"activate">>, <<>>} => op[q].on \notin armed \cup repeats
      BY <2>2, <3>1, Zenon DEF TimerInv, Halts
    <3>3. at # op[q].on => at' # op[q].on
      BY <1>3, <1>9, <2>2, <3>1, Zenon
    <3> QED BY <1>6, <3>1, <3>2, <3>3, Zenon
  <2> QED BY <1>1, <1>3, <2>1, <2>2, Zenon DEF Halts
<1>15. AssignedAtRest' /\ NotYet'
  BY <1>1, <1>3, <1>9, Zenon DEF TimerInv, AssignedAtRest, NotYet
<1>16. Removes'
  <2>1. ASSUME NEW s \in removed' \cap Alone
        PROVE  /\ at' # s /\ s \notin armed' \cup active' /\ s \notin registry
               /\ \A q \in Threads : op'[q].on # s
    <3>1. CASE s \in removed
      <4>1. /\ at # s /\ s \notin armed \cup active /\ s \notin registry
            /\ \A q \in Threads : op[q].on # s
        BY <2>1, <3>1, Zenon DEF TimerInv, Removes
      <4>2. s \in Timers
        BY <1>3, <2>1, Zenon
      <4> QED BY <1>6, <1>8, <1>9, <4>1, <4>2, Zenon
    <3>2. CASE s \notin removed
      <4>1. s = t /\ op[p].name = "remove" /\ t \in Alone /\ p \in Users
        BY <1>1, <2>1, <3>2, Zenon
      <4>2. at # t /\ t \notin armed \cup active
        BY <1>1, <4>1, Zenon DEF TimerInv, Removes
      <4>3. t \notin registry /\ t \notin one_shot
        BY <1>5, <4>1, Zenon DEF TimerInv, Entries
      <4>4. ASSUME NEW q \in Threads, op'[q].on = t
            PROVE  FALSE
        <5>1. op'[q] = op[q] /\ q # p /\ op[q].on \in Timers
          BY <1>5, <1>8, <4>4, Zenon
        <5>2. op[q].name = "disposal"
          BY <4>1, <4>4, <5>1, OneCaller, Zenon
        <5> QED BY <4>3, <4>4, <5>1, <5>2, Zenon DEF TimerInv, Entries
      <4> QED BY <1>5, <1>6, <1>9, <4>1, <4>2, <4>3, <4>4, Zenon
    <3> QED BY <3>1, <3>2, Zenon
  <2>2. ASSUME NEW u \in Users, op'[u].name = "remove", op'[u].on \in Alone, op'[u].todo = <<>>
        PROVE  at' # op'[u].on /\ op'[u].on \notin armed' \cup active'
    <3>1. op'[u] = op[u]
      BY <1>4, <1>8, <2>2, Zenon
    <3>2. at # op[u].on /\ op[u].on \notin armed \cup active
      BY <2>2, <3>1, Zenon DEF TimerInv, Removes
    <3> QED BY <1>3, <1>6, <1>9, <2>2, <3>1, <3>2, Zenon
  <2> QED BY <1>1, <1>3, <2>1, <2>2, Zenon DEF Removes
<1>17. Adds'
  <2>1. \A q \in Threads : op'[q].name \in {"add_entry", "disposal"} => op'[q] = op[q]
    BY <1>8, Zenon
  <2> QED BY <1>1, <1>4, <1>6, <2>1, Zenon DEF TimerInv, Adds
<1> QED BY <1>10, <1>11, <1>12, <1>13, <1>14, <1>15, <1>16, <1>17, Zenon DEF TimerInv

\* What a libevent call leaves alone.
LEMMA LibsDoes ==
    ASSUME Known, TimerInv, NEW p \in Threads, Libs(p)
    PROVE  /\ UNCHANGED <<owner, registry, registry_stopped, one_shot, used, fired, halted, removed, quit, at>>
           /\ op[p].on \in Timers /\ op'[p].name = op[p].name /\ op'[p].on = op[p].on
           /\ op'[p].todo = Tail(op[p].todo) /\ \A q \in Threads : q # p => op'[q] = op[q]
           /\ OnLoop' = OnLoop /\ Alone' = Alone /\ OnLoop \subseteq Timers /\ Alone \subseteq Timers
           /\ \A s : Holders(s)' = Holders(s)
           /\ Entries' /\ NotYet'
<1>1. /\ UNCHANGED <<owner, registry, registry_stopped, one_shot, used, fired, halted, removed, quit, at>>
      /\ op'[p].name = op[p].name /\ op'[p].on = op[p].on
      /\ op'[p].todo = Tail(op[p].todo) /\ \A q \in Threads : q # p => op'[q] = op[q]
  BY Zenon DEF Libs, Sets, timerVars, ghosts
<1>2. op[p].on \in Timers
  BY Zenon DEF Libs, Known, TimerTypes
<1>3. OnLoop' = OnLoop /\ Alone' = Alone /\ OnLoop \subseteq Timers /\ Alone \subseteq Timers
  BY <1>1, Zenon DEF OnLoop, Alone
<1>4. \A q \in Threads : op'[q].name = op[q].name /\ op'[q].on = op[q].on
  BY <1>1, Zenon
<1>5. \A s : Holders(s)' = Holders(s)
  BY <1>4, Zenon DEF Holders
<1>6. Entries' /\ NotYet'
  BY <1>1, <1>4, Zenon DEF TimerInv, Entries, NotYet
<1> QED BY <1>1, <1>2, <1>3, <1>5, <1>6, Zenon

\* A one-shot that has not fired is in the registry and not executing.
LEMMA FiresOnce ==
    ASSUME NEW t, Fires(t), fired[t] = 0
    PROVE  at # t /\ t \in registry
  BY DEF Fires

\* event_add and event_active.
LEMMA SchedulingKeeps ==
    ASSUME Known, TimerInv, NEW p \in Threads, Libs(p), clash' = clash,
           armed' \subseteq armed \cup {op[p].on}, active' \subseteq active \cup {op[p].on},
           armed \subseteq armed', active \subseteq active',
           repeats' \subseteq repeats \cup {op[p].on},
           op[p].name \in {"add_entry", "wake", "repeat", "stop"},
           op[p].name \in {"wake", "stop"} => armed' = armed /\ repeats' = repeats,
           op[p].name \in {"add_entry", "stop"} => op[p].todo # <<>> /\ Tail(op[p].todo) = <<>>,
           op[p].name = "stop" => op[p].todo = <<"activate">>
    PROVE  TimerInv'
<1> DEFINE t == op[p].on
<1>1. /\ UNCHANGED <<owner, registry, registry_stopped, one_shot, used, fired, halted, removed, quit, at>>
      /\ t \in Timers /\ op'[p].name = op[p].name /\ op'[p].on = t
      /\ op'[p].todo = Tail(op[p].todo) /\ \A q \in Threads : q # p => op'[q] = op[q]
      /\ OnLoop' = OnLoop /\ Alone' = Alone /\ OnLoop \subseteq Timers /\ Alone \subseteq Timers
      /\ \A s : Holders(s)' = Holders(s)
  BY LibsDoes, Zenon
<1>2. Entries' /\ NotYet'
  BY LibsDoes, Zenon
<1>3. Loop \in Threads /\ Users \subseteq Threads /\ Loop \notin Users
  BY JobQueueAssumption, Zenon DEF Threads
<1>4. p \in owner[t] /\ (t \in one_shot => op[p].name = "add_entry") /\ op[p].name # "disposal"
  BY <1>1, Zenon DEF TimerInv, Entries
<1>5. t \in one_shot /\ ~registry_stopped => fired[t] = 0 /\ at # t /\ t \in registry
  BY <1>4, FiresOnce, Zenon DEF TimerInv, OneShots
<1>6. ScheduledIsHeld'
  <2>1. Holders(t) # {}
    BY Zenon DEF Holders
  <2> QED BY <1>1, <2>1, Zenon DEF TimerInv, ScheduledIsHeld
<1>7. OneShots'
  <2>1. ASSUME NEW s \in one_shot, ~registry_stopped
        PROVE  Fires(s)'
    <3>1. Fires(s) /\ (op[Loop].name = "disposal" => op'[Loop].name = "disposal")
      BY <1>1, <1>3, <2>1, Zenon DEF TimerInv, OneShots
    <3>2. CASE s = t
      BY <1>1, <1>5, <2>1, <3>2, Zenon DEF Fires
    <3>3. CASE s # t
      BY <1>1, <3>1, <3>3, Zenon DEF Fires
    <3> QED BY <3>2, <3>3, Zenon
  <2>2. ASSUME ~registry_stopped, NEW q \in Threads, op'[q].name = "add_entry", op'[q].on \in one_shot,
               fired[op'[q].on] # 0
        PROVE  op'[q].todo = <<>>
    <3>1. CASE q = p
      BY <1>1, <2>2, <3>1, Zenon
    <3>2. CASE q # p
      BY <1>1, <2>2, <3>2 DEF TimerInv, OneShots
    <3> QED BY <3>1, <3>2, Zenon
  <2>3. ASSUME op'[Loop].name = "disposal", op'[Loop].todo = <<>>
        PROVE  op'[Loop].on \notin armed' \cup active'
    <3>1. Loop # p /\ op'[Loop] = op[Loop]
      BY <1>1, <1>3, <1>4, <2>3, Zenon
    <3>2. op[Loop].on \notin armed \cup active
      BY <2>3, <3>1, Zenon DEF TimerInv, OneShots
    <3>3. CASE op[Loop].on = t
      <4>1. at = t /\ t \in one_shot /\ ~registry_stopped
        BY <1>1, <1>3, <2>3, <3>1, <3>3, Zenon DEF Known, LoopInv, Loops, TimerInv, Entries, Adds
      <4> QED BY <1>5, <4>1, Zenon
    <3>4. CASE op[Loop].on # t
      BY <3>1, <3>2, <3>4, Zenon
    <3> QED BY <3>3, <3>4, Zenon
  <2> QED BY <1>1, <2>1, <2>2, <2>3, Zenon DEF OneShots
<1>8. Adds'
  <2>1. \A q \in Threads : op'[q].name = op[q].name /\ op'[q].on = op[q].on
    BY <1>1, Zenon
  <2>2. ASSUME NEW q \in Threads, op'[q].name = "add_entry", op'[q].on \in one_shot, op'[q].todo # <<>>
        PROVE  op'[q].on \notin armed' \cup active'
    <3>1. q # p
      BY <1>1, <2>2, Zenon
    <3>2. op'[q] = op[q]
      BY <1>1, <3>1, Zenon
    <3>3. op[q].on # t
      <4>1. op[q].on = t => op[p].name = "add_entry"
        BY <1>4, <2>2, <3>2, Zenon
      <4> QED BY <2>2, <3>1, <3>2, <4>1, Zenon DEF TimerInv, Adds
    <3>4. op[q].on \notin armed \cup active
      BY <2>2, <3>2, Zenon DEF TimerInv, Adds
    <3> QED BY <3>2, <3>3, <3>4, Zenon
  <2>3. one_shot' = one_shot /\ registry_stopped' = registry_stopped
    BY <1>1, Zenon
  <2> QED BY <1>3, <2>1, <2>2, <2>3 DEF TimerInv, Adds
<1>9. Quiet'
  <2>1. registry_stopped => t \notin OnLoop
    <3>1. t \in OnLoop => p = Loop
      BY <1>4, Zenon DEF OnLoop
    <3> QED BY <3>1, Zenon DEF TimerInv, Quiet
  <2>2. op'[Loop].on = op[Loop].on
    BY <1>1, <1>3, Zenon
  <2> QED BY <1>1, <2>1, <2>2, Zenon DEF TimerInv, Quiet
<1>10. ASSUME NEW q \in Threads, q # p, op[q].on \in Alone, op[q].name # "disposal"
       PROVE  op[q].on # t
  BY <1>4, <1>10, OneCaller, Zenon
<1>11. Halts'
  <2>1. ASSUME NEW s \in halted \cap Alone
        PROVE  /\ s \notin armed' /\ s \notin repeats' /\ s \notin one_shot
               /\ \A q \in Threads : op'[q].on = s => op'[q].name \notin {"repeat", "add_entry"}
    <3>1. /\ s \notin armed /\ s \notin repeats /\ s \notin one_shot
          /\ \A q \in Threads : op[q].on = s => op[q].name \notin {"repeat", "add_entry"}
      BY Zenon DEF TimerInv, Halts
    <3>2. s = t => armed' = armed /\ repeats' = repeats
      BY <3>1, Zenon
    <3>3. s \notin armed' /\ s \notin repeats'
      BY <3>1, <3>2, Zenon
    <3>4. \A q \in Threads : op'[q].name = op[q].name /\ op'[q].on = op[q].on
      BY <1>1, Zenon
    <3> QED BY <3>1, <3>3, <3>4, Zenon
  <2>2. ASSUME NEW q \in Threads, op'[q].name = "stop", op'[q].on \in Alone
        PROVE  /\ op'[q].todo \in {<<"assign">>, <<"assign", "activate">>} =>
                      op'[q].on \notin armed' \cup active' /\ (q = Loop \/ at # op'[q].on)
               /\ op'[q].todo \in {<<"activate">>, <<>>} => op'[q].on \notin armed' \cup repeats'
    <3>1. CASE q = p
      <4>1. op'[q].todo = <<>> /\ <<>> \notin {<<"assign">>, <<"assign", "activate">>}
        BY <1>1, <2>2, <3>1, Differ, Zenon
      <4>2. t \notin armed \cup repeats /\ armed' = armed /\ repeats' = repeats
        BY <1>1, <2>2, <3>1, Zenon DEF TimerInv, Halts
      <4> QED BY <1>1, <3>1, <4>1, <4>2, Zenon
    <3>2. CASE q # p
      <4>1. op'[q] = op[q]
        BY <1>1, <3>2, Zenon
      <4>2. op[q].on # t
        BY <1>10, <2>2, <3>2, <4>1, Zenon
      <4>3. /\ op[q].todo \in {<<"assign">>, <<"assign", "activate">>} =>
                      op[q].on \notin armed \cup active /\ (q = Loop \/ at # op[q].on)
            /\ op[q].todo \in {<<"activate">>, <<>>} => op[q].on \notin armed \cup repeats
        BY <2>2, <4>1, Zenon DEF TimerInv, Halts
      <4>4. /\ op[q].on \notin armed \cup active => op[q].on \notin armed' \cup active'
            /\ op[q].on \notin armed \cup repeats => op[q].on \notin armed' \cup repeats'
        BY <4>2, Zenon
      <4> QED BY <4>1, <4>3, <4>4, Zenon
    <3> QED BY <3>1, <3>2, Zenon
  <2> QED BY <1>1, <2>1, <2>2, Zenon DEF Halts
<1>12. AssignedAtRest'
  BY <1>1, Zenon DEF TimerInv, AssignedAtRest
<1>13. Removes'
  <2>1. ASSUME NEW s \in removed \cap Alone
        PROVE  /\ at # s /\ s \notin armed' \cup active' /\ s \notin registry
               /\ \A q \in Threads : op'[q].on # s
    <3>1. /\ at # s /\ s \notin armed \cup active /\ s \notin registry
          /\ \A q \in Threads : op[q].on # s
      BY Zenon DEF TimerInv, Removes
    <3>2. s # t /\ \A q \in Threads : op'[q].on = op[q].on
      BY <1>1, <3>1, Zenon
    <3> QED BY <3>1, <3>2, Zenon
  <2>2. ASSUME NEW u \in Users, op'[u].name = "remove", op'[u].on \in Alone, op'[u].todo = <<>>
        PROVE  at # op'[u].on /\ op'[u].on \notin armed' \cup active'
    <3>1. u # p
      BY <1>1, <2>2, Zenon
    <3>2. op'[u] = op[u]
      BY <1>1, <1>3, <3>1, Zenon
    <3>3. op[u].on # t
      BY <1>3, <1>10, <2>2, <3>1, <3>2, Zenon
    <3>4. at # op[u].on /\ op[u].on \notin armed \cup active
      BY <2>2, <3>2, Zenon DEF TimerInv, Removes
    <3> QED BY <3>2, <3>3, <3>4, Zenon
  <2> QED BY <1>1, <2>1, <2>2, Zenon DEF Removes
<1> QED BY <1>2, <1>6, <1>7, <1>8, <1>9, <1>11, <1>12, <1>13, Zenon DEF TimerInv

\* event_del and event_assign.
LEMMA CancellingKeeps ==
    ASSUME Known, TimerInv, NEW p \in Threads, Libs(p),
           op[p].name \in {"remove", "disposal", "stop"},
           op[p].name \in {"remove", "disposal"} => Tail(op[p].todo) = <<>>,
           \/ /\ event_del(p, op[p].on)
              /\ op[p].name = "stop" => Tail(op[p].todo) \in {<<"assign">>, <<"assign", "activate">>}
           \/ /\ event_assign(p, op[p].on) /\ op[p].name = "stop"
              /\ op[p].todo \in {<<"assign">>, <<"assign", "activate">>}
              /\ Tail(op[p].todo) \in {<<"activate">>, <<>>}
    PROVE  TimerInv'
<1> DEFINE t == op[p].on
<1>1. /\ UNCHANGED <<owner, registry, registry_stopped, one_shot, used, fired, halted, removed, quit, at>>
      /\ t \in Timers /\ op'[p].name = op[p].name /\ op'[p].on = t
      /\ op'[p].todo = Tail(op[p].todo) /\ \A q \in Threads : q # p => op'[q] = op[q]
      /\ OnLoop' = OnLoop /\ Alone' = Alone /\ OnLoop \subseteq Timers /\ Alone \subseteq Timers
      /\ \A s : Holders(s)' = Holders(s)
  BY LibsDoes, Zenon
<1>2. Entries' /\ NotYet'
  BY LibsDoes, Zenon
<1>3. Loop \in Threads /\ Users \subseteq Threads /\ Loop \notin Users
  BY JobQueueAssumption, Zenon DEF Threads
<1>4. armed' \subseteq armed /\ active' \subseteq active /\ repeats' \subseteq repeats
  BY Zenon DEF event_del, event_assign
<1>5. event_del(p, t) => t \notin armed' \cup active' /\ (p = Loop \/ at # t) /\ clash' = clash
  BY Zenon DEF event_del, Unblocked
<1>6. op[p].name # "stop" => event_del(p, t)
  BY Zenon
<1>7. \A q \in Threads : op'[q].name = op[q].name /\ op'[q].on = op[q].on
  BY <1>1, Zenon
<1>8. ScheduledIsHeld' /\ Quiet'
  BY <1>1, <1>3, <1>4, <1>7, Zenon DEF TimerInv, ScheduledIsHeld, Quiet
<1>9. OneShots'
  <2>1. ASSUME NEW s \in one_shot, ~registry_stopped
        PROVE  Fires(s)'
    <3>1. Fires(s)
      BY <2>1, Zenon DEF TimerInv, OneShots
    <3> QED BY <1>1, <1>3, <1>4, <1>7, <3>1, Zenon DEF Fires
  <2>2. ASSUME ~registry_stopped, NEW q \in Threads, op'[q].name = "add_entry", op'[q].on \in one_shot,
               fired[op'[q].on] # 0
        PROVE  op'[q].todo = <<>>
    <3>1. q # p
      BY <1>1, <2>2, Zenon
    <3> QED BY <1>1, <2>2, <3>1, Zenon DEF TimerInv, OneShots
  <2>3. ASSUME op'[Loop].name = "disposal", op'[Loop].todo = <<>>
        PROVE  op'[Loop].on \notin armed' \cup active'
    <3>1. CASE Loop = p
      BY <1>1, <1>5, <1>6, <2>3, <3>1, Zenon
    <3>2. CASE Loop # p
      <4>1. op'[Loop] = op[Loop]
        BY <1>1, <1>3, <3>2, Zenon
      <4>2. op[Loop].on \notin armed \cup active
        BY <2>3, <4>1, Zenon DEF TimerInv, OneShots
      <4> QED BY <1>4, <4>1, <4>2, Zenon
    <3> QED BY <3>1, <3>2, Zenon
  <2> QED BY <1>1, <2>1, <2>2, <2>3, Zenon DEF OneShots
<1>10. Adds'
  <2>1. \A q \in Threads : op'[q].name = "add_entry" => op'[q] = op[q]
    BY <1>1, Zenon
  <2>2. \A q \in Threads : op'[q].name = "add_entry" /\ op'[q].on \in one_shot' /\ op'[q].todo # <<>> =>
            op'[q].on \notin armed' \cup active'
    BY <1>1, <1>4, <2>1, Zenon DEF TimerInv, Adds
  <2>3. op'[Loop].name = "disposal" => ~registry_stopped'
    BY <1>1, <1>3, <1>7, Zenon DEF TimerInv, Adds
  <2>4. \A q, r \in Threads : op'[q].name = "add_entry" /\ op'[r].name = "add_entry" /\ op'[q].on = op'[r].on => q = r
    BY <1>7, ZenonT(30) DEF TimerInv, Adds
  <2> QED BY <2>2, <2>3, <2>4, Zenon DEF Adds
<1>11. Halts'
  <2>1. ASSUME NEW s \in halted \cap Alone
        PROVE  /\ s \notin armed' /\ s \notin repeats' /\ s \notin one_shot
               /\ \A q \in Threads : op'[q].on = s => op'[q].name \notin {"repeat", "add_entry"}
    BY <1>4, <1>7, Zenon DEF TimerInv, Halts
  <2>2. ASSUME NEW q \in Threads, op'[q].name = "stop", op'[q].on \in Alone
        PROVE  /\ op'[q].todo \in {<<"assign">>, <<"assign", "activate">>} =>
                      op'[q].on \notin armed' \cup active' /\ (q = Loop \/ at # op'[q].on)
               /\ op'[q].todo \in {<<"activate">>, <<>>} => op'[q].on \notin armed' \cup repeats'
    <3>1. CASE q = p /\ event_del(p, t)
      <4>1. op'[q].todo \in {<<"assign">>, <<"assign", "activate">>}
            \/ (event_assign(p, t) /\ op[p].todo \in {<<"assign">>, <<"assign", "activate">>})
        BY <1>1, <2>2, <3>1, Zenon
      <4>2. op[p].todo \in {<<"assign">>, <<"assign", "activate">>} => t \notin armed
        BY <1>1, <2>2, <3>1, Zenon DEF TimerInv, Halts
      <4>3. op'[q].todo \notin {<<"activate">>, <<>>} \/ t \notin armed' \cup repeats'
        BY <1>4, <4>1, <4>2, Differ, Zenon DEF event_assign
      <4> QED BY <1>1, <1>5, <3>1, <4>3, Zenon
    <3>2. CASE q = p /\ ~event_del(p, t)
      <4>1. /\ event_assign(p, t) /\ op[p].todo \in {<<"assign">>, <<"assign", "activate">>}
            /\ op'[q].todo \in {<<"activate">>, <<>>}
        BY <1>1, <3>2, Zenon
      <4>2. t \notin armed
        BY <1>1, <2>2, <3>2, <4>1, Zenon DEF TimerInv, Halts
      <4>3. t \notin armed' \cup repeats'
        BY <1>4, <4>1, <4>2, Zenon DEF event_assign
      <4>4. op'[q].todo \notin {<<"assign">>, <<"assign", "activate">>}
        BY <4>1, Differ, Zenon
      <4> QED BY <1>1, <3>2, <4>3, <4>4, Zenon
    <3>3. CASE q # p
      <4>1. op'[q] = op[q]
        BY <1>1, <3>3, Zenon
      <4>2. /\ op[q].todo \in {<<"assign">>, <<"assign", "activate">>} =>
                      op[q].on \notin armed \cup active /\ (q = Loop \/ at # op[q].on)
            /\ op[q].todo \in {<<"activate">>, <<>>} => op[q].on \notin armed \cup repeats
        BY <2>2, <4>1, Zenon DEF TimerInv, Halts
      <4> QED BY <1>4, <4>1, <4>2, Zenon
    <3> QED BY <3>1, <3>2, <3>3, Zenon
  <2> QED BY <1>1, <2>1, <2>2, Zenon DEF Halts
<1>12. AssignedAtRest'
  <2>1. CASE event_del(p, t)
    BY <1>1, <1>5, <2>1, Zenon DEF TimerInv, AssignedAtRest
  <2>2. CASE event_assign(p, t) /\ op[p].name = "stop" /\ op[p].todo \in {<<"assign">>, <<"assign", "activate">>}
    <3>1. t \in Alone => t \notin armed \cup active /\ Unblocked(p, t)
      BY <2>2, Zenon DEF TimerInv, Halts, Unblocked
    <3>2. clash' \subseteq clash \cup {t} /\ (t \in Alone => clash' = clash)
      BY <2>2, <3>1, Zenon DEF event_assign
    <3> QED BY <1>1, <3>2, Zenon DEF TimerInv, AssignedAtRest
  <2> QED BY <2>1, <2>2, Zenon
<1>13. Removes'
  <2>1. ASSUME NEW s \in removed \cap Alone
        PROVE  /\ at # s /\ s \notin armed' \cup active' /\ s \notin registry
               /\ \A q \in Threads : op'[q].on # s
    BY <1>4, <1>7, Zenon DEF TimerInv, Removes
  <2>2. ASSUME NEW u \in Users, op'[u].name = "remove", op'[u].on \in Alone, op'[u].todo = <<>>
        PROVE  at # op'[u].on /\ op'[u].on \notin armed' \cup active'
    <3>1. CASE u = p
      <4>1. event_del(p, t) /\ p # Loop
        BY <1>1, <1>3, <1>6, <2>2, <3>1, Zenon
      <4> QED BY <1>1, <1>5, <3>1, <4>1, Zenon
    <3>2. CASE u # p
      <4>1. op'[u] = op[u]
        BY <1>1, <1>3, <3>2, Zenon
      <4>2. at # op[u].on /\ op[u].on \notin armed \cup active
        BY <2>2, <4>1, Zenon DEF TimerInv, Removes
      <4> QED BY <1>4, <4>1, <4>2, Zenon
    <3> QED BY <3>1, <3>2, Zenon
  <2> QED BY <1>1, <2>1, <2>2, Zenon DEF Removes
<1> QED BY <1>2, <1>8, <1>9, <1>10, <1>11, <1>12, <1>13, Zenon DEF TimerInv

\* Every libevent call keeps what is said of the timers.
LEMMA LibsKeeps ==
    ASSUME Known, TimerInv, NEW p \in Threads, Libs(p)
    PROVE  TimerInv'
<1> DEFINE t == op[p].on
<1>1. LibDoes(p, t, op[p].todo, Tail(op[p].todo))
  BY Zenon DEF Libs
<1>2. CASE /\ event_add(t, TRUE) \/ event_add(t, FALSE)
           /\ \/ op[p].name = "add_entry" /\ op[p].todo \in {<<"add">>, <<"add0">>} /\ Tail(op[p].todo) = <<>>
              \/ op[p].name = "repeat"
  <2>1. /\ clash' = clash /\ armed' \subseteq armed \cup {t} /\ active' \subseteq active \cup {t}
        /\ armed \subseteq armed' /\ active \subseteq active' /\ repeats' \subseteq repeats \cup {t}
    BY <1>2, Zenon DEF event_add
  <2>2. /\ op[p].name \in {"add_entry", "repeat"} /\ op[p].name \notin {"wake", "stop"}
        /\ op[p].name = "add_entry" => op[p].todo # <<>> /\ Tail(op[p].todo) = <<>>
    BY <1>2, Differ, Zenon
  <2> QED BY <2>1, <2>2, SchedulingKeeps, Zenon
<1>3. CASE /\ event_active(t) /\ op[p].name \in {"wake", "repeat", "stop"}
           /\ op[p].todo = <<"activate">> /\ Tail(op[p].todo) = <<>>
  <2>1. /\ clash' = clash /\ armed' = armed /\ active' \subseteq active \cup {t}
        /\ active \subseteq active' /\ repeats' = repeats
    BY <1>3, Zenon DEF event_active
  <2>2. op[p].todo # <<>>
    BY <1>3, Differ, Zenon
  <2> QED BY <1>3, <2>1, <2>2, SchedulingKeeps, Zenon
<1>4. CASE event_del(p, t) /\ op[p].name \in {"remove", "disposal"} /\ Tail(op[p].todo) = <<>>
  <2>1. op[p].name # "stop"
    BY <1>4, Zenon
  <2> QED BY <1>4, <2>1, CancellingKeeps, Zenon
<1>5. CASE /\ event_del(p, t) /\ op[p].name = "stop"
           /\ Tail(op[p].todo) \in {<<"assign">>, <<"assign", "activate">>}
  <2>1. op[p].name \notin {"remove", "disposal"}
    BY <1>5, Zenon
  <2> QED BY <1>5, <2>1, CancellingKeeps, Zenon
<1>6. CASE /\ event_assign(p, t) /\ op[p].name = "stop"
           /\ op[p].todo \in {<<"assign">>, <<"assign", "activate">>} /\ Tail(op[p].todo) \in {<<"activate">>, <<>>}
  <2>1. op[p].name \notin {"remove", "disposal"}
    BY <1>6, Zenon
  <2> QED BY <1>6, <2>1, CancellingKeeps, Zenon
<1> QED BY <1>1, <1>2, <1>3, <1>4, <1>5, <1>6, Zenon DEF LibDoes

\* Every step keeps what is said of the timers.
LEMMA TimerInvNext ==
    ASSUME Known, TimerInv, Next
    PROVE  TimerInv'
<1>1. UNCHANGED owner /\ ((\E p \in Threads, t \in Timers : Enters(p, t)) \/ OtherStep)
  BY Steps, Zenon DEF Known
<1>2. CASE \E p \in Threads, t \in Timers : Enters(p, t)
  BY <1>2, EntersKeeps, Zenon
<1>3. CASE \/ QueueStep \/ StopStep \/ QuitEnds
           \/ \E p \in Threads, j \in Jobs : call_soon(p, j)
           \/ \E u \in Users, j \in Jobs : call_get(u, j) /\ Gets(u, j)
           \/ \E u \in Users : GetEnds(u) /\ UNCHANGED jobVars
  BY <1>1, <1>3, AsideSteps, AsideKeeps, Zenon
<1>4. CASE RegistryStops
  BY <1>4, RegistryStopsKeeps, Zenon
<1>5. CASE \E p \in Threads : Libs(p) \/ Returns(p)
  BY <1>1, <1>5, LibsKeeps, ReturnsKeeps, Zenon
<1>6. CASE \E t \in Timers : OneShotEnds(t) \/ CallbackEnds(t) \/ Expire(t) \/ Dispatch(t)
  BY <1>1, <1>6, OneShotEndsKeeps, CallbackEndsKeeps, ExpireKeeps, DispatchKeeps, Zenon
<1> QED BY <1>1, <1>2, <1>3, <1>4, <1>5, <1>6, Zenon DEF OtherStep

\* What a step may start, and that stop() is for good.
Starts ==
    /\ at' = at \/ at' \notin Jobs \cup Timers \/ running \/ at' \in active
    /\ quit' = quit \/ at' \notin Jobs \cup Timers
    /\ \A t \in Timers : fired'[t] = fired[t] \/ t \in active
    /\ registry_stopped => registry_stopped' /\ one_shot' = one_shot
    /\ registry_stopped' /\ ~registry_stopped => fired' = fired /\ one_shot' = one_shot
LEMMA StepStarts ==
    ASSUME Known, Next
    PROVE  Starts
<1>1. UNCHANGED owner /\ ((\E p \in Threads, t \in Timers : Enters(p, t)) \/ OtherStep)
  BY Steps, Zenon DEF Known
<1>2. "idle" \notin Jobs \cup Timers /\ "waker" \notin Jobs \cup Timers /\ "jobs" \notin Jobs \cup Timers
      /\ \A u \in Users : u \notin Jobs \cup Timers
  BY JobQueueAssumption, Zenon
<1>3. ASSUME UNCHANGED <<one_shot, registry_stopped, fired, quit>>,
             at' = at \/ at' \notin Jobs \cup Timers \/ running \/ at' \in active
      PROVE  Starts
  BY <1>3, Zenon DEF Starts
<1>4. ASSUME NEW p \in Threads, NEW t \in Timers, Enters(p, t)
      PROVE  Starts
  <2>1. UNCHANGED <<registry_stopped, fired, quit, at>>
    BY <1>4, EntersDoes, Zenon
  <2>2. registry_stopped => one_shot' = one_shot
    BY <1>4, EntersDoes, Zenon
  <2> QED BY <2>1, <2>2, Zenon DEF Starts
<1>5. CASE QueueStep
  <2>1. /\ UNCHANGED <<one_shot, registry_stopped, fired, quit>>
        /\ at' \in {"idle", "waker", "jobs"} \/ running
    BY <1>5, Zenon DEF QueueStep, WakerFires, SwapQueue, NextJob, TakeJob, JobReturns, BatchEnds, timerVars, ghosts
  <2> QED BY <1>2, <1>3, <2>1, Zenon
<1>6. CASE StopStep
  <2>1. UNCHANGED <<one_shot, registry_stopped, fired, quit>> /\ (at' = at \/ at' \in Users)
    BY <1>6, Zenon DEF StopStep, Quits, MainQuits, HalfStops, Quiescent, timerVars, ghosts
  <2> QED BY <1>2, <1>3, <2>1, Zenon
<1>7. CASE RegistryStops
  BY <1>7, Zenon DEF RegistryStops, Starts, ghosts
<1>8. CASE QuitEnds
  <2>1. /\ UNCHANGED <<one_shot, registry_stopped, fired>> /\ at' = (IF at \in Users THEN "idle" ELSE at)
        /\ quit' = (quit \/ at \in Users) /\ quit \in BOOLEAN
    BY <1>8, Zenon DEF QuitEnds, timerVars, Known, JobInv, JobTypes
  <2> QED BY <1>2, <2>1, Zenon DEF Starts
<1>9. CASE \/ \E p \in Threads, j \in Jobs : call_soon(p, j)
           \/ \E u \in Users, j \in Jobs : call_get(u, j) /\ Gets(u, j)
           \/ \E u \in Users : GetEnds(u) /\ UNCHANGED jobVars
           \/ \E p \in Threads : Libs(p)
           \/ \E t \in Timers : OneShotEnds(t) \/ Expire(t)
  <2>1. UNCHANGED <<one_shot, registry_stopped, fired, quit>> /\ at' = at
    BY <1>9, Zenon DEF call_soon, Gets, GetEnds, Quiescent, Libs, OneShotEnds, Expire, timerVars, ghosts
  <2> QED BY <1>3, <2>1, Zenon
<1>10. ASSUME NEW p \in Threads, Returns(p)
       PROVE  Starts
  <2>1. UNCHANGED <<one_shot, registry_stopped, fired, quit>> /\ (at' = at \/ at' = "idle")
    BY <1>10, Zenon DEF Returns, Return, timerVars
  <2> QED BY <1>2, <1>3, <2>1, Zenon
<1>11. ASSUME NEW t \in Timers, CallbackEnds(t)
       PROVE  Starts
  <2>1. UNCHANGED <<one_shot, registry_stopped, fired, quit>> /\ at' = "idle"
    BY <1>11, Zenon DEF CallbackEnds, timerVars, ghosts
  <2> QED BY <1>2, <1>3, <2>1, Zenon
<1>12. ASSUME NEW t \in Timers, Dispatch(t)
       PROVE  Starts
  <2>1. /\ UNCHANGED <<one_shot, registry_stopped, quit>> /\ at' = t /\ t \in active
        /\ fired' = [fired EXCEPT ![t] = IF @ < 2 THEN @ + 1 ELSE 2]
    BY <1>12, Zenon DEF Dispatch, timerVars
  <2>2. \A s \in Timers : s # t => fired'[s] = fired[s]
    BY <2>1, Zenon DEF Known, Fired
  <2> QED BY <2>1, <2>2, Zenon DEF Starts
<1> QED BY <1>1, <1>4, <1>5, <1>6, <1>7, <1>8, <1>9, <1>10, <1>11, <1>12, Zenon DEF OtherStep

\* What stop() leaves is quiet.
LEMMA StoppedNext ==
    ASSUME Known, TimerInv, OneShotOnce, StoppedIsQuiet, Next, TimerInv'
    PROVE  OneShotOnce' /\ StoppedIsQuiet'
<1>1. Starts /\ owner' = owner /\ OnLoop' = OnLoop /\ OnLoop \subseteq Timers
  BY StepStarts, Zenon DEF Next, OnLoop
<1>2. OneShotOnce'
  <2> SUFFICES ASSUME NEW t \in one_shot', registry_stopped' => t \in OnLoop
               PROVE  fired'[t] < 2
    BY <1>1, Zenon DEF OneShotOnce
  <2>1. CASE ~registry_stopped'
    <3>1. Fires(t)'
      BY <2>1, Zenon DEF TimerInv, OneShots
    <3> QED BY <3>1 DEF Fires
  <2>2. CASE registry_stopped' /\ ~registry_stopped
    <3>1. Fires(t)
      BY <1>1, <2>2, Zenon DEF TimerInv, OneShots, Starts
    <3> QED BY <1>1, <2>2, <3>1 DEF Fires, Starts
  <2>3. CASE registry_stopped' /\ registry_stopped
    <3>1. t \in OnLoop /\ t \in Timers /\ t \in one_shot
      BY <1>1, <2>3, Zenon DEF Starts
    <3>2. t \notin active
      BY <2>3, <3>1, Zenon DEF TimerInv, Quiet
    <3>3. fired'[t] = fired[t] /\ fired[t] < 2
      BY <1>1, <2>3, <3>1, <3>2, Zenon DEF Starts, OneShotOnce
    <3> QED BY <3>3, Zenon
  <2> QED BY <2>1, <2>2, <2>3, Zenon
<1>3. StoppedIsQuiet'
  <2> SUFFICES ASSUME quit', at' \in Jobs \cup Timers
               PROVE  at' \notin Jobs \cup OnLoop
    BY <1>1, Zenon DEF StoppedIsQuiet
  <2>1. quit /\ registry_stopped /\ ~running
    BY <1>1, Zenon DEF Starts, TimerInv, Quiet, Known, JobInv, JobTypes
  <2>2. CASE at' = at
    BY <2>1, <2>2, Zenon DEF StoppedIsQuiet
  <2>3. CASE at' \in active
    <3>1. at' \in Timers /\ at' \notin OnLoop
      BY <2>1, <2>3, Zenon DEF TimerInv, Quiet, Known, TimerTypes
    <3> QED BY <3>1, JobQueueAssumption, Zenon
  <2> QED BY <1>1, <2>1, <2>2, <2>3, Zenon DEF Starts
<1> QED BY <1>2, <1>3, Zenon

-----------------------------------------------------------------------------
(* The theorems.                                                           *)

Inv == Known /\ TimerInv /\ OneShotOnce /\ StoppedIsQuiet

\* The inductive invariant holds at the start, after every step, and so always.
LEMMA InvInit ==
    ASSUME Init
    PROVE  Inv
<1>1. /\ running = TRUE /\ waker = FALSE /\ registry_stopped = FALSE /\ quit = FALSE
      /\ queue = <<>> /\ batch = <<>> /\ submitted = <<>> /\ started = <<>> /\ dropped = {}
      /\ at = "idle" /\ calls = 0 /\ op = [p \in Threads |-> NoCall]
  BY Zenon DEF Init
<1>2. /\ registry = {} /\ one_shot = {} /\ used = {} /\ clash = {}
      /\ armed = {} /\ repeats = {} /\ active = {} /\ owner \in [Timers -> SUBSET Threads]
      /\ halted = {} /\ removed = {} /\ fired = [t \in Timers |-> 0]
  BY Zenon DEF Init
<1>3. Loop \in Threads /\ Users \subseteq Threads
  BY Zenon DEF Threads
<1>4. \A p \in Threads : op[p] = NoCall /\ op[p].name = "none" /\ op[p].on = Idle /\ op[p].todo = <<>>
  BY <1>1, Zenon DEF NoCall
<1>5. JobInv
  <2>1. <<>> \in Seq(Jobs) /\ Len(<<>>) = 0 /\ DOMAIN <<>> = {} /\ <<>> = <<>> \o <<>> \o <<>>
    OBVIOUS
  <2>2. NoStrandedJob /\ BatchHeld
    BY <1>1, Zenon DEF NoStrandedJob, BatchHeld
  <2>4. JobTypes
    BY <1>1, <2>1, Zenon DEF JobTypes
  <2>3. RunInOrder
    BY <1>1, <2>1 DEF RunInOrder
  <2> QED BY <2>2, <2>3, <2>4, Zenon DEF JobInv
<1>6. TimerTypes /\ Fired
  BY <1>2 DEF TimerTypes, Fired
<1>7. OpTypes
  <2>1. /\ NoCall \in [name : Names, on : Jobs \cup Timers \cup {Idle}, todo : Seq(LibCalls)]
        /\ NoCall.name = "none" /\ NoCall.on = Idle /\ NoCall.todo = <<>>
    BY DEF NoCall, Names
  <2>2. Calling
    BY <1>1, <2>1, JobQueueAssumption DEF Calling
  <2>3. \A p \in Threads : Formed(p)
    BY <1>4, Zenon DEF Formed, OnWhat, Left
  <2> QED BY <2>2, <2>3, Zenon DEF OpTypes
<1>8. LoopInv
  BY <1>1, <1>2, <1>3, <1>4, JobQueueAssumption, Zenon DEF LoopInv, Loops, Stopping
<1>9. Idle \notin Timers /\ "idle" \notin Jobs \cup Timers
  BY JobQueueAssumption, Zenon
<1>10. NotYet /\ Adds /\ Entries /\ ScheduledIsHeld
  BY <1>1, <1>2, <1>3, <1>4, <1>9, Zenon DEF NotYet, Adds, Entries, ScheduledIsHeld
<1>11. OneShots /\ Quiet /\ AssignedAtRest
  BY <1>1, <1>2, <1>3, <1>4, <1>9, Zenon DEF OneShots, Quiet, AssignedAtRest
<1>12. Halts /\ Removes
  BY <1>1, <1>2, <1>3, <1>4, <1>9, Zenon DEF Halts, Removes
<1>13. OneShotOnce /\ StoppedIsQuiet
  BY <1>1, <1>2, Zenon DEF OneShotOnce, StoppedIsQuiet
<1> QED BY <1>5, <1>6, <1>7, <1>8, <1>10, <1>11, <1>12, <1>13, Zenon DEF Inv, Known, TimerInv

LEMMA InvNext ==
    ASSUME Inv, [Next]_vars
    PROVE  Inv'
<1>1. JobInv /\ TimerTypes /\ Fired /\ OpTypes /\ LoopInv /\ Known /\ TimerInv
  BY Zenon DEF Inv, Known
<1>2. CASE Next
  <2>1. Known'
    BY <1>1, <1>2, JobInvNext, TimerTypesNext, OpTypesNext, LoopInvNext, Zenon DEF Known, LoopInv
  <2>2. TimerInv'
    BY <1>1, <1>2, TimerInvNext, Zenon
  <2> QED BY <1>2, <2>1, <2>2, StoppedNext, Zenon DEF Inv
<1>3. CASE UNCHANGED vars
  <2>1. UNCHANGED <<owner, jobVars, timerVars, eventVars, ghosts>> /\ at' = at /\ op' = op /\ calls' = calls
    BY <1>3, Zenon DEF vars
  <2>2. UNCHANGED <<running, registry, registry_stopped, quit, used, one_shot, fired>>
    BY <2>1, Zenon DEF jobVars, timerVars, ghosts
  <2>3. JobInv'
    <3>1. quit \in BOOLEAN /\ registry_stopped \in BOOLEAN /\ (registry_stopped => ~running)
      BY <1>1, Zenon DEF JobInv, JobTypes
    <3> QED BY <1>1, <2>1, <2>2, <3>1, JobsAside, Zenon
  <2>4. TimerTypes' /\ Fired'
    BY <1>1, <2>1, Zenon DEF TimerTypes, Fired, timerVars, eventVars, ghosts
  <2>5. OpTypes'
    <3>1. used \subseteq used' /\ calls' \in 0..MaxCalls
      BY <1>1, <2>1, <2>2, Zenon DEF OpTypes, Calling
    <3> QED BY <1>1, <2>1, <3>1, OpSame, Zenon
  <2>6. LoopInv'
    BY <1>1, <2>1, <2>2, LoopInvSame, Zenon
  <2>7. TimerInv'
    <3>1. Aside
      BY <2>1, Zenon DEF Aside, ghosts
    <3> QED BY <1>1, <3>1, AsideKeeps, Zenon
  <2>8. OneShotOnce' /\ StoppedIsQuiet'
    BY <2>1, <2>2, Zenon DEF Inv, OneShotOnce, StoppedIsQuiet, OnLoop
  <2> QED BY <2>3, <2>4, <2>5, <2>6, <2>7, <2>8, Zenon DEF Inv, Known
<1> QED BY <1>2, <1>3, Zenon

LEMMA InvHolds == Spec => []Inv
<1>1. Init => Inv
  BY InvInit, Zenon
<1>2. Inv /\ [Next]_vars => Inv'
  BY InvNext, Zenon
<1> QED BY <1>1, <1>2, PTL DEF Spec

\* Whatever number of threads queue jobs with call_soon and call_get, and wherever stop() falls, jobs
\* run once each in the order they were accepted, none is lost while the queue runs, and one in the
\* queue always has a wake-up on its way.
THEOREM JobsAreInOrder == Spec => []JobsInOrder
<1>1. Inv => JobsInOrder
  BY TypeParts, Zenon DEF Inv, Known, JobInv, JobsInOrder
<1> QED BY <1>1, InvHolds, PTL

\* With any timers, used by any threads: libevent has nothing scheduled for an entry that neither the
\* registry nor a call in progress refers to; a call_later callback runs once; a timer descheduled
\* stays so; and nothing the loop alone uses runs after stop() has returned elsewhere.
THEOREM TimersAreKept == Spec => []TimersKept
<1>1. Inv => TimersKept
  BY Zenon DEF Inv, TimerInv, Halts, HaltedStaysHalted, TimersKept
<1> QED BY <1>1, InvHolds, PTL

\* With any timers: once remove(id) has returned on a thread that alone uses the id, the callback is not
\* executing, and disarm's event_assign never meets an event that is scheduled or running.
THEOREM RemovedTimersAreQuiet == Spec => []RemovedIsQuietApart
<1>1. Inv => RemovedIsQuietApart
  BY Zenon DEF Inv, TimerInv, Removes, RemovedIsQuiet, RemovedIsQuietApart
<1> QED BY <1>1, InvHolds, PTL
=============================================================================

------------------------------ MODULE BTRequest ------------------------------
(***************************************************************************)
(* The requesting side of a BTRequestStream (src/src/btstream.cpp):        *)
(* command(), the table of outstanding requests, their expiries and the    *)
(* one timer that follows the first of them, replies, withdrawal of unsent *)
(* requests, closing and destruction.  The peer's stream and the network   *)
(* are external: a request that has been sent may be answered any number   *)
(* of times, at any time (a handler that responds and then throws answers  *)
(* twice), or never.                                                       *)
(*                                                                         *)
(* A request's callback is application code that runs inside the loop and  *)
(* may issue further requests or close the stream: check_timeouts calls    *)
(* them one at a time (pc = "expiring"), and the application's calls may   *)
(* come between them.                                                      *)
(***************************************************************************)
EXTENDS Integers, Sequences, FiniteSets, Functions, Subsequences

CONSTANTS
    MaxRequests, \* bound: requests the application makes
    Timeouts,    \* the timeouts the application asks for
    MaxTime,     \* bound: the clock
    MaxReplies,  \* bound: replies the peer sends to one request
    send_after_timeout   \* the requests given that option

Requests == 1..MaxRequests   \* the req_ids, in the order next_rid hands them out

ASSUME RequestAssumption ==
    /\ MaxRequests \in Nat
    /\ Timeouts \subseteq Nat /\ MaxTime \in Nat /\ MaxReplies \in Nat
    /\ send_after_timeout \subseteq Requests

VARIABLES
    now,
    place,        \* where each request object is: "none", "job" (a queued job holds it),
                  \* "sent_reqs", "expired" (check_timeouts' list), "gone"
    expiry,
    answers,      \* the responses its callback got: Seq of "reply", "timeout", "closed"
    sent_reqs,    \* the outstanding requests
    req_expiries, \* Seq of [at, id] in the order of the multimap
    timer,        \* when the timeout event is due, NoTimer if not pending
    is_closing,
    attached,     \* the connection still has the stream in its maps
    alive,        \* the stream object exists
    pc, expired,  \* the list check_timeouts goes through, and whether
    withdrawing,  \* it was called with a time
    unsent,       \* the stream's queue: requests of which something is still to be sent
    started,      \* the first of them has been partly sent
    written,      \* the requests that have been sent in full
    replies,      \* requests whose reply is on its way, a bag
    replied       \* how many replies the peer has sent

tables == <<sent_reqs, req_expiries, timer>>
loop   == <<pc, expired, withdrawing>>
stream == <<unsent, started>>
net    == <<written, replies, replied>>
vars   == <<now, place, expiry, answers, tables, is_closing, attached, alive, loop, stream, net>>

NoTimer == -1

Init ==
    /\ now = 0
    /\ place = [r \in Requests |-> "none"]
    /\ expiry = [r \in Requests |-> 0]
    /\ answers = [r \in Requests |-> <<>>]
    /\ sent_reqs = {} /\ req_expiries = <<>> /\ timer = NoTimer
    /\ is_closing = FALSE /\ attached = TRUE /\ alive = TRUE
    /\ pc = "idle" /\ expired = <<>> /\ withdrawing = FALSE
    /\ unsent = <<>> /\ started = FALSE
    /\ written = {} /\ replies = [r \in Requests |-> 0] /\ replied = [r \in Requests |-> 0]

-----------------------------------------------------------------------------
(* Operators.                                                              *)

\* What update_timeout leaves in the timer for expiries es.
update_timeout(es) == IF es = <<>> THEN NoTimer ELSE es[1].at

\* req_expiries with [at, r] emplaced: after the entries due no later (es is sorted,
\* so there is one such place).
Emplaced(es, at, r) ==
    {Inserted(es, p, [at |-> at, id |-> r]) :
        p \in {p \in 1..Len(es) + 1 : /\ \A i \in 1..p - 1 : es[i].at <= at
                                     /\ \A i \in p..Len(es) : es[i].at > at}}

\* Stream::withdraw for a request's buffer: only one that has not been started.
withdrawMutant(r) ==   \* never withdraws the request at the send point
    \E f \in Enumerations({i \in DOMAIN unsent : unsent[i] # r \/ i = 1}) : unsent' = Kept(unsent, f)
withdraw(r) ==
    \E f \in Enumerations({i \in DOMAIN unsent : unsent[i] # r \/ (i = 1 /\ started)}) :
        unsent' = Kept(unsent, f)

\* deliver: the first response reaches the callback, which is then gone.
deliver(ans, r, response) == [ans EXCEPT ![r] = IF @ = <<>> THEN <<response>> ELSE @]

-----------------------------------------------------------------------------
(* The application.                                                        *)

\* command(): the request is made, with its expiry, on whatever thread calls.
Make(r, t) ==
    /\ place[r] = "none" /\ \A q \in Requests : q < r => place[q] # "none"
    /\ expiry' = [expiry EXCEPT ![r] = now + t]

\* Called off the loop's thread, the rest is a job; jobs of several threads can be
\* queued in another order than their req_ids.
CommandQueued(r, t) ==
    /\ alive
    /\ Make(r, t)
    /\ place' = [place EXCEPT ![r] = "job"]
    /\ UNCHANGED <<now, answers, tables, is_closing, attached, alive, loop, stream, net>>

\* add_sent_request and send.  On a closing stream the request object is dropped,
\* and fails as it is destroyed.
add_sent_request(r, at) ==
    IF is_closing
    THEN /\ answers' = deliver(answers, r, "closed")
         /\ place' = [place EXCEPT ![r] = "gone"]
         /\ UNCHANGED <<tables, unsent>>
    ELSE /\ sent_reqs' = sent_reqs \cup {r}
         /\ req_expiries' \in Emplaced(req_expiries, at, r)
         /\ timer' = IF req_expiries'[1].id = r THEN update_timeout(req_expiries') ELSE timer
         /\ unsent' = IF attached THEN Append(unsent, r) ELSE unsent
         /\ place' = [place EXCEPT ![r] = "sent_reqs"]
         /\ UNCHANGED answers

RunJob(r) ==
    /\ alive /\ pc = "idle" /\ place[r] = "job"
    /\ add_sent_request(r, expiry[r])
    /\ UNCHANGED <<now, expiry, is_closing, attached, alive, loop, started, net>>

\* Called on the loop's thread, from any callback, all of it happens at once.
CommandInline(r, t) ==
    /\ alive
    /\ Make(r, t)
    /\ add_sent_request(r, now + t)
    /\ UNCHANGED <<now, is_closing, attached, alive, loop, started, net>>

\* Stream::close: replies are no longer read, but the timer keeps running.
Close ==
    /\ alive /\ ~is_closing
    /\ is_closing' = TRUE
    /\ UNCHANGED <<now, place, expiry, answers, tables, attached, alive, loop, stream, net>>

-----------------------------------------------------------------------------
(* Replies and the timer.                                                  *)

PeerReplies(r) ==
    /\ attached /\ r \in written /\ replied[r] < MaxReplies
    /\ replied' = [replied EXCEPT ![r] = @ + 1]
    /\ replies' = [replies EXCEPT ![r] = @ + 1]
    /\ UNCHANGED <<now, place, expiry, answers, tables, is_closing, attached, alive, loop, stream, written>>

\* handle_input for a reply; receive() reads nothing on a closing stream.
Reply(r) ==
    LET others == {i \in DOMAIN req_expiries : req_expiries[i] # [at |-> expiry[r], id |-> r]}
    IN  /\ alive /\ attached /\ pc = "idle" /\ replies[r] > 0
        /\ replies' = [replies EXCEPT ![r] = @ - 1]
        /\ IF is_closing \/ r \notin sent_reqs
           THEN UNCHANGED <<place, answers, tables>>
           ELSE /\ sent_reqs' = sent_reqs \ {r}
                /\ \E f \in Enumerations(others) : req_expiries' = Kept(req_expiries, f)
                /\ timer' = IF 1 \in DOMAIN req_expiries \ others THEN update_timeout(req_expiries') ELSE timer
                /\ answers' = deliver(answers, r, "reply")
                /\ place' = [place EXCEPT ![r] = "gone"]
        /\ UNCHANGED <<now, expiry, is_closing, attached, alive, loop, stream, written, replied>>

\* check_timeouts: takes n entries off the front of the expiries and the requests
\* that are still outstanding off the table, into its own list.
check_timeouts(n, timed) ==
    /\ \E f \in Enumerations({i \in 1..n : req_expiries[i].id \in sent_reqs}) :
          expired' = [i \in DOMAIN f |-> req_expiries[f[i]].id]
    /\ sent_reqs' = sent_reqs \ Range(expired')
    /\ req_expiries' = SubSeq(req_expiries, n + 1, Len(req_expiries))
    /\ place' = [r \in Requests |-> IF r \in Range(expired') THEN "expired" ELSE place[r]]
    /\ withdrawing' = timed
    /\ pc' = "expiring"

\* n entries, and no more, are due.
Due(n) ==
    /\ \A i \in 1..n : req_expiries[i].at <= now
    /\ n < Len(req_expiries) => req_expiries[n + 1].at > now

TimerFires ==
    /\ alive /\ pc = "idle" /\ timer # NoTimer /\ timer <= now
    /\ timer' = NoTimer
    /\ \E n \in 0..Len(req_expiries) : Due(n) /\ check_timeouts(n, TRUE)
    /\ UNCHANGED <<now, expiry, answers, is_closing, attached, alive, stream, net>>

\* One request of the list: withdrawn if none of it has been sent, unless the
\* stream is going away or it was to be sent anyway, and answered.
ExpireNext ==
    LET r == Head(expired)
    IN  /\ pc = "expiring" /\ expired # <<>>
        /\ IF withdrawing /\ r \notin send_after_timeout THEN withdraw(r) ELSE UNCHANGED unsent
        /\ answers' = deliver(answers, r, IF withdrawing THEN "timeout" ELSE "closed")
        /\ place' = [place EXCEPT ![r] = "gone"]
        /\ expired' = Tail(expired)
        /\ UNCHANGED <<now, expiry, tables, is_closing, attached, alive, pc, withdrawing, started, net>>

\* The timer's callback ends by re-arming the timer; the close ends with the stream
\* leaving the connection's maps.
ExpireDoneMutant ==   \* the timer is not set again
    /\ pc = "expiring" /\ expired = <<>>
    /\ attached' = (attached /\ withdrawing)
    /\ pc' = "idle"
    /\ UNCHANGED <<now, place, expiry, answers, tables, is_closing, alive, expired, withdrawing, stream, net>>
ExpireDone ==
    /\ pc = "expiring" /\ expired = <<>>
    /\ timer' = IF withdrawing THEN update_timeout(req_expiries) ELSE timer
    /\ attached' = (attached /\ withdrawing)
    /\ pc' = "idle"
    /\ UNCHANGED <<now, place, expiry, answers, sent_reqs, req_expiries, is_closing, alive,
                   expired, withdrawing, stream, net>>

-----------------------------------------------------------------------------
(* The end of the stream.                                                  *)

\* Connection::stream_closed: closed() runs only if the stream was not closing yet.
StreamClosed ==
    /\ alive /\ attached /\ pc = "idle"
    /\ is_closing' = TRUE
    /\ IF is_closing
       THEN /\ attached' = FALSE
            /\ UNCHANGED <<place, tables, loop>>
       ELSE /\ timer' = NoTimer
            /\ check_timeouts(Len(req_expiries), FALSE)
            /\ UNCHANGED attached
    /\ UNCHANGED <<now, expiry, answers, alive, stream, net>>

\* A connection that closes quietly: drop_streams, without any callback.
DropStreams ==
    /\ alive /\ attached /\ pc = "idle"
    /\ attached' = FALSE
    /\ UNCHANGED <<now, place, expiry, answers, tables, is_closing, alive, loop, stream, net>>

\* ~BTRequestStream, once the connection and the application have let go of it:
\* the queued jobs are discarded, and whatever is outstanding fails.
DestroyMutant ==   \* forgets the requests in queued jobs
    /\ alive /\ ~attached /\ pc = "idle"
    /\ alive' = FALSE
    /\ timer' = NoTimer /\ sent_reqs' = {} /\ req_expiries' = <<>>
    /\ answers' = [r \in Requests |-> IF r \in sent_reqs THEN deliver(answers, r, "closed")[r] ELSE answers[r]]
    /\ place' = [r \in Requests |-> IF r \in sent_reqs \/ place[r] = "job" THEN "gone" ELSE place[r]]
    /\ UNCHANGED <<now, expiry, is_closing, attached, loop, stream, net>>
Destroy ==
    LET owed == sent_reqs \cup {r \in Requests : place[r] = "job"}
    IN  /\ alive /\ ~attached /\ pc = "idle"
        /\ alive' = FALSE
        /\ timer' = NoTimer /\ sent_reqs' = {} /\ req_expiries' = <<>>
        /\ answers' = [r \in Requests |-> IF r \in owed THEN deliver(answers, r, "closed")[r] ELSE answers[r]]
        /\ place' = [r \in Requests |-> IF r \in owed THEN "gone" ELSE place[r]]
        /\ UNCHANGED <<now, expiry, is_closing, attached, loop, stream, net>>

-----------------------------------------------------------------------------
(* The stream (see StreamSend) and the clock.                              *)

WritePart ==
    /\ attached /\ pc = "idle" /\ ~is_closing /\ unsent # <<>> /\ ~started
    /\ started' = TRUE
    /\ UNCHANGED <<now, place, expiry, answers, tables, is_closing, attached, alive, loop, unsent, net>>

WriteRest ==
    /\ attached /\ pc = "idle" /\ ~is_closing /\ unsent # <<>>
    /\ unsent' = Tail(unsent) /\ started' = FALSE
    /\ written' = written \cup {Head(unsent)}
    /\ UNCHANGED <<now, place, expiry, answers, tables, is_closing, attached, alive, loop, replies, replied>>

Tick ==
    /\ now < MaxTime /\ now' = now + 1
    /\ UNCHANGED <<place, expiry, answers, tables, is_closing, attached, alive, loop, stream, net>>

Next ==
    \/ \E r \in Requests :
         \/ \E t \in Timeouts : now + t <= MaxTime /\ (CommandQueued(r, t) \/ CommandInline(r, t))
         \/ RunJob(r) \/ PeerReplies(r) \/ Reply(r)
    \/ Close
    \/ TimerFires \/ ExpireNext \/ ExpireDone
    \/ StreamClosed \/ DropStreams \/ Destroy
    \/ WritePart \/ WriteRest
    \/ Tick

Spec == Init /\ [][Next]_vars

\* The clock runs, the loop runs its jobs and a timer that is due, and a callback
\* returns.  Nothing is assumed of the peer, the network or the application.
FairSpec ==
    /\ Spec
    /\ WF_vars(Tick)
    /\ WF_vars(TimerFires) /\ WF_vars(ExpireNext) /\ WF_vars(ExpireDone)
    /\ \A r \in Requests : WF_vars(RunJob(r))

-----------------------------------------------------------------------------
(* Properties.                                                             *)

Responses == {"reply", "timeout", "closed"}
Distinct(s) == \A i, j \in DOMAIN s : s[i] = s[j] => i = j

RequestsOK ==
    /\ now \in 0..MaxTime
    /\ place \in [Requests -> {"none", "job", "sent_reqs", "expired", "gone"}]
    /\ expiry \in [Requests -> 0..MaxTime]
    /\ answers \in [Requests -> Seq(Responses)]
TablesOK ==
    /\ sent_reqs \subseteq Requests
    /\ req_expiries \in Seq([at : 0..MaxTime, id : Requests])
    /\ timer \in {NoTimer} \cup 0..MaxTime
LoopOK ==
    /\ is_closing \in BOOLEAN /\ attached \in BOOLEAN /\ alive \in BOOLEAN
    /\ pc \in {"idle", "expiring"} /\ withdrawing \in BOOLEAN /\ expired \in Seq(Requests)
StreamOK == unsent \in Seq(Requests) /\ started \in BOOLEAN /\ written \subseteq Requests
RepliesOK ==
    /\ replies \in [Requests -> 0..MaxReplies] /\ replied \in [Requests -> 0..MaxReplies]
    /\ \A r \in Requests : replies[r] <= replied[r]

TypeOK == RequestsOK /\ TablesOK /\ LoopOK /\ StreamOK /\ RepliesOK

\* "Every sent_request that starts out needing a response gets exactly one":
\* a request object that is gone has been answered once, one that exists has not
\* been answered, and it is in exactly the table its place says, once.
AnsweredOnce ==
    /\ \A r \in Requests :
         /\ Len(answers[r]) = IF place[r] = "gone" THEN 1 ELSE 0
         /\ r \in sent_reqs <=> place[r] = "sent_reqs"
         /\ r \in Range(expired) <=> place[r] = "expired"
    /\ Distinct(expired)

\* The expiries are those of the outstanding requests, the first due first.
ExpiriesSorted ==
    /\ \A i \in DOMAIN req_expiries : req_expiries[i].id \in sent_reqs
    /\ \A r \in sent_reqs : \E i \in DOMAIN req_expiries : req_expiries[i] = [at |-> expiry[r], id |-> r]
    /\ \A i, j \in DOMAIN req_expiries :
         i < j => /\ req_expiries[i].at <= req_expiries[j].at
                  /\ req_expiries[i].id # req_expiries[j].id

\* The timer is synced with the first expiry whenever the loop is idle; while a
\* closed stream fails its requests nothing can be added.
TimerInSync ==
    /\ ExpiriesSorted
    /\ pc = "idle" => timer = update_timeout(req_expiries) /\ expired = <<>>
    /\ pc = "expiring" /\ ~withdrawing => is_closing /\ req_expiries = <<>> /\ timer = NoTimer

\* The timer never fails a request before its time.
NeverEarly ==
    \A r \in Requests :
      answers[r] = <<"timeout">> \/ (place[r] = "expired" /\ withdrawing) => expiry[r] <= now

\* Every request gets exactly one response, none before its time unless the peer
\* or the end of the stream gives it, and the one timer is always set for the
\* request that is due first.
AnsweredInTime == TypeOK /\ AnsweredOnce /\ TimerInSync /\ NeverEarly

\* A request that the timer failed is not sent afterwards, unless some of it had
\* been sent already or the application asked for it; and each is queued once, when
\* it enters the table.
NoLateSend ==
    /\ \A i \in DOMAIN unsent :
         /\ answers[unsent[i]] = <<"timeout">> => unsent[i] \in send_after_timeout \/ (i = 1 /\ started)
         /\ place[unsent[i]] \notin {"none", "job"}
    /\ Distinct(unsent)

\* No request is left without a response: not by a lost reply, a job that runs
\* after the stream closed, a close, or the connection going away.
EventuallyAnswered ==
    \A r \in Requests : place[r] # "none" ~> answers[r] # <<>>
=============================================================================

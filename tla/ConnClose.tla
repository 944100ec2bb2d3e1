------------------------------ MODULE ConnClose ------------------------------
(***************************************************************************)
(* The end of a connection (src/src/endpoint.cpp, src/src/connection.cpp): *)
(* errors and the application ask for it to be closed, drained or dropped  *)
(* by jobs that run later, in the order they were queued; the close hooks  *)
(* run; a timer or a failed close packet deletes it.  Several of these can *)
(* be under way for one connection.                                        *)
(***************************************************************************)
EXTENDS Integers, Sequences

CONSTANT MaxJobs    \* bound: jobs queued at a time

ASSUME CloseAssumption == MaxJobs \in Nat

VARIABLES
    inbound,        \* an accepted connection, else one we opened
    early,          \* the peer, a client, sends 0-RTT data
    drops,          \* sends fail, and errors that drop a connection occur
    jobs,           \* the endpoint's job queue
    closing, draining, dead,
    ngtcp2_draining,    \* external: ngtcp2 has seen the peer's close or a reset
    halted,         \* halt_events: the connection's events are gone
    in_conns,       \* still in Endpoint::conns
    app_ref,        \* the application holds a reference
    cleanups,       \* schedule_conn_cleanup timers armed
    parked,         \* the close packet waits for the socket
    confirmed, established, quiet,
    closes,         \* how often the connection's close callback has run
    told            \* history: what the application has been told, in order

flags == <<closing, draining, dead, ngtcp2_draining, halted>>
handshake == <<confirmed, established>>
kind == <<inbound, early, drops>>   \* settled when the connection is made
vars == <<kind, jobs, flags, in_conns, app_ref, cleanups, parked, handshake, quiet, closes, told>>

Init ==
    /\ inbound \in BOOLEAN /\ early \in BOOLEAN /\ drops \in BOOLEAN /\ (early => inbound)
    /\ jobs = <<>> /\ closing = FALSE /\ draining = FALSE /\ dead = FALSE /\ halted = FALSE
    /\ ngtcp2_draining = FALSE
    /\ in_conns = TRUE /\ app_ref = ~inbound /\ cleanups = 0 /\ parked = FALSE
    /\ confirmed = FALSE /\ established = FALSE /\ quiet = FALSE
    /\ closes = 0 /\ told = <<>>

\* The object exists: in conns, in a reset_soon job, or held by the application.
Alive == in_conns \/ app_ref \/ \E i \in DOMAIN jobs : jobs[i] = "reset"

Queue(js) == Len(jobs) + Len(js) <= MaxJobs /\ jobs' = jobs \o js

-----------------------------------------------------------------------------
(* What happens to a live connection.                                      *)

\* handle_conn_packet hands packets on: not in the closing period (once a close
\* packet was written), not when draining, not when dead.  ngtcp2 takes what is in
\* them until it is draining itself.
Reads == in_conns /\ ~closing /\ ~draining /\ ~dead
Receives == Reads /\ ~ngtcp2_draining

check_established ==
    IF established THEN UNCHANGED <<established, told, app_ref>>
    ELSE established' = TRUE /\ told' = Append(told, "established") /\ app_ref' = TRUE

\* stream_opened or recv_datagram before the handshake has completed.
EarlyData ==
    /\ Receives /\ inbound /\ early /\ ~confirmed
    /\ check_established
    /\ UNCHANGED <<jobs, flags, in_conns, cleanups, parked, confirmed, quiet, closes>>

\* on_handshake_completed of a server, on_handshake_confirmed of a client.
on_handshake ==
    /\ Receives /\ ~confirmed
    /\ confirmed' = TRUE
    /\ check_established
    /\ UNCHANGED <<jobs, flags, in_conns, cleanups, parked, quiet, closes>>

\* read_packet fails.  A stateless reset has queued a drop before ngtcp2 reports the
\* connection as draining; draining alone does not make it dead.  From then on ngtcp2
\* reports nothing else.
read_packet ==
    /\ Reads
    /\ \/ Queue(<<"drain">>) /\ ngtcp2_draining' = TRUE /\ UNCHANGED dead
       \/ Receives /\ Queue(<<"close">>) /\ dead' = TRUE /\ UNCHANGED ngtcp2_draining
       \/ Receives /\ drops /\ Queue(<<"drop">>) /\ dead' = TRUE /\ UNCHANGED ngtcp2_draining
       \/ Receives /\ drops /\ Queue(<<"drop", "drain">>) /\ ngtcp2_draining' = TRUE /\ UNCHANGED dead
    /\ UNCHANGED <<closing, draining, halted, in_conns, app_ref, cleanups, parked, handshake, quiet, closes, told>>

\* The retransmit timer: an expiry (idle, handshake or other) closes the connection.
OnExpiry ==
    /\ ~halted /\ ~dead
    /\ dead' = TRUE
    /\ Queue(<<"idle">>) \/ Queue(<<"close">>)
    /\ UNCHANGED <<closing, draining, ngtcp2_draining, halted, in_conns, app_ref, cleanups, parked, handshake,
                   quiet, closes, told>>

\* flush_packets, or resume_stalled_send for packets written before: a send fails for
\* good, and the connection is to be dropped, or the path is too small, which closes
\* it.  Writing packets fails, which closes it too: not when ngtcp2 is draining.
FlushFails ==
    /\ ~halted /\ ~dead
    /\ \/ drops /\ Queue(<<"drop">>) /\ UNCHANGED dead
       \/ Queue(<<"close">>) /\ UNCHANGED dead
       \/ ~ngtcp2_draining /\ Queue(<<"close">>) /\ dead' = TRUE
    /\ UNCHANGED <<closing, draining, ngtcp2_draining, halted, in_conns, app_ref, cleanups, parked, handshake,
                   quiet, closes, told>>

\* close_connection by the application, and set_close_quietly.
close_connection ==
    /\ app_ref
    /\ Queue(<<"close">>)
    /\ UNCHANGED <<flags, in_conns, app_ref, cleanups, parked, handshake, quiet, closes, told>>
set_close_quietly ==
    /\ app_ref /\ ~quiet
    /\ quiet' = TRUE
    /\ UNCHANGED <<jobs, flags, in_conns, app_ref, cleanups, parked, handshake, closes, told>>
ReleaseRef ==
    /\ app_ref
    /\ app_ref' = FALSE
    /\ UNCHANGED <<jobs, flags, in_conns, cleanups, parked, handshake, quiet, closes, told>>

-----------------------------------------------------------------------------
(* The endpoint's jobs.                                                    *)

\* _execute_close_hooks
_execute_close_hooks ==
    IF quiet \/ (inbound /\ ~confirmed) THEN UNCHANGED <<closes, told>>
    ELSE closes' = closes + 1 /\ told' = Append(told, "closed")

\* delete_connection, with the jobs js left to run.
delete_connection(js) ==
    /\ halted' = TRUE /\ closing' = TRUE
    /\ in_conns' = FALSE
    /\ jobs' = IF in_conns THEN Append(js, "reset") ELSE js

\* _close_connection: the hooks, then a close packet.  If none can be written, or
\* sending it fails, the connection is deleted at once; else a timer does it.
CloseMutantTimer(js) ==   \* arms no cleanup timer
    IF ~in_conns \/ closing \/ draining
    THEN jobs' = js /\ UNCHANGED <<closing, halted, in_conns, cleanups, parked, closes, told>>
    ELSE /\ _execute_close_hooks
         /\ closing' = TRUE /\ halted' = TRUE /\ jobs' = js
         /\ parked' \in BOOLEAN
         /\ UNCHANGED <<in_conns, cleanups>>
CloseMutantTwice(js) ==   \* although closing or draining
    IF ~in_conns THEN jobs' = js /\ UNCHANGED <<closing, halted, in_conns, cleanups, parked, closes, told>>
    ELSE _execute_close_hooks /\ delete_connection(js) /\ UNCHANGED <<cleanups, parked>>
Close(js) ==
    IF ~in_conns \/ closing \/ draining
    THEN jobs' = js /\ UNCHANGED <<closing, halted, in_conns, cleanups, parked, closes, told>>
    ELSE /\ _execute_close_hooks
         /\ \/ delete_connection(js) /\ UNCHANGED <<cleanups, parked>>
            \/ cleanups' = cleanups + 1 /\ delete_connection(js) /\ UNCHANGED parked
            \/ /\ cleanups' = cleanups + 1 /\ parked' \in BOOLEAN
               /\ closing' = TRUE /\ halted' = TRUE /\ jobs' = js
               /\ UNCHANGED in_conns

\* _drop_connection
Drop(js) ==
    IF ~in_conns
    THEN jobs' = js /\ UNCHANGED <<closing, halted, in_conns, closes, told>>
    ELSE _execute_close_hooks /\ delete_connection(js)

RunClose ==
    /\ jobs # <<>> /\ Head(jobs) = "close"
    /\ Close(Tail(jobs))
    /\ UNCHANGED <<draining, dead, ngtcp2_draining, app_ref, handshake, quiet>>

\* An idle connection is closed without a packet: _close_connection goes on to
\* _drop_connection.
RunIdle ==
    /\ jobs # <<>> /\ Head(jobs) = "idle"
    /\ IF closing \/ draining
       THEN jobs' = Tail(jobs) /\ UNCHANGED <<closing, halted, in_conns, closes, told>>
       ELSE Drop(Tail(jobs))
    /\ UNCHANGED <<draining, dead, ngtcp2_draining, app_ref, cleanups, parked, handshake, quiet>>

RunDrop ==
    /\ jobs # <<>> /\ Head(jobs) = "drop"
    /\ Drop(Tail(jobs))
    /\ UNCHANGED <<draining, dead, ngtcp2_draining, app_ref, cleanups, parked, handshake, quiet>>

\* drain_connection, which does not look the connection up again.
drain_connection ==
    /\ jobs # <<>> /\ Head(jobs) = "drain"
    /\ jobs' = Tail(jobs)
    /\ IF ~Alive \/ closing \/ draining THEN UNCHANGED <<draining, halted, cleanups, closes, told>>
       ELSE /\ draining' = TRUE /\ halted' = TRUE
            /\ _execute_close_hooks
            /\ cleanups' = cleanups + 1
    /\ UNCHANGED <<closing, dead, ngtcp2_draining, in_conns, app_ref, parked, handshake, quiet>>

RunReset ==
    /\ jobs # <<>> /\ Head(jobs) = "reset"
    /\ jobs' = Tail(jobs)
    /\ UNCHANGED <<flags, in_conns, app_ref, cleanups, parked, handshake, quiet, closes, told>>

\* The timer of schedule_conn_cleanup.
Cleanup ==
    /\ cleanups > 0
    /\ cleanups' = cleanups - 1
    /\ IF in_conns THEN delete_connection(jobs) ELSE UNCHANGED <<halted, closing, in_conns, jobs>>
    /\ UNCHANGED <<kind, draining, dead, ngtcp2_draining, app_ref, parked, handshake, quiet, closes, told>>

\* The socket is writeable: the parked close packet goes, or fails.
SendParked ==
    /\ parked
    /\ parked' = FALSE
    /\ \/ UNCHANGED <<halted, closing, in_conns, jobs>>
       \/ in_conns /\ delete_connection(jobs)
    /\ UNCHANGED <<kind, draining, dead, ngtcp2_draining, app_ref, cleanups, handshake, quiet, closes, told>>

Events ==
    /\ UNCHANGED kind
    /\ \/ close_connection \/ set_close_quietly \/ ReleaseRef
       \/ EarlyData \/ on_handshake \/ FlushFails \/ read_packet \/ OnExpiry
Jobs ==
    /\ UNCHANGED kind
    /\ RunClose \/ RunIdle \/ RunDrop \/ drain_connection \/ RunReset
Next == Events \/ Jobs \/ Cleanup \/ SendParked

Spec == Init /\ [][Next]_vars

\* The loop runs queued jobs and due timers.  Nothing is assumed of the network, the
\* socket or the application.
FairSpec == Spec /\ WF_vars(Jobs) /\ WF_vars(Cleanup)

-----------------------------------------------------------------------------
(* Properties.                                                             *)

TypeOK ==
    /\ jobs \in Seq({"close", "idle", "drop", "drain", "reset"})
    /\ {inbound, early, drops, closing, draining, dead, ngtcp2_draining, halted, in_conns, app_ref, parked,
        confirmed, established, quiet} \subseteq BOOLEAN
    /\ cleanups \in Nat /\ closes \in Nat /\ told \in Seq({"established", "closed"})
    /\ closing \/ draining => halted

\* The application is told that a connection is established at most once, closed at
\* most once, and nothing after that.
ToldInOrder == told \in {<<>>, <<"established">>, <<"closed">>, <<"established", "closed">>}

\* However its end comes about, and however often it is asked for, the close callback
\* runs at most once.
ClosedOnce == closes <= 1

\* It hears of the end of every connection it was told of.
EveryEndTold == ~in_conns /\ established /\ ~quiet => closes > 0

\* It hears of the end of an accepted connection only if it heard of its beginning.
NoUnknownClose == inbound /\ closes > 0 => established

\* Respectively: of a connection that nothing drops, of one whose peer sends no early
\* data, and of every connection.
ToldOfEnds == TypeOK /\ (~drops => ToldInOrder) /\ (~early => EveryEndTold) /\ NoUnknownClose

\* Once deleted, a connection has no more hooks run and no timer armed, whatever jobs
\* for it are still queued.
AfterDeletion == ~in_conns => UNCHANGED closes /\ cleanups' <= cleanups
GoneIsFinal == [][AfterDeletion]_vars

\* A connection that is closing, draining or dead leaves the endpoint.
EventuallyGone == (closing \/ draining \/ dead) ~> ~in_conns
=============================================================================

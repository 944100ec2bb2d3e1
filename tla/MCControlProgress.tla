------------------------- MODULE MCControlProgress -------------------------
(* That nothing waits for ever, for model checking: requests are answered,     *)
(* connections that wait on a stalled batch are woken, and a connection follows *)
(* the host to its new network.  The three share no variables, so each is       *)
(* explored with the others at rest: `focus` says which.                        *)
EXTENDS Migration

CONSTANTS a1, a2, a3

VARIABLES focus,
    now, place, expiry, answers, sent_reqs, req_expiries, timer, is_closing, attached, b_alive, pc,
    expired, withdrawing, unsent, started, b_written, replies, replied,
    batch, stalled, owner, waiters, writeable, phase, flushing, n_flushed, retried, io_trigger,
    retransmit, waiting_on_stall, dead, halted, ending, backlog, written, out, dropped

bvars == <<now, place, expiry, answers, sent_reqs, req_expiries, timer, is_closing, attached, b_alive,
           pc, expired, withdrawing, unsent, started, b_written, replies, replied>>
svars == <<batch, stalled, owner, waiters, writeable, phase, flushing, n_flushed, retried, io_trigger,
           retransmit, waiting_on_stall, dead, halted, ending, backlog, written, out, dropped>>

\* Two addresses, and a peer that allows migration.
Free == INSTANCE Migration WITH
          Addrs <- {a1, a2}, MaxChanges <- 3, Refusals <- FALSE

BT == INSTANCE BTRequest WITH
        MaxRequests <- 2, Timeouts <- {1, 2}, MaxTime <- 3, MaxReplies <- 1, send_after_timeout <- {2},
        alive <- b_alive, written <- b_written

Batch == INSTANCE SendBatch WITH
           Conns <- {"c1", "c2"}, NoConn <- "none", Sizes <- {1}, MAX_BATCH <- 1, Quantum <- 1,
           MaxPackets <- 2, manual_routing <- FALSE

MCInit ==
    /\ focus \in {"moving", "migration", "requests", "batch"}
    /\ IF focus = "moving" THEN Init ELSE Free!Init
    /\ BT!Init /\ Batch!Init /\ io_trigger = {"c1", "c2"}
    /\ focus \in {"requests", "batch"} => host = [local |-> a1, nat64 |-> None]

MCNext ==
    /\ UNCHANGED focus
    /\ \/ focus = "moving" /\ Next /\ UNCHANGED <<bvars, svars>>
       \/ focus = "migration" /\ Free!Next /\ UNCHANGED <<bvars, svars>>
       \/ focus = "requests" /\ BT!Next /\ UNCHANGED <<vars, svars>>
       \/ focus = "batch" /\ Batch!Next /\ UNCHANGED <<vars, bvars>>

\* The fairness of the three FairSpecs, each while its part is explored.
MCSpec ==
    /\ MCInit /\ [][MCNext]_<<focus, vars, bvars, svars>>
    /\ WF_vars(focus = "migration" /\ ~told /\ Free!network_changed)
    /\ WF_vars(focus = "migration" /\ host # None /\ Free!handle_packet(host.local, TRUE, TRUE, FALSE))
    /\ WF_bvars(focus = "requests" /\ BT!Tick) /\ WF_bvars(focus = "requests" /\ BT!TimerFires)
    /\ WF_bvars(focus = "requests" /\ BT!ExpireNext) /\ WF_bvars(focus = "requests" /\ BT!ExpireDone)
    /\ \A r \in BT!Requests : WF_bvars(focus = "requests" /\ BT!RunJob(r))
    /\ WF_svars(focus = "batch" /\ Batch!WriteDone) /\ WF_svars(focus = "batch" /\ Batch!resume_stalled_send)
    /\ WF_svars(focus = "batch" /\ Batch!SocketTakes)
    /\ SF_svars(focus = "batch" /\ phase = "resume" /\ Batch!SocketTakes)
    /\ \A c \in {"c1", "c2"} :
          WF_svars(focus = "batch" /\ Batch!on_packet_io_ready(c)) /\ WF_svars(focus = "batch" /\ Batch!halt_events(c))

-----------------------------------------------------------------------------
\* With network_changed() called after each change, a connection ends up on the
\* host's route once the network settles.
SettlesOnRoute == focus = "migration" => Free!Settles

\* No request is left without a response.
EventuallyAnswered == focus = "requests" => BT!EventuallyAnswered

\* Every connection that waits on a stalled batch, and the one that owns it, is
\* woken.
Woken == focus = "batch" => Batch!Woken
=============================================================================

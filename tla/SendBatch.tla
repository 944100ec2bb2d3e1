------------------------------ MODULE SendBatch ------------------------------
(***************************************************************************)
(* The send batch that the connections of an endpoint share (send_batch in *)
(* src/src/internal.hpp).  A flush writes packets of one connection into   *)
(* it and hands it to the socket, which may take only some, refuse some as *)
(* too big, or block.  When it blocks the batch stalls: the rest waits for *)
(* the socket, and so does every connection that wants to flush.           *)
(*                                                                         *)
(* One loop thread runs everything: a flush, or the resumption of a        *)
(* stalled batch, goes through several steps of the model while no other   *)
(* handler runs.                                                           *)
(***************************************************************************)
EXTENDS Integers, Sequences, FiniteSets, Functions, Subsequences

CONSTANTS
    Conns, NoConn,
    Sizes,          \* of packets
    MAX_BATCH,
    Quantum,        \* max_stream_packets, of one flush
    MaxPackets,     \* bound: packets each connection has to send
    manual_routing  \* the application sends the packets, and may throw

ASSUME BatchAssumption ==
    /\ NoConn \notin Conns /\ Sizes \subseteq Nat
    /\ {MAX_BATCH, Quantum, MaxPackets} \subseteq Nat \ {0} /\ manual_routing \in BOOLEAN

VARIABLES
    batch,          \* the packets in the send batch
    stalled, owner, waiters,
    writeable,      \* resume_stalled_send callbacks parked on the socket
    phase,          \* what the loop thread is doing
    flushing,       \* the connection whose flush runs
    n_flushed,      \* stream_packets of that flush
    retried,        \* by the running send_packets
    io_trigger,     \* connections whose packet_io_trigger is active
    retransmit,     \* connections whose packet_retransmit_timer is armed
    waiting_on_stall,
    dead, halted, ending,   \* ending: a job that closes, drops or drains it is queued
    backlog,        \* per connection: packets' worth of data to send
    written,        \* per connection: packets ngtcp2 has written
    out,            \* history: the packets sent, by connection
    dropped         \* history: how many were dropped, by connection

stall == <<stalled, owner, waiters, waiting_on_stall, writeable>>
flush == <<flushing, n_flushed, retried>>
events == <<io_trigger, retransmit>>
ends == <<dead, halted, ending>>
history == <<out, dropped>>
vars == <<batch, stall, phase, flush, events, ends, backlog, written, history>>

Packets == [conn : Conns, n : 1..MaxPackets, size : Sizes]

Init ==
    /\ batch = <<>> /\ stalled = FALSE /\ owner = NoConn /\ waiters = <<>> /\ waiting_on_stall = {}
    /\ writeable = 0
    /\ phase = "idle" /\ flushing = NoConn /\ n_flushed = 0 /\ retried = FALSE
    /\ io_trigger \in SUBSET Conns /\ retransmit = {}   \* make_conn: packet_io_ready
    /\ dead = {} /\ halted = {} /\ ending = {}
    /\ backlog = [c \in Conns |-> IF c \in io_trigger THEN 1 ELSE 0]   \* the first handshake packet
    /\ written = [c \in Conns |-> 0]
    /\ out = [c \in Conns |-> <<>>] /\ dropped = [c \in Conns |-> 0]

\* The packets of the batch at the positions I are dropped.
PacketsOf(c, I) == {i \in I : batch[i].conn = c}
Drop(I) == dropped' = [c \in Conns |-> dropped[c] + Cardinality(PacketsOf(c, I))]

-----------------------------------------------------------------------------
(* A flush.                                                                *)

\* Something to send: a stream or datagram write, or a packet that was read, and
\* packet_io_ready.
packet_io_ready(c) ==
    /\ phase = "idle" /\ c \notin halted
    /\ written[c] + backlog[c] < MaxPackets
    /\ backlog' = [backlog EXCEPT ![c] = @ + 1]
    /\ io_trigger' = io_trigger \cup {c}
    /\ UNCHANGED <<batch, stall, phase, flush, retransmit, ends, written, history>>

\* wait_for_send_stall: flush_packets found the batch stalled.
wait_for_send_stall(c) ==
    IF owner = c \/ c \in waiting_on_stall THEN UNCHANGED <<waiters, waiting_on_stall>>
    ELSE /\ waiting_on_stall' = waiting_on_stall \cup {c}
         /\ waiters' = Append(waiters, c)

\* on_packet_io_ready up to the loop of flush_packets.
Flush(c) ==
    IF c \in dead THEN UNCHANGED <<phase, flush, waiters, waiting_on_stall>>
    ELSE IF stalled THEN wait_for_send_stall(c) /\ UNCHANGED <<phase, flush>>
    ELSE /\ phase' = "write" /\ flushing' = c /\ n_flushed' = 0 /\ retried' = FALSE
         /\ UNCHANGED <<waiters, waiting_on_stall>>

on_packet_io_ready(c) ==
    /\ phase = "idle" /\ c \in io_trigger
    /\ io_trigger' = io_trigger \ {c}
    /\ Flush(c)
    /\ UNCHANGED <<batch, stalled, owner, writeable, retransmit, ends, backlog, written, history>>

\* The retransmit timer: an expiry that ends the connection, or a flush.
on_retransmit(c) ==
    /\ phase = "idle" /\ c \in retransmit
    /\ retransmit' = retransmit \ {c}
    /\ \/ Flush(c) /\ UNCHANGED ends
       \/ /\ c \notin dead
          /\ dead' = dead \cup {c} /\ ending' = ending \cup {c}
          /\ UNCHANGED <<halted, phase, flush, waiters, waiting_on_stall>>
    /\ UNCHANGED <<batch, stalled, owner, writeable, io_trigger, backlog, written, history>>

\* schedule_packet_retransmit after a flush: ngtcp2 has an expiry at least while
\* it has something left to send.
Rearm(c) ==
    retransmit' \in {retransmit \cup {c}} \cup (IF backlog[c] = 0 THEN {retransmit \ {c}} ELSE {})

\* The end of on_packet_io_ready.
FlushDoneMutant ==   \* leaves the timer alone
    /\ phase' = "idle" /\ flushing' = NoConn /\ n_flushed' = 0 /\ retried' = FALSE
    /\ UNCHANGED retransmit
FlushDone ==
    /\ phase' = "idle" /\ flushing' = NoConn /\ n_flushed' = 0 /\ retried' = FALSE
    /\ Rearm(flushing)

\* ngtcp2 writes a packet into the batch.
WritePacket ==
    /\ phase = "write" /\ backlog[flushing] > 0
    /\ \E size \in Sizes :
          batch' = Append(batch, [conn |-> flushing, n |-> written[flushing] + 1, size |-> size])
    /\ written' = [written EXCEPT ![flushing] = @ + 1]
    /\ backlog' = [backlog EXCEPT ![flushing] = @ - 1]
    /\ n_flushed' = n_flushed + 1
    /\ phase' = IF n_flushed + 1 = Quantum THEN "last"
                ELSE IF Len(batch') = MAX_BATCH THEN "send" ELSE "write"
    /\ UNCHANGED <<stall, flushing, retried, events, ends, history>>

\* Nothing more to write, or congested; or the connection is closing or draining,
\* and what was written of this flush is dropped; or ngtcp2 fails.
WriteDone ==
    /\ phase = "write"
    /\ IF batch = <<>> THEN FlushDone
       ELSE phase' = "last" /\ UNCHANGED <<flush, retransmit>>
    /\ UNCHANGED <<batch, stall, io_trigger, ends, backlog, written, history>>
WriteFails ==
    /\ phase = "write"
    /\ \/ flushing \in ending /\ UNCHANGED ends
       \/ dead' = dead \cup {flushing} /\ ending' = ending \cup {flushing} /\ UNCHANGED halted
    /\ batch' = <<>> /\ Drop(DOMAIN batch)
    /\ FlushDone
    /\ UNCHANGED <<stall, io_trigger, backlog, written, out>>

-----------------------------------------------------------------------------
(* send_packets, called by a flush or by resume_stalled_send.              *)

Sender == IF phase = "resume" THEN owner ELSE flushing

\* stall_send
stall_sendMutant ==   \* without asking to be told when the socket is writable
    /\ stalled' = TRUE /\ owner' = flushing
    /\ UNCHANGED <<writeable, waiters, waiting_on_stall>>
stall_send ==
    /\ stalled' = TRUE /\ owner' = flushing
    /\ writeable' = writeable + 1
    /\ UNCHANGED <<waiters, waiting_on_stall>>

\* The end of resume_stalled_send: the waiters go first, then the owner.
WakeWaiters ==
    /\ stalled' = FALSE /\ owner' = NoConn
    /\ waiters' = <<>> /\ waiting_on_stall' = {}
    /\ io_trigger' = io_trigger \cup ((Range(waiters) \cup ({owner} \ {NoConn})) \ halted)

\* What Connection::send does with the result of send_packets, and then
\* flush_packets and on_packet_io_ready; phase "last" is the flush's final send.
FlushSent(ret) ==
    /\ phase \in {"send", "last"}
    /\ \/ ret = "ok" /\ phase = "last" /\ FlushDone /\ UNCHANGED stall
       \/ /\ ret = "ok" /\ phase = "send" /\ phase' = "write" /\ retried' = FALSE
          /\ UNCHANGED <<flushing, n_flushed, stall, retransmit>>
       \/ /\ ret = "blocked" /\ stall_send
          /\ phase' = "idle" /\ flushing' = NoConn /\ n_flushed' = 0 /\ retried' = FALSE
          /\ UNCHANGED retransmit
       \/ ret \in {"unreachable", "failure"} /\ FlushDone /\ UNCHANGED stall
    /\ UNCHANGED io_trigger

\* What resume_stalled_send does with it.
ResumeSent(ret) ==
    /\ phase = "resume"
    /\ phase' = "idle" /\ retried' = FALSE
    /\ IF ret = "blocked"
       THEN writeable' = writeable + 1 /\ UNCHANGED <<stalled, owner, waiters, waiting_on_stall, io_trigger>>
       ELSE WakeWaiters /\ UNCHANGED writeable
    /\ UNCHANGED <<flushing, n_flushed, retransmit>>

Sent(ret) == FlushSent(ret) \/ ResumeSent(ret)
Ends(cs) == ending' = ending \cup cs /\ UNCHANGED <<dead, halted>>

\* The first k packets go to the socket.
Emit(k) == out' = [out EXCEPT ![Sender] = @ \o [i \in 1..k |-> batch[i].n]]

\* The socket takes k packets.  A short count gets one more try; then it counts
\* as blocked.
UnsentMutant(k) == SubSeq(batch, 1, Len(batch) - k)   \* not moved to the front
Unsent(k) == SubSeq(batch, k + 1, Len(batch))
SocketTakes ==
    /\ phase \in {"send", "last", "resume"} /\ ~manual_routing
    /\ \E k \in 1..Len(batch) :
          /\ Emit(k)
          /\ batch' = Unsent(k)
          /\ \/ k = Len(batch) /\ Sent("ok")
             \/ k < Len(batch) /\ retried /\ Sent("blocked")
             \/ /\ k < Len(batch) /\ ~retried /\ retried' = TRUE
                /\ UNCHANGED <<stall, phase, flushing, n_flushed, events>>
    /\ UNCHANGED <<ends, backlog, written, dropped>>

SocketBlocks ==
    /\ phase \in {"send", "last", "resume"} /\ ~manual_routing
    /\ Sent("blocked")
    /\ UNCHANGED <<batch, ends, backlog, written, history>>

\* drop_packets_from: the first packet is too big, and so is any as large.  Unless
\* it is a probe, or a changed route explains it, packet_too_big closes the
\* connection.
SocketTooBig ==
    /\ phase \in {"send", "last", "resume"} /\ ~manual_routing
    /\ LET fits == {i \in DOMAIN batch : batch[i].size < batch[1].size}
       IN  /\ \E f \in Enumerations(fits) : batch' = Kept(batch, f)
           /\ Drop(DOMAIN batch \ fits)
    /\ IF batch' = <<>> THEN Sent("ok")
       ELSE retried' = FALSE /\ UNCHANGED <<stall, phase, flushing, n_flushed, events>>
    /\ Ends({}) \/ Ends({Sender})
    /\ UNCHANGED <<backlog, written, out>>

\* No buffers: the packets are lost.  Unreachable: as well, and the connection
\* looks for another route.  Any other failure drops the connection.
SocketFails ==
    /\ phase \in {"send", "last", "resume"} /\ ~manual_routing
    /\ batch' = <<>> /\ Drop(DOMAIN batch)
    /\ \/ Sent("ok") /\ UNCHANGED ends
       \/ Sent("unreachable") /\ UNCHANGED ends
       \/ Sent("failure") /\ Ends({Sender})
    /\ UNCHANGED <<backlog, written, out>>

\* The application's router takes every packet, or throws after k of them: then
\* the packets stay in the batch, and an assertion of flush_packets (which release
\* builds leave out) ends the program.
ManualSend ==
    /\ phase \in {"send", "last"} /\ manual_routing
    /\ \/ Emit(Len(batch)) /\ batch' = <<>> /\ Sent("ok") /\ UNCHANGED ends
       \/ /\ \E k \in 0..Len(batch) - 1 : Emit(k)
          /\ phase' = "aborted" /\ Ends({Sender})
          /\ UNCHANGED <<batch, stall, flush, events>>
    /\ UNCHANGED <<backlog, written, dropped>>

-----------------------------------------------------------------------------
(* The stall, and connections that end.                                    *)

\* The socket is writable.  The packets of an owner that has gone are discarded.
resume_stalled_sendMutant ==   \* resumes whatever the owner's state
    /\ phase = "idle" /\ writeable > 0
    /\ writeable' = writeable - 1
    /\ IF owner # NoConn
       THEN phase' = "resume" /\ UNCHANGED <<batch, stalled, owner, waiters, waiting_on_stall, io_trigger, dropped>>
       ELSE batch' = <<>> /\ Drop(DOMAIN batch) /\ WakeWaiters /\ UNCHANGED phase
    /\ UNCHANGED <<flush, retransmit, ends, backlog, written, out>>
resume_stalled_send ==
    /\ phase = "idle" /\ writeable > 0
    /\ writeable' = writeable - 1
    /\ IF owner # NoConn /\ owner \notin dead
       THEN phase' = "resume" /\ UNCHANGED <<batch, stalled, owner, waiters, waiting_on_stall, io_trigger, dropped>>
       ELSE batch' = <<>> /\ Drop(DOMAIN batch) /\ WakeWaiters /\ UNCHANGED phase
    /\ UNCHANGED <<flush, retransmit, ends, backlog, written, out>>

\* The application closes a connection, or reading a packet ends it: by a job.
Ending(c) ==
    /\ phase = "idle" /\ c \notin ending
    /\ ending' = ending \cup {c}
    /\ dead' \in {dead, dead \cup {c}}
    /\ UNCHANGED <<batch, stall, phase, flush, events, halted, backlog, written, history>>

\* forget_send_stall
forget_send_stall(c) ==
    /\ owner' = (IF owner = c THEN NoConn ELSE owner)
    /\ \E f \in Enumerations({i \in DOMAIN waiters : waiters[i] # c}) : waiters' = Kept(waiters, f)
    /\ waiting_on_stall' = waiting_on_stall \ {c}

\* That job runs: halt_events.
halt_events(c) ==
    /\ phase = "idle" /\ c \in ending \ halted
    /\ halted' = halted \cup {c}
    /\ io_trigger' = io_trigger \ {c} /\ retransmit' = retransmit \ {c}
    /\ forget_send_stall(c)
    /\ UNCHANGED <<batch, stalled, writeable, phase, flush, dead, ending, backlog, written, history>>

Next ==
    \/ \E c \in Conns :
          packet_io_ready(c) \/ on_packet_io_ready(c) \/ on_retransmit(c) \/ Ending(c) \/ halt_events(c)
    \/ WritePacket \/ WriteDone \/ WriteFails
    \/ SocketTakes \/ SocketBlocks \/ SocketTooBig \/ SocketFails \/ ManualSend
    \/ resume_stalled_send

Spec == Init /\ [][Next]_vars

\* The loop runs what is ready, and a flush to its end; a socket that keeps being
\* tried does not block for ever.
FairSpec ==
    /\ Spec
    /\ WF_vars(WriteDone) /\ WF_vars(resume_stalled_send)
    /\ WF_vars(SocketTakes) /\ SF_vars(phase = "resume" /\ SocketTakes)
    /\ \A c \in Conns : WF_vars(on_packet_io_ready(c)) /\ WF_vars(halt_events(c))

-----------------------------------------------------------------------------
(* Properties.                                                             *)

BatchOK == batch \in Seq(Packets) /\ Len(batch) <= MAX_BATCH
StallOK ==
    /\ stalled \in BOOLEAN /\ owner \in Conns \cup {NoConn} /\ writeable \in Nat
    /\ waiters \in Seq(Conns) /\ waiting_on_stall \subseteq Conns
FlushOK ==
    /\ phase \in {"idle", "write", "send", "last", "resume", "aborted"}
    /\ flushing \in Conns \cup {NoConn} /\ n_flushed \in 0..Quantum /\ retried \in BOOLEAN
EventsOK == io_trigger \cup retransmit \cup dead \cup halted \cup ending \subseteq Conns
DataOK ==
    /\ backlog \in [Conns -> 0..MaxPackets] /\ written \in [Conns -> 0..MaxPackets]
    /\ \A c \in Conns : written[c] + backlog[c] <= MaxPackets
SentOK == out \in [Conns -> Seq(1..MaxPackets)] /\ dropped \in [Conns -> Nat]

TypeOK == BatchOK /\ StallOK /\ FlushOK /\ EventsOK /\ DataOK /\ SentOK

InFlush == phase \in {"write", "send", "last"}

\* A flush is that of one connection, neither dead nor halted, and has room in the batch
\* for the packet it is about to write; what is being sent is not empty; and outside a
\* flush and a stall (the assertions of flush_packets on entry and exit) nothing is
\* left in the batch.
BatchEmptyOrStalled ==
    /\ InFlush => flushing \in Conns \ (dead \cup halted) /\ ~stalled
    /\ phase \in {"idle", "resume"} => flushing = NoConn /\ n_flushed = 0
    /\ phase \in {"write", "send"} => n_flushed < Quantum
    /\ phase = "write" => Len(batch) < MAX_BATCH /\ (n_flushed = 0 => batch = <<>>)
    /\ phase = "resume" => stalled /\ owner \in Conns \ dead
    /\ phase \in {"send", "last"} \/ stalled => batch # <<>>
    /\ phase = "idle" => batch = <<>> \/ stalled

\* The batch never holds packets of two connections: they are those of the connection
\* whose flush runs, or of the owner of the stall as long as it has one.
OneSender ==
    /\ InFlush => \A i \in DOMAIN batch : batch[i].conn = flushing
    /\ stalled /\ owner # NoConn => \A i \in DOMAIN batch : batch[i].conn = owner
    /\ \A i, j \in DOMAIN batch : batch[i].conn = batch[j].conn

\* A stall knows whom to wake and what wakes it: exactly one callback is parked on
\* the socket, the owner and every waiter (each once) still have their events,
\* and no connection waits when nothing is stalled.
StallCanEnd ==
    /\ stalled => writeable + (IF phase = "resume" THEN 1 ELSE 0) = 1
    /\ ~stalled => writeable = 0 /\ owner = NoConn /\ waiters = <<>>
    /\ owner \notin halted
    /\ Range(waiters) = waiting_on_stall
    /\ \A i, j \in DOMAIN waiters : waiters[i] = waiters[j] => i = j
    /\ (waiting_on_stall \cup io_trigger \cup retransmit) \cap halted = {}

\* No lost wakeup: a connection with something to send, unless it is in the middle of
\* its flush, has its trigger active or its timer armed, or the stall will wake it.
NoLostWakeup ==
    \A c \in Conns \ (dead \cup halted \cup {flushing}) :
        backlog[c] > 0 => c \in io_trigger \cup retransmit \cup waiting_on_stall \cup {owner}

\* Between two handlers the batch is empty, or stalled with a callback that ends the
\* stall, and no connection with something to send is forgotten.
NobodyForgotten == TypeOK /\ BatchEmptyOrStalled /\ OneSender /\ StallCanEnd /\ NoLostWakeup

Increases(s) == \A i, j \in DOMAIN s : i < j => s[i] < s[j]

PacketsInOrder ==
    /\ Increases([i \in DOMAIN batch |-> batch[i].n])
    /\ \A i \in DOMAIN batch : batch[i].n <= written[batch[i].conn]
    /\ \A c \in Conns :
         /\ Increases(out[c])
         /\ \A i \in DOMAIN out[c] :
              /\ out[c][i] <= written[c]
              /\ \A j \in DOMAIN batch : batch[j].conn = c => out[c][i] < batch[j].n
         /\ Len(out[c]) + Cardinality(PacketsOf(c, DOMAIN batch)) + dropped[c] = written[c]

\* Each connection's packets go out in the order they were written and no packet
\* twice, whatever the socket took of a batch, refused, or blocked on; each is
\* sent, dropped for a reason, or still in the batch.  (Unless a manual router threw:
\* the packets it had sent are still in the batch.)
InOrderOnce == phase # "aborted" => PacketsInOrder

\* A connection that is dead, or has halted its events, sends nothing more of the
\* batch it left behind.
SendsNothing == \A c \in dead \cup halted : out'[c] = out[c]
DeadSendNothing == [][SendsNothing]_vars

\* Every connection that waits on a stall, and the one that owns it, is woken.
Woken ==
    \A c \in Conns : stalled /\ c \in waiting_on_stall \cup {owner} ~> c \in io_trigger \cup dead \cup halted

=============================================================================

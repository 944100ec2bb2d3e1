------------------------------ MODULE RecvFlow ------------------------------
(***************************************************************************)
(* Stream data coming in: Connection::stream_receive, the application's    *)
(* data callback, Stream::pause and Stream::resume, and the flow control   *)
(* credit they give the peer (connection.cpp, stream.cpp).                 *)
(*                                                                         *)
(* ngtcp2 is external: it delivers each stream's bytes in order, keeps the *)
(* offset up to which the peer may send on each stream and in total, never *)
(* raises either by itself for data it has delivered, and tells the peer   *)
(* when the connection next writes.  Bytes are counted, not kept.          *)
(***************************************************************************)
EXTENDS Naturals

CONSTANTS
    Streams,
    SWindow,    \* initial_stream_window
    CWindow,    \* initial_conn_window
    MaxBytes,   \* bound: bytes the peer sends on a stream
    MaxPauses,  \* bound: pauses of a stream
    Throws      \* whether data callbacks may throw

ASSUME FlowAssumption ==
    SWindow \in Nat \ {0} /\ CWindow \in Nat \ {0} /\ MaxBytes \in Nat /\ MaxPauses \in Nat /\ Throws \in BOOLEAN

VARIABLES
    alive,          \* the connection is not dead
    sent,           \* bytes the peer has sent on each stream
    ended,          \* streams the peer has sent FIN on
    rcvd,           \* bytes passed to each stream's receive()
    received_fin,   \* _received_fin
    ready,          \* _ready
    paused,         \* _paused
    paused_offset,  \* _paused_offset
    pauses,         \* pauses so far
    paused_at,      \* bytes received when the stream was last paused
    max_stream,     \* ngtcp2's limit for each stream
    max_conn,       \* ngtcp2's limit for the connection
    told_stream, told_conn,   \* the limits the peer knows
    final,          \* bytes that arrived together with a FIN
    all_sent, all_rcvd, all_final,   \* sent, rcvd and final over all streams
    write           \* a write is due (packet_io_ready)

peer == <<sent, all_sent, ended, told_stream, told_conn>>
pausing == <<ready, paused, paused_offset, pauses, paused_at>>
passed == <<rcvd, all_rcvd, final, all_final>>
vars == <<alive, peer, passed, received_fin, pausing, max_stream, max_conn, write>>

TypeOK ==
    /\ alive \in BOOLEAN /\ write \in BOOLEAN
    /\ sent \in [Streams -> 0..MaxBytes] /\ rcvd \in [Streams -> 0..MaxBytes]
    /\ ended \subseteq Streams /\ received_fin \subseteq ended
    /\ ready \subseteq Streams /\ paused \subseteq Streams
    /\ paused_offset \in [Streams -> 0..MaxBytes] /\ pauses \in [Streams -> 0..MaxPauses]
    /\ paused_at \in [Streams -> 0..MaxBytes] /\ final \in [Streams -> 0..MaxBytes]
    /\ max_stream \in [Streams -> Nat] /\ max_conn \in Nat
    /\ told_stream \in [Streams -> Nat] /\ told_conn \in Nat
    /\ all_sent \in Nat /\ all_rcvd \in Nat /\ all_final \in Nat

Init ==
    /\ alive = TRUE /\ write = FALSE
    /\ sent = [s \in Streams |-> 0] /\ rcvd = sent /\ paused_offset = sent /\ pauses = sent
    /\ paused_at = sent /\ final = sent /\ all_sent = 0 /\ all_rcvd = 0 /\ all_final = 0
    /\ ended = {} /\ received_fin = {} /\ ready = {} /\ paused = {}
    /\ max_stream = [s \in Streams |-> SWindow] /\ max_conn = CWindow
    /\ told_stream = max_stream /\ told_conn = max_conn

-----------------------------------------------------------------------------
\* A stream gets its ID.
set_ready(s) ==
    /\ s \notin ready /\ alive
    /\ ready' = ready \cup {s}
    /\ UNCHANGED <<alive, peer, passed, received_fin, paused, paused_offset, pauses, paused_at,
                   max_stream, max_conn, write>>

\* The peer sends within the limits it knows, and may end the stream with its last bytes.
PeerSend(s, n, fin) ==
    /\ alive /\ s \in ready \ ended
    /\ n > 0 \/ fin
    /\ sent[s] + n <= MaxBytes
    /\ sent[s] + n <= told_stream[s] /\ all_sent + n <= told_conn
    /\ sent' = [sent EXCEPT ![s] = @ + n] /\ all_sent' = all_sent + n
    /\ ended' = IF fin THEN ended \cup {s} ELSE ended
    /\ UNCHANGED <<alive, told_stream, told_conn, passed, received_fin, pausing, max_stream, max_conn, write>>

\* What the data callback does about pausing its own stream: nothing, pause() or resume().  resume
\* hands the credit held back so far to ngtcp2.
InCallback(s, does) ==
    CASE does = "pause" /\ s \notin paused ->
            /\ pauses[s] < MaxPauses
            /\ paused' = paused \cup {s}
            /\ pauses' = [pauses EXCEPT ![s] = @ + 1]
            /\ paused_at' = [paused_at EXCEPT ![s] = rcvd[s]]
      [] does = "resume" /\ s \in paused ->
            paused' = paused \ {s} /\ UNCHANGED <<pauses, paused_at>>
      [] OTHER -> UNCHANGED <<paused, pauses, paused_at>>

\* The credit a resume in the callback releases.
Released(s, does) == IF does = "resume" /\ s \in paused THEN paused_offset[s] ELSE 0

\* Mutant: whether the stream is paused is looked at before the callback.
Credit_before(s, n, does) ==
    LET released == Released(s, does)
        held == paused_offset[s] - released
    IN  IF s \in paused
        THEN /\ paused_offset' = [paused_offset EXCEPT ![s] = held + n]
             /\ max_stream' = [max_stream EXCEPT ![s] = @ + released]
             /\ max_conn' = max_conn + n
        ELSE /\ paused_offset' = [paused_offset EXCEPT ![s] = held]
             /\ max_stream' = [max_stream EXCEPT ![s] = @ + released + n]
             /\ max_conn' = max_conn + n

\* The credit for n bytes passed on, after the callback: held back on a paused stream, for the
\* connection as a whole given always.
Credit(s, n, does) ==
    LET released == Released(s, does)
        held == paused_offset[s] - released
    IN  IF s \in paused'
        THEN /\ paused_offset' = [paused_offset EXCEPT ![s] = held + n]
             /\ max_stream' = [max_stream EXCEPT ![s] = @ + released]
             /\ max_conn' = max_conn + n
        ELSE /\ paused_offset' = [paused_offset EXCEPT ![s] = held]
             /\ max_stream' = [max_stream EXCEPT ![s] = @ + released + n]
             /\ max_conn' = max_conn + n

\* stream_receive with data: the callback runs; a FIN ends the stream, anything else is credited.
\* The packet having been read, a write follows.
stream_receive(s, n, does) ==
    /\ alive /\ n > 0 /\ rcvd[s] + n <= sent[s]
    /\ InCallback(s, does)
    /\ rcvd' = [rcvd EXCEPT ![s] = @ + n] /\ all_rcvd' = all_rcvd + n
    /\ IF s \in ended /\ rcvd[s] + n = sent[s]
       THEN /\ received_fin' = received_fin \cup {s}
            /\ final' = [final EXCEPT ![s] = n] /\ all_final' = all_final + n
            /\ paused_offset' = [paused_offset EXCEPT ![s] = @ - Released(s, does)]
            /\ max_stream' = [max_stream EXCEPT ![s] = @ + Released(s, does)]
            /\ UNCHANGED max_conn
       ELSE Credit(s, n, does) /\ UNCHANGED <<received_fin, final, all_final>>
    /\ write' = TRUE
    /\ UNCHANGED <<alive, peer, ready>>

\* stream_receive of a FIN on its own.
stream_receive_fin(s) ==
    /\ alive /\ s \in ended \ received_fin /\ rcvd[s] = sent[s]
    /\ received_fin' = received_fin \cup {s}
    /\ write' = TRUE
    /\ UNCHANGED <<alive, peer, passed, pausing, max_stream, max_conn>>

\* The callback throws: the stream is closed and ngtcp2 told that the callback failed, which
\* read_packet takes as the end of the connection.
stream_receive_throws(s, n) ==
    /\ Throws /\ alive /\ n > 0 /\ rcvd[s] + n <= sent[s]
    /\ rcvd' = [rcvd EXCEPT ![s] = @ + n] /\ all_rcvd' = all_rcvd + n
    /\ alive' = FALSE
    /\ UNCHANGED <<peer, received_fin, pausing, max_stream, max_conn, final, all_final, write>>

pause(s) ==
    /\ alive /\ s \notin paused /\ pauses[s] < MaxPauses
    /\ paused' = paused \cup {s}
    /\ pauses' = [pauses EXCEPT ![s] = @ + 1]
    /\ paused_at' = [paused_at EXCEPT ![s] = rcvd[s]]
    /\ UNCHANGED <<alive, peer, passed, received_fin, ready, paused_offset, max_stream, max_conn, write>>

\* Mutant: the credit is given and nothing is written.
resume_silent(s) ==
    /\ alive /\ s \in paused
    /\ paused' = paused \ {s}
    /\ max_stream' = [max_stream EXCEPT ![s] = @ + paused_offset[s]]
    /\ paused_offset' = [paused_offset EXCEPT ![s] = 0]
    /\ UNCHANGED <<alive, peer, passed, received_fin, ready, pauses, paused_at, max_conn, write>>

resume(s) ==
    /\ alive /\ s \in paused
    /\ paused' = paused \ {s}
    /\ max_stream' = [max_stream EXCEPT ![s] = @ + paused_offset[s]]
    /\ paused_offset' = [paused_offset EXCEPT ![s] = 0]
    /\ write' = TRUE
    /\ UNCHANGED <<alive, peer, passed, received_fin, ready, pauses, paused_at, max_conn>>

\* A write tells the peer its limits.
Write ==
    /\ alive /\ write
    /\ told_stream' = max_stream /\ told_conn' = max_conn
    /\ write' = FALSE
    /\ UNCHANGED <<alive, sent, all_sent, ended, passed, received_fin, pausing, max_stream, max_conn>>

Does == {"nothing", "pause", "resume"}
Receive(s) == \E n \in 1..MaxBytes, does \in Does : stream_receive(s, n, does)
Sends(s) == \E n \in 0..MaxBytes, fin \in BOOLEAN : PeerSend(s, n, fin)

Next ==
    \/ Write
    \/ \E s \in Streams :
          \/ set_ready(s) \/ pause(s) \/ resume(s) \/ stream_receive_fin(s) \/ Receive(s) \/ Sends(s)
          \/ \E n \in 1..MaxBytes : stream_receive_throws(s, n)

Spec == Init /\ [][Next]_vars

\* Packets arrive, due writes happen, the peer goes on sending what it may, and the application
\* resumes what it paused.
FairSpec ==
    /\ Spec
    /\ WF_vars(Write)
    /\ \A s \in Streams :
          WF_vars(set_ready(s)) /\ WF_vars(Receive(s)) /\ WF_vars(resume(s)) /\ WF_vars(stream_receive_fin(s))
          /\ WF_vars(\E n \in 1..MaxBytes : PeerSend(s, n, FALSE))

-----------------------------------------------------------------------------
\* No credit of a stream is lost or given twice over any number of pauses and resumes, also inside
\* the data callback: until its FIN arrives, its limit and the credit held back for it are together
\* one window beyond what the application has been given; pause()'s assertion included.
StreamCredit ==
    alive => \A s \in Streams :
        /\ final[s] = 0 => max_stream[s] + paused_offset[s] = rcvd[s] + SWindow
        /\ s \notin paused => paused_offset[s] = 0

\* A paused stream is sent at most one window beyond what it had when it was paused.
PauseBounds == \A s \in paused : sent[s] <= paused_at[s] + SWindow

\* Pausing a stream costs the connection nothing: whatever is paused, its limit is one window
\* beyond what was passed on, less the bytes that came with a FIN, which stream_receive never
\* gives back to the connection: each stream that ends with data leaves its window smaller.
PauseIsLocal == alive => max_conn + all_final = all_rcvd + CWindow

\* The peer's limits never exceed ngtcp2's nor shrink below what was sent, nor do a stream's limit
\* and the credit held back for it exceed a window beyond what was passed on, the end of the stream
\* or of the connection included; and a paused stream's limit stays where it was when it was paused.
Limits ==
    /\ \A s \in Streams :
          /\ rcvd[s] <= sent[s] /\ sent[s] <= told_stream[s] /\ told_stream[s] <= max_stream[s]
          /\ SWindow <= max_stream[s]
          /\ max_stream[s] + paused_offset[s] <= rcvd[s] + SWindow
          /\ s \in paused => max_stream[s] <= paused_at[s] + SWindow
    /\ all_sent <= told_conn /\ told_conn <= max_conn

\* The inductive invariant: whatever is paused and resumed, in or out of the data callback, the
\* credit of each stream is neither lost nor given twice, and that of the connection is lost for
\* exactly the bytes that came with a FIN.
FlowInv == TypeOK /\ StreamCredit /\ PauseBounds /\ PauseIsLocal /\ Limits

\* With windows of any size all the peer has to send on a stream arrives, or the peer ends it first.
Flows == \A s \in Streams : <>(rcvd[s] = MaxBytes \/ s \in received_fin)

\* Pauses that are resumed stall no stream: all the peer has to send on it arrives, or the peer
\* ends it first, as long as the bytes that came with FINs, which are never credited, leave some
\* of the connection's window, and no callback that throws ends the connection.
FlowsWhileCredit ==
    \A s \in Streams : <>(rcvd[s] = MaxBytes \/ s \in received_fin \/ all_final >= CWindow \/ ~alive)

=============================================================================

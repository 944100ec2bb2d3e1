-------------------------- MODULE StreamData_proofs --------------------------
(***************************************************************************)
(* Proofs about the data of streams.                                       *)
(*                                                                         *)
(* RecvFlow: the flow control credit of a connection's receiving streams   *)
(* is right for any set of streams, any windows and any number of pauses:  *)
(* FlowInv is inductive.                                                   *)
(*                                                                         *)
(* ChunkSend: a transfer in chunks keeps its promises for any number of    *)
(* chunks, simultaneous or in all, and whichever thread starts it.         *)
(* ChunksInv, the inductive invariant, counts the calls that may still be  *)
(* made and, on the event loop, says that one of them runs at a time.      *)
(***************************************************************************)
EXTENDS RecvFlow, ChunkSend, TLAPS

\* A fresh connection.
LEMMA FlowInit == Init => FlowInv
<1> SUFFICES ASSUME Init PROVE FlowInv
    BY Zenon
<1>1. TypeOK
  <2>1. /\ sent = [s \in Streams |-> 0] /\ rcvd = sent /\ paused_offset = sent
        /\ pauses = sent /\ paused_at = sent /\ final = sent
        /\ max_stream = [s \in Streams |-> SWindow] /\ told_stream = max_stream
    BY Zenon DEF Init
  <2>2. 0 \in 0 .. MaxBytes /\ 0 \in 0 .. MaxPauses /\ SWindow \in Nat /\ CWindow \in Nat
    BY FlowAssumption
  <2>3. /\ sent \in [Streams -> 0 .. MaxBytes] /\ pauses \in [Streams -> 0 .. MaxPauses]
        /\ max_stream \in [Streams -> Nat]
    BY <2>1, <2>2, Zenon
  <2>4. /\ ended \subseteq Streams /\ received_fin \subseteq ended
        /\ ready \subseteq Streams /\ paused \subseteq Streams
        /\ max_conn \in Nat /\ told_conn \in Nat
        /\ all_sent \in Nat /\ all_rcvd \in Nat /\ all_final \in Nat
        /\ alive \in BOOLEAN /\ write \in BOOLEAN
    BY <2>2, Zenon DEF Init
  <2> QED BY <2>1, <2>3, <2>4, Zenon DEF TypeOK
<1>2. StreamCredit /\ PauseBounds /\ PauseIsLocal /\ Limits
    BY FlowAssumption DEF Init, StreamCredit, PauseBounds, PauseIsLocal, Limits
<1> QED BY <1>1, <1>2, Zenon DEF FlowInv

\* A step that leaves the credit and the byte counts alone.
LEMMA FlowFrame ==
    ASSUME FlowInv, TypeOK', alive' => alive,
           UNCHANGED <<sent, all_sent, told_stream, told_conn, passed, paused, paused_offset,
                       paused_at, max_stream, max_conn>>
    PROVE  FlowInv'
BY Zenon DEF FlowInv, StreamCredit, PauseBounds, PauseIsLocal, Limits, passed

LEMMA SetReadyFlow ==
    ASSUME FlowInv, NEW s \in Streams, set_ready(s)
    PROVE  FlowInv'
<1>1. TypeOK'
    BY Zenon DEF FlowInv, set_ready, TypeOK, peer, passed
<1> QED BY <1>1, FlowFrame, Zenon DEF set_ready, peer, passed

LEMMA FinFlow ==
    ASSUME FlowInv, NEW s \in Streams, stream_receive_fin(s)
    PROVE  FlowInv'
<1>1. TypeOK'
    BY Zenon DEF FlowInv, stream_receive_fin, TypeOK, peer, passed, pausing
<1> QED BY <1>1, FlowFrame, Zenon DEF stream_receive_fin, peer, passed, pausing

\* The peer stays within the limits it was told, which no paused stream exceeds.
LEMMA SendFlow ==
    ASSUME FlowInv, NEW s \in Streams, NEW n \in 0 .. MaxBytes, NEW fin \in BOOLEAN,
           PeerSend(s, n, fin)
    PROVE  FlowInv'
<1> USE FlowAssumption DEF FlowInv
<1>1. /\ sent[s] + n <= MaxBytes /\ sent[s] + n <= told_stream[s] /\ all_sent + n <= told_conn
      /\ sent' = [sent EXCEPT ![s] = @ + n] /\ all_sent' = all_sent + n
      /\ UNCHANGED <<alive, told_stream, told_conn, rcvd, all_rcvd, final, all_final,
                     received_fin, ready, paused, paused_offset, pauses, paused_at,
                     max_stream, max_conn, write>>
    BY Zenon DEF PeerSend, passed, pausing
<1>2. ended' \subseteq Streams /\ received_fin' \subseteq ended'
    BY Zenon DEF PeerSend, TypeOK
<1>3. TypeOK'
    BY <1>1, <1>2 DEF TypeOK
<1>4. StreamCredit' /\ PauseIsLocal'
    BY <1>1, Zenon DEF StreamCredit, PauseIsLocal
<1>5. Limits'
    BY <1>1 DEF Limits, TypeOK
<1>6. PauseBounds'
    BY <1>1, <1>3, <1>5 DEF PauseBounds, Limits, TypeOK
<1> QED BY <1>3, <1>4, <1>5, <1>6, Zenon

\* A write passes the limits of ngtcp2 on to the peer.
LEMMA WriteFlow ==
    ASSUME FlowInv, Write
    PROVE  FlowInv'
<1> USE FlowAssumption DEF FlowInv
<1>1. /\ told_stream' = max_stream /\ told_conn' = max_conn /\ write' = FALSE
      /\ UNCHANGED <<alive, sent, all_sent, ended, rcvd, all_rcvd, final, all_final,
                     received_fin, ready, paused, paused_offset, pauses, paused_at,
                     max_stream, max_conn>>
    BY Zenon DEF Write, passed, pausing
<1>2. TypeOK'
    BY <1>1, Zenon DEF TypeOK
<1>3. StreamCredit' /\ PauseIsLocal' /\ PauseBounds'
    BY <1>1, Zenon DEF StreamCredit, PauseIsLocal, PauseBounds
<1>4. Limits'
    BY <1>1 DEF Limits, TypeOK
<1> QED BY <1>2, <1>3, <1>4, Zenon

\* A pause starts from a limit of at most a window beyond what was passed on.
LEMMA PauseFlow ==
    ASSUME FlowInv, NEW s \in Streams, pause(s)
    PROVE  FlowInv'
<1> USE FlowAssumption DEF FlowInv
<1>1. /\ s \notin paused /\ pauses[s] < MaxPauses /\ paused' = paused \cup {s}
      /\ pauses' = [pauses EXCEPT ![s] = @ + 1]
      /\ paused_at' = [paused_at EXCEPT ![s] = rcvd[s]]
      /\ UNCHANGED <<alive, sent, all_sent, ended, told_stream, told_conn, rcvd, all_rcvd,
                     final, all_final, received_fin, ready, paused_offset, max_stream,
                     max_conn, write>>
    BY Zenon DEF pause, passed, peer
<1>2. TypeOK'
    BY <1>1 DEF TypeOK
<1>3. StreamCredit' /\ PauseIsLocal'
    BY <1>1, Zenon DEF StreamCredit, PauseIsLocal
<1>4. Limits'
    BY <1>1 DEF Limits, TypeOK
<1>5. PauseBounds'
    BY <1>1, <1>2, <1>4 DEF PauseBounds, Limits, TypeOK
<1> QED BY <1>2, <1>3, <1>4, <1>5, Zenon

\* resume() hands back exactly what was held back.
LEMMA ResumeFlow ==
    ASSUME FlowInv, NEW s \in Streams, resume(s)
    PROVE  FlowInv'
<1> USE FlowAssumption DEF FlowInv
<1>1. /\ s \in paused /\ paused' = paused \ {s}
      /\ max_stream' = [max_stream EXCEPT ![s] = @ + paused_offset[s]]
      /\ paused_offset' = [paused_offset EXCEPT ![s] = 0] /\ write' = TRUE
      /\ UNCHANGED <<alive, sent, all_sent, ended, told_stream, told_conn, rcvd, all_rcvd,
                     final, all_final, received_fin, ready, pauses, paused_at, max_conn>>
    BY Zenon DEF resume, passed, peer
<1>2. TypeOK'
    BY <1>1 DEF TypeOK
<1>3. StreamCredit' /\ PauseIsLocal' /\ PauseBounds'
    BY <1>1 DEF StreamCredit, PauseIsLocal, PauseBounds, TypeOK
<1>4. Limits'
    BY <1>1 DEF Limits, TypeOK
<1> QED BY <1>2, <1>3, <1>4, Zenon

\* A callback that throws ends the connection; the bytes it was given are not credited.
LEMMA ThrowFlow ==
    ASSUME FlowInv, NEW s \in Streams, NEW n \in 1 .. MaxBytes, stream_receive_throws(s, n)
    PROVE  FlowInv'
<1> USE FlowAssumption DEF FlowInv
<1>1. /\ rcvd[s] + n <= sent[s] /\ rcvd' = [rcvd EXCEPT ![s] = @ + n]
      /\ all_rcvd' = all_rcvd + n /\ alive' = FALSE
      /\ UNCHANGED <<sent, all_sent, ended, told_stream, told_conn, received_fin, ready,
                     paused, paused_offset, pauses, paused_at, max_stream, max_conn, final,
                     all_final, write>>
    BY Zenon DEF stream_receive_throws, pausing, peer
<1>2. TypeOK'
  <2>1. rcvd[s] + n \in 0 .. MaxBytes
    BY <1>1 DEF TypeOK
  <2>2. rcvd' \in [Streams -> 0 .. MaxBytes]
    BY <1>1, <2>1, Zenon DEF TypeOK
  <2>3. all_rcvd' \in Nat
    BY <1>1 DEF TypeOK
  <2> QED BY <1>1, <2>2, <2>3, Zenon DEF TypeOK
<1>3. StreamCredit' /\ PauseIsLocal' /\ PauseBounds'
    BY <1>1, Zenon DEF StreamCredit, PauseIsLocal, PauseBounds
<1>4. Limits'
    BY <1>1 DEF Limits, TypeOK
<1> QED BY <1>2, <1>3, <1>4, Zenon

-----------------------------------------------------------------------------
\* What the data callback may do to its own stream.
LEMMA CallbackSpec ==
    ASSUME FlowInv, NEW s \in Streams, NEW does \in Does, InCallback(s, does)
    PROVE  /\ paused' \subseteq Streams
           /\ \A t \in Streams : t # s => (t \in paused' <=> t \in paused)
           /\ pauses' \in [Streams -> 0 .. MaxPauses]
           /\ paused_at' \in [Streams -> 0 .. MaxBytes]
           /\ \A t \in Streams : t # s => paused_at'[t] = paused_at[t]
           /\ s \in paused' /\ s \in paused => paused_at'[s] = paused_at[s]
           /\ s \in paused' /\ s \notin paused => paused_at'[s] = rcvd[s]
           /\ Released(s, does) \in Nat /\ Released(s, does) <= paused_offset[s]
           /\ s \in paused' => Released(s, does) = 0
           /\ s \notin paused' /\ s \in paused => Released(s, does) = paused_offset[s]
<1> USE FlowAssumption DEF FlowInv, TypeOK, InCallback, Released
<1>1. CASE does = "pause" /\ s \notin paused
    BY <1>1
<1>2. CASE does = "resume" /\ s \in paused
    BY <1>2
<1>3. CASE /\ ~(does = "pause" /\ s \notin paused) /\ ~(does = "resume" /\ s \in paused)
           /\ UNCHANGED <<paused, pauses, paused_at>>
    BY <1>3 DEF Does
<1> QED BY <1>1, <1>2, <1>3, Zenon

\* stream_receive: what is given and what is held back are together what was passed on.
LEMMA ReceiveFlow ==
    ASSUME FlowInv, NEW s \in Streams, NEW n \in 1 .. MaxBytes, NEW does \in Does,
           stream_receive(s, n, does)
    PROVE  FlowInv'
<1> USE FlowAssumption DEF FlowInv
<1> DEFINE r == Released(s, does)
           fins == s \in ended /\ rcvd[s] + n = sent[s]
<1>1. /\ alive /\ rcvd[s] + n <= sent[s] /\ InCallback(s, does)
      /\ rcvd' = [rcvd EXCEPT ![s] = @ + n] /\ all_rcvd' = all_rcvd + n /\ write' = TRUE
      /\ UNCHANGED <<alive, sent, all_sent, ended, told_stream, told_conn, ready>>
    BY Zenon DEF stream_receive, peer
<1>2. /\ rcvd[s] \in Nat /\ sent[s] \in Nat /\ sent[s] <= MaxBytes /\ n \in Nat /\ n > 0
      /\ paused_offset[s] \in Nat /\ max_stream[s] \in Nat /\ max_conn \in Nat
      /\ all_final \in Nat /\ all_rcvd \in Nat /\ SWindow \in Nat /\ CWindow \in Nat
      /\ s \notin paused => paused_offset[s] = 0
    BY <1>1 DEF TypeOK, StreamCredit
<1>3. /\ paused' \subseteq Streams
      /\ \A t \in Streams : t # s => (t \in paused' <=> t \in paused)
      /\ pauses' \in [Streams -> 0 .. MaxPauses] /\ paused_at' \in [Streams -> 0 .. MaxBytes]
      /\ \A t \in Streams : t # s => paused_at'[t] = paused_at[t]
      /\ s \in paused' /\ s \in paused => paused_at'[s] = paused_at[s]
      /\ s \in paused' /\ s \notin paused => paused_at'[s] = rcvd[s]
      /\ r \in Nat /\ r <= paused_offset[s] /\ (s \in paused' => r = 0)
      /\ s \notin paused' /\ s \in paused => r = paused_offset[s]
    BY <1>1, CallbackSpec, Zenon
<1>4. CASE fins
  <2>1. /\ received_fin' = received_fin \cup {s} /\ final' = [final EXCEPT ![s] = n]
        /\ all_final' = all_final + n /\ UNCHANGED max_conn
        /\ paused_offset' = [paused_offset EXCEPT ![s] = @ - r]
        /\ max_stream' = [max_stream EXCEPT ![s] = @ + r]
    BY <1>4, Zenon DEF stream_receive
  <2> HIDE DEF r
  <2>2. TypeOK'
    BY <1>1, <1>2, <1>3, <1>4, <2>1 DEF TypeOK
  <2>3. StreamCredit'
    BY <1>1, <1>2, <1>3, <2>1 DEF StreamCredit, TypeOK
  <2>4. PauseIsLocal'
    BY <1>1, <1>2, <2>1 DEF PauseIsLocal
  <2>5. Limits'
    BY <1>1, <1>2, <1>3, <2>1 DEF Limits, TypeOK
  <2>6. PauseBounds'
    BY <2>2, <2>5 DEF PauseBounds, Limits, TypeOK
  <2> QED BY <2>2, <2>3, <2>4, <2>5, <2>6, Zenon
<1>5. CASE ~fins
  <2> DEFINE h == IF s \in paused' THEN n ELSE 0
             p == paused_offset[s]
             c == rcvd[s]
             m == max_stream[s]
  <2>1. /\ UNCHANGED <<received_fin, final, all_final>> /\ max_conn' = max_conn + n
        /\ paused_offset' = [paused_offset EXCEPT ![s] = (p - r) + h]
        /\ max_stream' = [max_stream EXCEPT ![s] = m + r + (n - h)]
    BY <1>2, <1>3, <1>5 DEF stream_receive, Credit, TypeOK
  <2>2. h \in Nat /\ h <= n /\ (s \notin paused' => h = 0) /\ (s \in paused' => h = n)
    BY <1>2
  <2>3. /\ p \in Nat /\ c \in Nat /\ m \in Nat /\ n \in Nat /\ SWindow \in Nat
        /\ r \in Nat /\ r <= p
    BY <1>2, <1>3, Zenon
  <2>4. /\ told_stream[s] \in Nat /\ c + n <= sent[s] /\ sent[s] \in 0 .. MaxBytes
        /\ sent[s] <= told_stream[s] /\ told_stream[s] <= m
        /\ SWindow <= m /\ m + p <= c + SWindow
    BY <1>1, Zenon DEF Limits, TypeOK
  <2>5. /\ rcvd'[s] = c + n /\ paused_offset'[s] = (p - r) + h
        /\ max_stream'[s] = m + r + (n - h)
    BY <1>1, <2>1, Zenon DEF TypeOK
  <2>6. \A t \in Streams : t # s =>
          /\ rcvd'[t] = rcvd[t] /\ paused_offset'[t] = paused_offset[t]
          /\ max_stream'[t] = max_stream[t]
    BY <1>1, <2>1, Zenon DEF TypeOK
  <2>7. /\ final[s] = 0 => m + p = c + SWindow
        /\ s \in paused => m <= paused_at[s] + SWindow
        /\ s \notin paused => p = 0
        /\ s \in paused' => r = 0
        /\ s \notin paused' /\ s \in paused => r = p
    BY <1>1, <1>3, Zenon DEF StreamCredit, Limits
  <2> HIDE DEF r, h, p, c, m
  <2>8. /\ (p - r) + h \in Nat /\ (p - r) + h <= c + n
        /\ m + r + (n - h) \in Nat /\ m <= m + r + (n - h)
        /\ (m + r + (n - h)) + ((p - r) + h) = (m + p) + n
    BY <2>2, <2>3, <2>4
  <2>9. TypeOK'
    <3>1. c + n \in 0 .. MaxBytes /\ (p - r) + h \in 0 .. MaxBytes
      BY <2>3, <2>4, <2>8
    <3>2. rcvd' \in [Streams -> 0 .. MaxBytes]
      BY <1>1, <3>1, Zenon DEF TypeOK, c
    <3>3. paused_offset' \in [Streams -> 0 .. MaxBytes] /\ max_stream' \in [Streams -> Nat]
      BY <2>1, <2>8, <3>1, Zenon DEF TypeOK
    <3>4. all_rcvd' \in Nat /\ max_conn' \in Nat
      BY <1>1, <1>2, <2>1
    <3> QED BY <1>1, <1>3, <2>1, <3>2, <3>3, <3>4, Zenon DEF TypeOK
  <2>10. StreamCredit' /\ PauseIsLocal'
    <3>1. PauseIsLocal'
      BY <1>1, <1>2, <2>1 DEF PauseIsLocal
    <3>2. /\ final'[s] = 0 => max_stream'[s] + paused_offset'[s] = rcvd'[s] + SWindow
          /\ s \notin paused' => paused_offset'[s] = 0
      <4>1. final[s] = 0 => (m + p) + n = (c + n) + SWindow
        BY <2>3, <2>7
      <4>2. s \notin paused' => (p - r) + h = 0
        BY <2>2, <2>3, <2>7
      <4> QED BY <2>1, <2>5, <2>8, <4>1, <4>2, Zenon
    <3>3. \A t \in Streams : t # s =>
            /\ final'[t] = 0 => max_stream'[t] + paused_offset'[t] = rcvd'[t] + SWindow
            /\ t \notin paused' => paused_offset'[t] = 0
      BY <1>1, <1>3, <2>1, <2>6, Zenon DEF StreamCredit
    <3> QED BY <3>1, <3>2, <3>3, Zenon DEF StreamCredit
  <2>11. Limits'
    <3>1. /\ rcvd'[s] <= sent'[s] /\ sent'[s] <= told_stream'[s]
          /\ told_stream'[s] <= max_stream'[s] /\ SWindow <= max_stream'[s]
          /\ max_stream'[s] + paused_offset'[s] <= rcvd'[s] + SWindow
      <4>1. /\ told_stream[s] <= m + r + (n - h) /\ SWindow <= m + r + (n - h)
            /\ (m + p) + n <= (c + n) + SWindow
        BY <2>3, <2>4, <2>8
      <4> QED BY <1>1, <2>4, <2>5, <2>8, <4>1, Zenon
    <3>2. s \in paused' => max_stream'[s] <= paused_at'[s] + SWindow
      <4>1. CASE s \in paused' /\ s \in paused
        <5>1. m + r + (n - h) = m /\ paused_at'[s] = paused_at[s] /\ m <= paused_at[s] + SWindow
          BY <1>3, <2>2, <2>3, <2>7, <4>1
        <5> QED BY <2>5, <5>1, Zenon
      <4>2. CASE s \in paused' /\ s \notin paused
        <5>1. m + r + (n - h) = m /\ m <= c + SWindow
          BY <2>2, <2>3, <2>4, <2>7, <4>2
        <5>2. paused_at'[s] = c
          BY <1>3, <4>2, Zenon DEF c
        <5> QED BY <2>5, <5>1, <5>2, Zenon
      <4> QED BY <4>1, <4>2, Zenon
    <3>3. \A t \in Streams : t # s =>
            /\ rcvd'[t] <= sent'[t] /\ sent'[t] <= told_stream'[t]
            /\ told_stream'[t] <= max_stream'[t] /\ SWindow <= max_stream'[t]
            /\ max_stream'[t] + paused_offset'[t] <= rcvd'[t] + SWindow
            /\ t \in paused' => max_stream'[t] <= paused_at'[t] + SWindow
      BY <1>1, <1>3, <2>6, Zenon DEF Limits
    <3>4. all_sent' <= told_conn' /\ told_conn' <= max_conn'
      <4>1. all_sent <= told_conn /\ told_conn <= max_conn /\ told_conn \in Nat
        BY Zenon DEF Limits, TypeOK
      <4>2. told_conn <= max_conn + n
        BY <1>2, <4>1
      <4> QED BY <1>1, <2>1, <4>1, <4>2, Zenon
    <3> QED BY <3>1, <3>2, <3>3, <3>4, Zenon DEF Limits
  <2>12. PauseBounds'
    BY <2>9, <2>11 DEF PauseBounds, Limits, TypeOK
  <2> QED BY <2>9, <2>10, <2>11, <2>12, Zenon
<1> QED BY <1>4, <1>5, Zenon

\* Every step keeps the invariant.
LEMMA FlowNext == FlowInv /\ [Next]_vars => FlowInv'
<1> SUFFICES ASSUME FlowInv, [Next]_vars PROVE FlowInv'
    BY Zenon
<1>1. CASE UNCHANGED vars
  <2>1. TypeOK'
    BY <1>1, Zenon DEF FlowInv, TypeOK, vars, peer, passed, pausing
  <2> QED BY <1>1, <2>1, FlowFrame, Zenon DEF vars, peer, passed, pausing
<1> QED BY <1>1, SetReadyFlow, FinFlow, SendFlow, WriteFlow, PauseFlow, ResumeFlow,
           ThrowFlow, ReceiveFlow, Zenon DEF Next, Receive, Sends

\* Credit is neither lost nor given twice, on any number of streams, with any
\* windows, however often they are paused and resumed, in or out of the data
\* callback; the peer is never told more than a window beyond what the
\* application was given, and a paused stream gets at most a window more.
THEOREM FlowCorrect == Spec => []FlowInv
BY FlowInit, FlowNext, PTL DEF Spec
-----------------------------------------------------------------------------
(* Transfers in chunks.                                                    *)

\* Whether thread t is in queue_next_chunk, and whether past its first checks, as numbers.
Busy(t) == IF chunk_pc[t] # "idle" THEN 1 ELSE 0
Past(t) == IF chunk_pc[t] \in {"call", "have", "empty"} THEN 1 ELSE 0
\* A thread holds a chunk from the callback to the send.
HeldIs == \A t \in Threads : held[t] # 0 <=> chunk_pc[t] = "have"
\* Each of the `simultaneous` calls is yet to start, under way, or waits for the end of its chunk.
Credits == to_start + Busy("caller") + Busy("loop") + Len(jobs) + Len(buffer) <= Simultaneous
\* Every chunk that was sent had been returned, and every one acknowledged had been sent.
Counted ==
    /\ Len(wire) + Len(jobs) + InHand("caller") + InHand("loop") <= produced
    /\ acked + Len(buffer) <= Len(wire)
\* Only calls already past the checks when another ended the transfer may call done again.
DonesCounted == IF next_chunk THEN dones = 0 ELSE dones + Past("caller") + Past("loop") <= 2
\* On the event loop one call runs at a time, nothing is posted, and the chunk it holds is the newest.
Alone ==
    /\ jobs = <<>>
    /\ chunk_pc["loop"] # "idle" => to_start = 0 /\ chunk_pc["caller"] = "idle"
    /\ \A t \in Threads : chunk_pc[t] \in {"call", "have", "empty"} => next_chunk
    /\ \A t \in Threads : chunk_pc[t] = "empty" => produced = Total
    /\ \A t \in Threads : held[t] # 0 => held[t] = produced
    /\ \A i \in DOMAIN wire : wire[i] <= produced /\ \A t \in Threads : held[t] # 0 => wire[i] < produced
OnLoopInv == on_loop => Alone /\ InOrder /\ DoneOnce
\* What is inductive.
ChunksInv == ChunksType /\ HeldIs /\ Credits /\ Counted /\ DonesCounted /\ OnLoopInv

\* send_chunks has just been called.
LEMMA ChunksStart == ChunksInit => ChunksInv
<1> SUFFICES ASSUME ChunksInit PROVE ChunksInv
    BY Zenon
<1> USE ChunksAssumption DEF ChunksInit, Threads
<1>1. ChunksType
  <2>1. 0 \in 0..Total /\ Simultaneous \in 0..Simultaneous
    OBVIOUS
  <2>2. on_loop \in BOOLEAN /\ next_chunk \in BOOLEAN /\ finished \in BOOLEAN
    BY Zenon
  <2> QED BY <2>1, <2>2 DEF ChunksType, Chunks
<1>2. HeldIs /\ Credits /\ Counted /\ DonesCounted
    BY DEF HeldIs, Credits, Counted, DonesCounted, Busy, InHand
<1>3. OnLoopInv
    BY DEF OnLoopInv, Alone, InOrder, DoneOnce
<1> QED BY <1>1, <1>2, <1>3, Zenon DEF ChunksInv

\* `make` starts a call.
LEMMA MakeKeeps == ASSUME ChunksInv, Make PROVE ChunksInv'
<1> USE ChunksAssumption DEF ChunksInv, Make, Threads
<1>1. ChunksType'
    BY DEF ChunksType, Chunks
<1>2. HeldIs' /\ Counted'
    BY Zenon DEF HeldIs, Counted, InHand, ChunksType
<1>3. Credits' 
    BY DEF Credits, Busy, ChunksType
<1>4. DonesCounted'
    BY Zenon DEF DonesCounted, Past, ChunksType
<1>5. OnLoopInv'
    BY DEF OnLoopInv, Alone, InOrder, DoneOnce, ChunksType
<1> QED BY <1>1, <1>2, <1>3, <1>4, <1>5, Zenon DEF ChunksInv

\* The checks of queue_next_chunk.
LEMMA CheckKeeps == ASSUME ChunksInv, NEW t \in Threads, Check(t) PROVE ChunksInv'
<1> USE ChunksAssumption DEF ChunksInv, Check, Threads
<1>1. ChunksType'
  <2>1. /\ next_chunk' \in BOOLEAN
        /\ UNCHANGED <<on_loop, to_start, held, produced, dones, jobs, buffer, wire, acked, finished, stream>>
    BY Zenon DEF ChunksType
  <2>2. chunk_pc' \in [Threads -> {"idle", "check", "call", "have", "empty"}]
    BY DEF ChunksType
  <2> QED BY <2>1, <2>2, Zenon DEF ChunksType
<1>2. HeldIs' /\ Counted'
    BY Zenon DEF HeldIs, Counted, InHand, ChunksType
<1>3. Credits' 
    BY DEF Credits, Busy, ChunksType
<1>4. DonesCounted'
    BY DEF DonesCounted, Past, ChunksType
<1>5. OnLoopInv'
    BY DEF OnLoopInv, Alone, InOrder, DoneOnce, ChunksType
<1> QED BY <1>1, <1>2, <1>3, <1>4, <1>5, Zenon DEF ChunksInv

\* The application's callback.
LEMMA CallKeeps == ASSUME ChunksInv, NEW t \in Threads, Call(t) PROVE ChunksInv'
<1> USE ChunksAssumption DEF ChunksInv, Call, Threads
<1>1. ChunksType'
    BY DEF ChunksType, Chunks
<1>2. HeldIs' /\ Counted'
    BY DEF HeldIs, Counted, InHand, ChunksType
<1>3. Credits' 
    BY Zenon DEF Credits, Busy, ChunksType
<1>4. DonesCounted'
    BY Zenon DEF DonesCounted, Past, ChunksType
<1>5. OnLoopInv'
  <2> SUFFICES ASSUME on_loop PROVE Alone' /\ InOrder' /\ DoneOnce'
    BY Zenon DEF OnLoopInv
  <2> USE DEF OnLoopInv
  <2>1. InOrder' /\ DoneOnce'
    BY DEF InOrder, DoneOnce, DonesCounted, Alone, ChunksType
  <2>2. \A u \in Threads : u # t => held[u] = 0 /\ chunk_pc[u] = "idle"
    BY Zenon DEF Alone, HeldIs, ChunksType
  <2>3. wire \in Seq(Nat) /\ (\A i \in DOMAIN wire : wire[i] \in Nat) /\ produced \in Nat
    BY DEF ChunksType, Chunks
  <2>4. \A i \in DOMAIN wire : wire[i] <= produced
    BY Zenon DEF Alone
  <2>5. Alone'
    BY <2>2, <2>3, <2>4 DEF Alone, ChunksType
  <2> QED BY <2>1, <2>5, Zenon
<1> QED BY <1>1, <1>2, <1>3, <1>4, <1>5, Zenon DEF ChunksInv

\* An empty chunk.
LEMMA FinishKeeps == ASSUME ChunksInv, NEW t \in Threads, Finish(t) PROVE ChunksInv'
<1> USE ChunksAssumption DEF ChunksInv, Finish, Threads
<1>0. dones + 1 \in 0..2
    BY DEF DonesCounted, Past, ChunksType
<1>1. ChunksType'
    BY <1>0, Zenon DEF ChunksType, Chunks
<1>2. HeldIs' /\ Counted'
    BY Zenon DEF HeldIs, Counted, InHand, ChunksType
<1>3. Credits' 
    BY DEF Credits, Busy, ChunksType
<1>4. DonesCounted'
    BY DEF DonesCounted, Past, ChunksType
<1>5. OnLoopInv'
  <2> SUFFICES ASSUME on_loop PROVE Alone' /\ InOrder' /\ DoneOnce'
    BY Zenon DEF OnLoopInv
  <2> USE DEF OnLoopInv
  <2>1. InOrder' /\ DoneOnce'
    BY DEF InOrder, DoneOnce, DonesCounted, Alone, ChunksType
  <2>2. \A u \in Threads : u # t => held[u] = 0 /\ chunk_pc[u] = "idle"
    BY Zenon DEF Alone, HeldIs, ChunksType
  <2>3. \A u \in Threads : chunk_pc'[u] = "idle"
    BY <2>2, Zenon DEF ChunksType
  <2>4. Alone'
    BY <2>3, Zenon DEF Alone
  <2> QED BY <2>1, <2>4, Zenon
<1> QED BY <1>1, <1>2, <1>3, <1>4, <1>5, Zenon DEF ChunksInv

\* What a send does: the chunk is posted, or joins the stream, or is dropped.
PutsChunk(t) ==
    /\ chunk_pc[t] = "have" /\ held[t] \in Chunks /\ held' = [held EXCEPT ![t] = 0]
    /\ UNCHANGED <<on_loop, to_start, next_chunk, produced, dones, acked, finished, stream>>
    /\ \/ /\ jobs' = Append(jobs, held[t]) /\ UNCHANGED <<buffer, wire>> /\ ~on_loop
          /\ chunk_pc' = [chunk_pc EXCEPT ![t] = "idle"]
       \/ /\ buffer' = Append(buffer, held[t]) /\ wire' = Append(wire, held[t]) /\ UNCHANGED jobs
          /\ chunk_pc' = [chunk_pc EXCEPT ![t] = "idle"]
       \/ /\ UNCHANGED <<jobs, buffer, wire>>
          /\ chunk_pc' = [chunk_pc EXCEPT ![t] = "check"]
LEMMA SendDoes == ASSUME ChunksInv, NEW t \in Threads, SendChunk(t) PROVE PutsChunk(t)
<1>1. held[t] \in Chunks
    BY Zenon DEF ChunksInv, SendChunk, HeldIs, ChunksType
<1> QED BY <1>1, Zenon DEF SendChunk, send_impl, IsLoop, PutsChunk

\* The end of queue_next_chunk.
LEMMA SendKeeps == ASSUME ChunksInv, NEW t \in Threads, SendChunk(t) PROVE ChunksInv'
<1> PutsChunk(t)
    BY SendDoes, Zenon
<1> USE ChunksAssumption DEF ChunksInv, Threads, PutsChunk
<1>0. /\ jobs \in Seq(Chunks) /\ buffer \in Seq(Chunks) /\ wire \in Seq(Chunks)
      /\ held[t] \in Chunks
    BY Zenon DEF ChunksType
<1>a. /\ Append(jobs, held[t]) \in Seq(Chunks) /\ Len(Append(jobs, held[t])) = Len(jobs) + 1
      /\ Append(buffer, held[t]) \in Seq(Chunks) /\ Len(Append(buffer, held[t])) = Len(buffer) + 1
      /\ Append(wire, held[t]) \in Seq(Chunks) /\ Len(Append(wire, held[t])) = Len(wire) + 1
      /\ Len(jobs) \in Nat /\ Len(buffer) \in Nat /\ Len(wire) \in Nat
    BY <1>0
<1>1. ChunksType'
  <2>1. jobs' \in Seq(Chunks) /\ buffer' \in Seq(Chunks) /\ wire' \in Seq(Chunks)
    BY <1>0, <1>a, Zenon
  <2>2. held' \in [Threads -> Chunks \cup {0}]
    BY Zenon DEF ChunksType
  <2>3. chunk_pc' \in [Threads -> {"idle", "check", "call", "have", "empty"}]
    BY Zenon DEF ChunksType
  <2> QED BY <2>1, <2>2, <2>3, Zenon DEF ChunksType
<1>2. HeldIs'
    BY Zenon DEF HeldIs, ChunksType
<1>3. Counted'
  <2>1. \A u \in Threads : InHand(u) \in {0, 1} /\ (u # t => InHand(u)' = InHand(u))
    BY Zenon DEF InHand, ChunksType
  <2>2. InHand(t) = 1 /\ InHand(t)' = 0
    BY DEF InHand, ChunksType, Chunks
  <2>3. produced' = produced /\ acked' = acked /\ produced \in Nat /\ acked \in Nat
    BY DEF ChunksType
  <2>4. InHand("caller")' + InHand("loop")' + 1 = InHand("caller") + InHand("loop")
    BY <2>1, <2>2
  <2>5. \/ Len(jobs') = Len(jobs) + 1 /\ Len(buffer') = Len(buffer) /\ Len(wire') = Len(wire)
        \/ Len(jobs') = Len(jobs) /\ Len(buffer') = Len(buffer) + 1 /\ Len(wire') = Len(wire) + 1
        \/ Len(jobs') = Len(jobs) /\ Len(buffer') = Len(buffer) /\ Len(wire') = Len(wire)
    BY <1>a, Zenon
  <2>6. /\ InHand("caller") \in Nat /\ InHand("loop") \in Nat
        /\ InHand("caller")' \in Nat /\ InHand("loop")' \in Nat
    BY Zenon DEF InHand
  <2>7. /\ Len(wire) + Len(jobs) + InHand("caller") + InHand("loop") <= produced
        /\ acked + Len(buffer) <= Len(wire)
    BY Zenon DEF Counted
  <2> HIDE DEF PutsChunk, ChunksInv
  <2>8. /\ Len(wire') + Len(jobs') + InHand("caller")' + InHand("loop")' <= produced'
        /\ acked' + Len(buffer') <= Len(wire')
    <3>1. Len(jobs) \in Nat /\ Len(buffer) \in Nat /\ Len(wire) \in Nat
      BY <1>a, Zenon
    <3>2. PICK c, d, a, b \in Nat : /\ c = InHand("caller")' /\ d = InHand("loop")'
                                    /\ a = InHand("caller") /\ b = InHand("loop")
      BY <2>6, Zenon
    <3>3. c + d + 1 = a + b /\ Len(wire) + Len(jobs) + a + b <= produced
      BY <3>2, <2>4, <2>7, Zenon
    <3>5. Len(wire') + Len(jobs') + c + d <= produced
      BY <3>1, <3>3, <2>3, <2>5
    <3>4. acked + Len(buffer') <= Len(wire')
      BY <3>1, <2>3, <2>5, <2>7
    <3> QED BY <3>2, <3>4, <3>5, <2>3, Zenon
  <2> QED BY <2>8, Zenon DEF Counted
<1>4. Credits'
    BY <1>a DEF Credits, Busy, ChunksType
<1>5. DonesCounted'
    BY DEF DonesCounted, Past, ChunksType
<1>6. OnLoopInv'
  <2> SUFFICES ASSUME on_loop PROVE Alone' /\ InOrder' /\ DoneOnce'
    BY Zenon DEF OnLoopInv
  <2> USE DEF OnLoopInv
  <2>1. DoneOnce'
    BY Zenon DEF DoneOnce
  <2>2. held[t] = produced /\ held[t] # 0 /\ produced \in Nat /\ held'[t] = 0
    BY DEF Alone, HeldIs, ChunksType
  <2>3. \A u \in Threads : held'[u] = 0
    BY <2>2, Zenon DEF Alone, HeldIs, ChunksType
  <2>4. /\ jobs = <<>> /\ jobs' = <<>>
        /\ chunk_pc'["loop"] # "idle" => to_start' = 0 /\ chunk_pc'["caller"] = "idle"
        /\ \A u \in Threads : chunk_pc'[u] \in {"idle", "check"}
    BY Zenon DEF Alone, ChunksType
  <2>5. /\ \A i \in DOMAIN wire : wire[i] \in Nat /\ wire[i] < held[t] /\ wire[i] <= produced
        /\ DOMAIN wire = 1..Len(wire)
    BY <1>0, <2>2 DEF Alone, Chunks
  <2>6. CASE UNCHANGED wire
    <3>1. Alone'
      BY <2>3, <2>4, <2>5, <2>6, Zenon DEF Alone
    <3> QED BY <2>1, <2>6, <3>1, Zenon DEF InOrder
  <2>7. CASE wire' = Append(wire, held[t])
    <3>1. /\ DOMAIN wire' = 1..Len(wire) + 1 /\ wire'[Len(wire) + 1] = held[t]
          /\ \A i \in 1..Len(wire) : wire'[i] = wire[i]
      BY <1>0, <2>7
    <3> Len(wire) \in Nat
      BY <1>a, Zenon
    <3>2. \A i \in DOMAIN wire' : wire'[i] <= produced
      <4> HIDE DEF PutsChunk, ChunksInv
      <4> QED BY <3>1, <2>2, <2>5
    <3>3. Alone'
      BY <2>3, <2>4, <3>2, Zenon DEF Alone
    <3>4. InOrder'
      <4>1. InOrder
        BY Zenon
      <4> HIDE DEF PutsChunk, ChunksInv
      <4> QED BY <3>1, <2>2, <2>5, <4>1 DEF InOrder
    <3> QED BY <2>1, <3>3, <3>4, Zenon
  <2> QED BY <2>6, <2>7, Zenon
<1> QED BY <1>1, <1>2, <1>3, <1>4, <1>5, <1>6, Zenon DEF ChunksInv

\* A posted send, never one of the event loop.
LEMMA RunJobKeeps == ASSUME ChunksInv, RunJob PROVE ChunksInv'
<1> USE ChunksAssumption DEF ChunksInv, RunJob, LoopFree, send_impl, Threads
<1>0. /\ Head(jobs) \in Chunks /\ Tail(jobs) \in Seq(Chunks) /\ Len(Tail(jobs)) = Len(jobs) - 1
      /\ Len(jobs) \in Nat /\ Len(jobs) # 0
    BY DEF ChunksType
<1>1. ChunksType'
  <2>1. jobs' \in Seq(Chunks)
    BY <1>0, Zenon
  <2>2. buffer' \in Seq(Chunks) /\ wire' \in Seq(Chunks)
    <3>1. buffer \in Seq(Chunks) /\ wire \in Seq(Chunks)
      BY Zenon DEF ChunksType
    <3>2. Append(buffer, Head(jobs)) \in Seq(Chunks) /\ Append(wire, Head(jobs)) \in Seq(Chunks)
      BY <1>0, <3>1
    <3> QED BY <3>1, <3>2, Zenon
  <2>3. chunk_pc' \in [Threads -> {"idle", "check", "call", "have", "empty"}]
    BY DEF ChunksType
  <2> QED BY <2>1, <2>2, <2>3, Zenon DEF ChunksType
<1>2. HeldIs' /\ Counted'
    BY <1>0, SMTT(30) DEF HeldIs, Counted, InHand, ChunksType
<1>3. Credits' 
    BY <1>0, SMTT(30) DEF Credits, Busy, ChunksType
<1>4. DonesCounted'
    BY Zenon DEF DonesCounted, Past, ChunksType
<1>5. OnLoopInv'
    BY <1>0, Zenon DEF OnLoopInv, Alone
<1> QED BY <1>1, <1>2, <1>3, <1>4, <1>5, Zenon DEF ChunksInv

\* A chunk is acknowledged.
LEMMA AckedKeeps == ASSUME ChunksInv, Acked PROVE ChunksInv'
<1> USE ChunksAssumption DEF ChunksInv, Acked, LoopFree, Threads
<1>0. /\ Tail(buffer) \in Seq(Chunks) /\ Len(Tail(buffer)) = Len(buffer) - 1
      /\ Len(buffer) \in Nat /\ Len(buffer) # 0
    BY DEF ChunksType
<1>1. ChunksType'
  <2>1. acked + 1 \in 0..Total
    BY <1>0 DEF ChunksType, Counted, InHand
  <2> QED BY <1>0, <2>1, Zenon DEF ChunksType
<1>2. HeldIs' /\ Counted'
    BY <1>0 DEF HeldIs, Counted, InHand, ChunksType
<1>3. Credits' 
    BY <1>0 DEF Credits, Busy, ChunksType
<1>4. DonesCounted'
    BY Zenon DEF DonesCounted, Past, ChunksType
<1>5. OnLoopInv'
    BY Zenon DEF OnLoopInv, Alone, InOrder, DoneOnce, ChunksType
<1> QED BY <1>1, <1>2, <1>3, <1>4, <1>5, Zenon DEF ChunksInv

\* The stream ends.
LEMMA EndKeeps == ASSUME ChunksInv, EndStream \/ close PROVE ChunksInv'
<1>1. /\ UNCHANGED <<on_loop, to_start, chunk_pc, held, next_chunk, produced, dones, jobs, buffer, wire, acked>>
      /\ finished' = TRUE /\ stream' \in {"open", "closing"}
    BY Zenon DEF EndStream, close
<1> QED BY <1>1, Zenon DEF ChunksInv, ChunksType, HeldIs, Credits, Busy, Counted, InHand, DonesCounted, Past, 
                OnLoopInv, Alone, InOrder, DoneOnce

\* The stream is destroyed.
LEMMA DestroyKeeps == ASSUME ChunksInv, Destroy PROVE ChunksInv'
<1> USE ChunksAssumption DEF ChunksInv, Destroy, LoopFree, Threads
<1>1. ChunksType'
    BY DEF ChunksType
<1>2. HeldIs' /\ Counted'
  <2>1. /\ Len(jobs) \in Nat /\ Len(buffer) \in Nat /\ Len(wire) \in Nat /\ acked \in Nat /\ produced \in Nat
        /\ Len(jobs') = 0 /\ Len(buffer') = 0
    BY DEF ChunksType
  <2>2. InHand("caller") \in {0, 1} /\ InHand("loop") \in {0, 1}
    BY Zenon DEF InHand
  <2>3. UNCHANGED <<InHand("caller"), InHand("loop"), wire, produced, acked>>
    BY Zenon DEF InHand
  <2> QED BY <2>1, <2>2, <2>3 DEF HeldIs, Counted
<1>3. Credits' 
    BY DEF Credits, Busy, ChunksType
<1>4. DonesCounted'
    BY DEF DonesCounted, Past, ChunksType
<1>5. OnLoopInv'
    BY Zenon DEF OnLoopInv, Alone, InOrder, DoneOnce, ChunksType
<1> QED BY <1>1, <1>2, <1>3, <1>4, <1>5, Zenon DEF ChunksInv

\* Every step keeps the invariant.
LEMMA ChunksNextKeeps == ChunksInv /\ [ChunksNext]_chunkVars => ChunksInv'
<1> SUFFICES ASSUME ChunksInv, [ChunksNext]_chunkVars PROVE ChunksInv'
    BY Zenon
<1>1. CASE UNCHANGED chunkVars
    BY <1>1, Zenon DEF chunkVars, ChunksInv, ChunksType, HeldIs, Credits, Busy, Counted, InHand, DonesCounted, Past, 
                OnLoopInv, Alone, InOrder, DoneOnce
<1>2. CASE ChunksNext
    BY <1>2, MakeKeeps, CheckKeeps, CallKeeps, FinishKeeps, SendKeeps, RunJobKeeps, AckedKeeps, EndKeeps,
       DestroyKeeps, Zenon DEF ChunksNext, Step
<1> QED BY <1>1, <1>2, Zenon

\* It gives the promise.
LEMMA ChunksInvGives == ChunksInv => ChunksKept
<1> SUFFICES ASSUME ChunksInv PROVE InFlight
    BY Zenon DEF ChunksInv, ChunksKept, OnLoopInv
<1> QED BY ChunksAssumption DEF ChunksInv, InFlight, Credits, Busy, InHand, HeldIs, ChunksType, Threads

\* send_chunks never has more than `simultaneous` chunks with the library, whichever thread it is
\* called on and whatever is acknowledged, dropped or posted meanwhile; called on the event loop, its
\* chunks enter the stream in the order next_chunk returned them, and done is called at most once,
\* after the last.
THEOREM ChunksAreKept == ChunksSpec => []ChunksKept
<1>1. ChunksInv => ChunksKept
    BY ChunksInvGives, Zenon
<1> QED BY <1>1, ChunksStart, ChunksNextKeeps, PTL DEF ChunksSpec
=============================================================================

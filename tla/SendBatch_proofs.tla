------------------------- MODULE SendBatch_proofs -------------------------
(***************************************************************************)
(* That a shared send batch forgets no connection, sends each connection's *)
(* packets once and in order, and sends nothing of a connection that is    *)
(* dead or has halted: for any number of connections, packets and packet   *)
(* sizes, with and without a manual router.                                *)
(*                                                                         *)
(* NobodyForgotten is inductive; InOrderOnce is inductive together with it *)
(* (it needs to know whose packets the batch holds).                       *)
(***************************************************************************)
EXTENDS SendBatch, FiniteSetTheorems, TLAPS

Sending == phase \in {"send", "last", "resume"}

-----------------------------------------------------------------------------
(* The control of flushes and stalls.                                      *)

LEMMA Bounds ==
    /\ MAX_BATCH \in Nat /\ Quantum \in Nat /\ MaxPackets \in Nat
    /\ MAX_BATCH > 0 /\ Quantum > 0 /\ MaxPackets > 0
    /\ 0 \in 0..Quantum /\ NoConn \notin Conns
  BY BatchAssumption

LEMMA ForgottenInit == Init => NobodyForgotten
  <1> SUFFICES ASSUME Init PROVE NobodyForgotten
    BY Zenon
  <1>1. DataOK
    BY Bounds DEF Init, DataOK
  <1>2. StallOK
    <2>1. waiters \in Seq(Conns)
      BY DEF Init
    <2> QED  BY <2>1, Zenon DEF Init, StallOK
  <1>3. BatchOK /\ FlushOK /\ EventsOK /\ SentOK
    <2>1. BatchOK /\ SentOK
      BY Bounds DEF Init, BatchOK, SentOK
    <2>2. FlushOK /\ EventsOK
      BY Bounds, Zenon DEF Init, FlushOK, EventsOK
    <2> QED  BY <2>1, <2>2, Zenon
  <1>4. BatchEmptyOrStalled /\ OneSender
    BY DEF Init, BatchEmptyOrStalled, OneSender, InFlush
  <1>5. StallCanEnd
    BY Bounds DEF Init, StallCanEnd, Range
  <1>6. NoLostWakeup
    BY DEF Init, NoLostWakeup
  <1> QED  BY <1>1, <1>2, <1>3, <1>4, <1>5, <1>6, Zenon DEF NobodyForgotten, TypeOK

LEMMA ForgottenReady ==
    ASSUME NobodyForgotten, NEW c \in Conns, packet_io_ready(c)
    PROVE  NobodyForgotten'
  <1> USE DEF NobodyForgotten, TypeOK, packet_io_ready, stall, flush, ends, history
  <1>1. DataOK' /\ \A d \in Conns : d # c => backlog'[d] = backlog[d]
    <2> DEFINE b == backlog[c]  w == written[c]
    <2>1. b \in 0..MaxPackets /\ w \in 0..MaxPackets /\ w + b < MaxPackets
      BY Zenon DEF DataOK
    <2> HIDE DEF b, w
    <2>2. b + 1 \in 0..MaxPackets /\ w + (b + 1) <= MaxPackets
      BY <2>1, Bounds
    <2> QED  BY <2>2, Zenon DEF b, w, DataOK
  <1>2. BatchOK' /\ StallOK' /\ FlushOK' /\ EventsOK' /\ SentOK'
    BY DEF BatchOK, StallOK, FlushOK, EventsOK, SentOK
  <1>3. BatchEmptyOrStalled' /\ OneSender'
    BY Zenon DEF BatchEmptyOrStalled, OneSender, InFlush
  <1>4. StallCanEnd'
    BY DEF StallCanEnd
  <1>5. NoLostWakeup'
    BY <1>1, Zenon DEF NoLostWakeup
  <1> QED  BY <1>1, <1>2, <1>3, <1>4, <1>5, Zenon

LEMMA ForgottenEnding ==
    ASSUME NobodyForgotten, NEW c \in Conns, Ending(c)
    PROVE  NobodyForgotten'
  <1> USE DEF NobodyForgotten, TypeOK, Ending, stall, flush, events, history
  <1>1. BatchOK' /\ StallOK' /\ FlushOK' /\ EventsOK' /\ DataOK' /\ SentOK'
    BY Zenon DEF BatchOK, StallOK, FlushOK, EventsOK, DataOK, SentOK
  <1>2. BatchEmptyOrStalled' /\ OneSender'
    BY Zenon DEF BatchEmptyOrStalled, OneSender, InFlush
  <1>3. StallCanEnd'
    BY Zenon DEF StallCanEnd
  <1>4. NoLostWakeup'
    BY Zenon DEF NoLostWakeup
  <1> QED  BY <1>1, <1>2, <1>3, <1>4, Zenon

\* A handler that starts a flush, or finds the batch stalled: the connection's trigger or timer,
\* which has just gone off, is no longer needed.
LEMMA ForgottenFlush ==
    ASSUME NobodyForgotten, phase = "idle", NEW c \in Conns \ halted, Flush(c),
           io_trigger' \in {io_trigger, io_trigger \ {c}}, retransmit' \in {retransmit, retransmit \ {c}},
           UNCHANGED <<batch, stalled, owner, writeable, ends, backlog, written, history>>
    PROVE  NobodyForgotten'
  <1> USE DEF NobodyForgotten, TypeOK, ends, history, flush
  <1>0. BatchOK' /\ EventsOK' /\ DataOK' /\ SentOK'
    BY Zenon DEF BatchOK, EventsOK, DataOK, SentOK
  <1>w. \A d \in Conns \ (dead \cup halted \cup {c}) :
           backlog[d] > 0 => d \in io_trigger' \cup retransmit' \cup waiting_on_stall \cup {owner}
    BY Bounds, Zenon DEF NoLostWakeup, BatchEmptyOrStalled
  <1>1. CASE c \in dead
    <2> USE <1>1 DEF Flush
    <2>1. StallOK' /\ FlushOK'
      BY Zenon DEF StallOK, FlushOK
    <2>2. BatchEmptyOrStalled' /\ OneSender'
      BY Zenon DEF BatchEmptyOrStalled, OneSender, InFlush
    <2>3. StallCanEnd'
      BY Zenon DEF StallCanEnd
    <2>4. NoLostWakeup'
      BY <1>w, Zenon DEF NoLostWakeup
    <2> QED  BY <1>0, <2>1, <2>2, <2>3, <2>4, Zenon
  <1>2. CASE c \notin dead /\ stalled
    <2>0. UNCHANGED <<phase, flush>>
      BY <1>2, Zenon DEF Flush
    <2>1. BatchEmptyOrStalled' /\ OneSender' /\ FlushOK'
      BY <2>0, Zenon DEF BatchEmptyOrStalled, OneSender, InFlush, FlushOK
    <2>2. CASE owner = c \/ c \in waiting_on_stall
      <3> USE <1>2, <2>2 DEF Flush, wait_for_send_stall
      <3>1. StallOK'
        BY Zenon DEF StallOK
      <3>2. StallCanEnd'
        BY Zenon DEF StallCanEnd
      <3>3. NoLostWakeup'
        BY <1>w DEF NoLostWakeup
      <3> QED  BY <1>0, <2>1, <3>1, <3>2, <3>3, Zenon
    <2>3. CASE ~(owner = c \/ c \in waiting_on_stall)
      <3>0. waiters' = Append(waiters, c) /\ waiting_on_stall' = waiting_on_stall \cup {c}
        BY <1>2, <2>3, Zenon DEF Flush, wait_for_send_stall
      <3>1. waiters \in Seq(Conns) /\ waiters' \in Seq(Conns)
        BY <3>0 DEF StallOK
      <3>2. StallOK'
        BY <3>0, <3>1, Zenon DEF StallOK
      <3>3. Range(waiters)' = waiting_on_stall'
        BY <3>0, <3>1 DEF StallCanEnd, Range
      <3>4. \A i, j \in DOMAIN waiters' : waiters'[i] = waiters'[j] => i = j
        BY <3>0, <3>1, <2>3 DEF StallCanEnd, Range
      <3>5. StallCanEnd'
        BY <3>0, <3>3, <3>4, <1>2, <2>0 DEF StallCanEnd
      <3>6. NoLostWakeup'
        BY <1>w, <2>0, <3>0, Zenon DEF NoLostWakeup
      <3> QED  BY <1>0, <2>1, <3>2, <3>5, <3>6, Zenon
    <2> QED  BY <2>2, <2>3, Zenon
  <1>3. CASE c \notin dead /\ ~stalled
    <2> USE <1>3 DEF Flush
    <2>0. batch = <<>>
      BY Zenon DEF BatchEmptyOrStalled
    <2>1. StallOK' /\ FlushOK'
      BY Bounds, Zenon DEF StallOK, FlushOK
    <2>2. BatchEmptyOrStalled' /\ OneSender'
      BY <2>0, Bounds DEF BatchEmptyOrStalled, OneSender, InFlush
    <2>3. StallCanEnd'
      BY Zenon DEF StallCanEnd
    <2>4. NoLostWakeup'
      BY <1>w, Zenon DEF NoLostWakeup
    <2> QED  BY <1>0, <2>1, <2>2, <2>3, <2>4, Zenon
  <1> QED  BY <1>1, <1>2, <1>3, Zenon

\* The end of a flush arms the timer of a connection that has something left to send, so a flush
\* that ends without a stall forgets nobody, whatever became of its packets.
LEMMA ForgottenFlushDone ==
    ASSUME NobodyForgotten, InFlush, FlushDone, batch' = <<>>, SentOK',
           dead \subseteq dead', dead' \subseteq Conns, ending' \subseteq Conns,
           UNCHANGED <<stall, io_trigger, halted, backlog, written>>
    PROVE  NobodyForgotten'
  <1> USE DEF NobodyForgotten, TypeOK, stall
  <1>0. flushing \in Conns \ halted /\ phase # "resume" /\ ~stalled
    BY Zenon DEF BatchEmptyOrStalled, InFlush
  <1>1. retransmit \subseteq Conns /\ retransmit \cap halted = {}
    BY Zenon DEF EventsOK, StallCanEnd
  <1>2. retransmit' \subseteq retransmit \cup {flushing} /\ retransmit \subseteq retransmit' \cup {flushing}
        /\ (backlog[flushing] > 0 => flushing \in retransmit')
    <2> DEFINE b == backlog[flushing]
    <2>1. b \in Nat
      BY <1>0, Bounds DEF DataOK
    <2>2. retransmit' = retransmit \cup {flushing} \/ (b = 0 /\ retransmit' = retransmit \ {flushing})
      BY Zenon DEF FlushDone, Rearm
    <2> HIDE DEF b
    <2>3. b > 0 => flushing \in retransmit'
      BY <2>1, <2>2
    <2> QED  BY <2>2, <2>3, Zenon DEF b
  <1>3. phase' = "idle" /\ flushing' = NoConn /\ n_flushed' = 0 /\ retried' = FALSE
    BY Zenon DEF FlushDone
  <1>4. BatchOK'
    BY Bounds DEF BatchOK
  <1>5. StallOK' /\ DataOK' /\ FlushOK'
    BY <1>3, Bounds, Zenon DEF StallOK, DataOK, FlushOK
  <1>6. EventsOK'
    BY <1>0, <1>1, <1>2 DEF EventsOK
  <1>7. BatchEmptyOrStalled' /\ OneSender'
    BY <1>0, <1>3 DEF BatchEmptyOrStalled, OneSender, InFlush
  <1>8. StallCanEnd'
    BY <1>0, <1>1, <1>2, <1>3 DEF StallCanEnd
  <1>9. NoLostWakeup'
    BY <1>0, <1>2, <1>3, Zenon DEF NoLostWakeup
  <1> QED  BY <1>4, <1>5, <1>6, <1>7, <1>8, <1>9, Zenon

LEMMA ForgottenWritePacket ==
    ASSUME NobodyForgotten, WritePacket
    PROVE  NobodyForgotten'
  <1> USE DEF NobodyForgotten, TypeOK, stall, events, ends, history
  <1>0. flushing \in Conns \ (dead \cup halted) /\ ~stalled /\ n_flushed < Quantum /\ Len(batch) < MAX_BATCH
    BY Zenon DEF BatchEmptyOrStalled, InFlush, WritePacket
  <1> DEFINE b == backlog[flushing]  w == written[flushing]
  <1>1. b \in 0..MaxPackets /\ w \in 0..MaxPackets /\ w + b <= MaxPackets /\ b > 0
    BY <1>0, Zenon DEF DataOK, WritePacket
  <1> HIDE DEF b, w
  <1>2. b - 1 \in 0..MaxPackets /\ w + 1 \in 1..MaxPackets /\ w + 1 \in 0..MaxPackets
        /\ (w + 1) + (b - 1) <= MaxPackets
    BY <1>1, Bounds
  <1>3. DataOK' /\ \A d \in Conns : d # flushing => backlog'[d] = backlog[d]
    BY <1>0, <1>2, Zenon DEF DataOK, WritePacket, b, w
  <1>4. PICK size \in Sizes : batch' = Append(batch, [conn |-> flushing, n |-> w + 1, size |-> size])
    BY Zenon DEF WritePacket, w
  <1> DEFINE p == [conn |-> flushing, n |-> w + 1, size |-> size]
  <1>5. p \in Packets /\ p.conn = flushing
    BY <1>0, <1>2, Zenon DEF Packets
  <1> HIDE DEF p
  <1>6. batch \in Seq(Packets) /\ batch' \in Seq(Packets) /\ Len(batch') = Len(batch) + 1
        /\ Len(batch) \in Nat /\ batch' # <<>>
    BY <1>4, <1>5 DEF BatchOK, p
  <1>7. BatchOK'
    BY <1>0, <1>6, Bounds DEF BatchOK
  <1>8. n_flushed + 1 \in 0..Quantum /\ n_flushed' = n_flushed + 1 /\ n_flushed' # 0
    BY <1>0, Bounds DEF FlushOK, WritePacket
  <1>9. phase' = IF n_flushed + 1 = Quantum THEN "last" ELSE IF Len(batch') = MAX_BATCH THEN "send" ELSE "write"
    BY Zenon DEF WritePacket
  <1>10. StallOK' /\ EventsOK' /\ SentOK' /\ FlushOK'
    BY <1>8, <1>9, Zenon DEF StallOK, EventsOK, SentOK, FlushOK, WritePacket
  <1>11. /\ phase' \in {"write", "send"} => n_flushed' < Quantum
         /\ phase' = "write" => Len(batch') < MAX_BATCH
    BY <1>0, <1>6, <1>8, <1>9, Bounds DEF FlushOK
  <1>12. BatchEmptyOrStalled'
    BY <1>0, <1>6, <1>8, <1>9, <1>11, Zenon DEF BatchEmptyOrStalled, InFlush, WritePacket
  <1>13. \A i \in DOMAIN batch' : batch'[i].conn = flushing
    BY <1>4, <1>5, <1>6 DEF OneSender, InFlush, WritePacket, p
  <1>14. OneSender'
    BY <1>0, <1>13, Zenon DEF OneSender, WritePacket
  <1>15. StallCanEnd'
    BY <1>0, <1>9, Zenon DEF StallCanEnd, WritePacket
  <1>16. NoLostWakeup'
    BY <1>3, Zenon DEF NoLostWakeup, WritePacket
  <1> QED  BY <1>3, <1>7, <1>10, <1>12, <1>14, <1>15, <1>16, Zenon

LEMMA ForgottenWriteDone ==
    ASSUME NobodyForgotten, WriteDone
    PROVE  NobodyForgotten'
  <1>1. CASE batch = <<>>
    <2>1. InFlush /\ FlushDone /\ batch' = <<>>
      BY <1>1, Zenon DEF WriteDone, InFlush
    <2>2. SentOK' /\ dead' \subseteq Conns /\ ending' \subseteq Conns
      BY Zenon DEF WriteDone, ends, history, NobodyForgotten, TypeOK, SentOK, EventsOK
    <2> QED  BY <2>1, <2>2, ForgottenFlushDone, Zenon DEF WriteDone, ends
  <1>2. CASE batch # <<>>
    <2> USE <1>2 DEF NobodyForgotten, TypeOK, WriteDone, stall, flush, ends, history
    <2>1. BatchOK' /\ StallOK' /\ FlushOK' /\ EventsOK' /\ DataOK' /\ SentOK'
      BY Zenon DEF BatchOK, StallOK, FlushOK, EventsOK, DataOK, SentOK
    <2>2. BatchEmptyOrStalled' /\ OneSender'
      BY Zenon DEF BatchEmptyOrStalled, OneSender, InFlush
    <2>3. StallCanEnd'
      BY Zenon DEF StallCanEnd
    <2>4. NoLostWakeup'
      BY Zenon DEF NoLostWakeup
    <2> QED  BY <2>1, <2>2, <2>3, <2>4, Zenon
  <1> QED  BY <1>1, <1>2, Zenon

-----------------------------------------------------------------------------
(* The batch of a send.                                                    *)

\* What is being sent are packets of the connection that flushes, or that owns the stall, which is
\* neither dead nor halted.
LEMMA SenderOwnsBatch ==
    ASSUME NobodyForgotten, Sending
    PROVE  /\ Sender \in Conns \ (dead \cup halted) /\ batch # <<>>
           /\ \A i \in DOMAIN batch : batch[i].conn = Sender
  BY Bounds, Zenon DEF NobodyForgotten, TypeOK, BatchEmptyOrStalled, OneSender, StallCanEnd, InFlush, Sending, Sender

\* How many packets of a batch are a connection's, if all are one connection's.
LEMMA CountOf ==
    ASSUME NEW I \in SUBSET (DOMAIN batch), batch \in Seq(Packets), NEW c,
           NEW d, \A i \in I : batch[i].conn = d
    PROVE  /\ IsFiniteSet(I) /\ Cardinality(I) \in Nat
           /\ Cardinality(PacketsOf(c, I)) = IF c = d THEN Cardinality(I) ELSE 0
  <1>1. IsFiniteSet(1..Len(batch)) /\ DOMAIN batch = 1..Len(batch)
    BY FS_Interval
  <1>2. IsFiniteSet(I) /\ Cardinality(I) \in Nat
    BY <1>1, FS_Subset, FS_CardinalityType, Zenon
  <1>3. PacketsOf(c, I) = IF c = d THEN I ELSE {}
    BY Zenon DEF PacketsOf
  <1> QED  BY <1>2, <1>3, FS_EmptySet, Zenon

\* Dropping packets only counts them.
LEMMA DropType ==
    ASSUME NobodyForgotten, NEW I \in SUBSET (DOMAIN batch), Drop(I)
    PROVE  dropped' \in [Conns -> Nat]
  <1>1. batch \in Seq(Packets) /\ dropped \in [Conns -> Nat]
    BY Zenon DEF NobodyForgotten, TypeOK, BatchOK, SentOK
  <1>2. PICK d : \A i \in I : batch[i].conn = d
    <2>1. CASE I = {}
      BY <2>1, Zenon
    <2>2. CASE I # {}
      <3>1. PICK j \in I : TRUE
        BY <2>2, Zenon
      <3> QED  BY <3>1, Zenon DEF NobodyForgotten, OneSender
    <2> QED  BY <2>1, <2>2, Zenon
  <1>3. ASSUME NEW c \in Conns PROVE dropped[c] + Cardinality(PacketsOf(c, I)) \in Nat
    <2>0. Cardinality(I) \in Nat /\ Cardinality(PacketsOf(c, I)) = IF c = d THEN Cardinality(I) ELSE 0
      BY <1>1, <1>2, CountOf, Zenon
    <2>1. Cardinality(PacketsOf(c, I)) \in Nat
      BY <2>0
    <2> QED  BY <1>1, <2>1
  <1> QED  BY <1>3, Zenon DEF Drop

-----------------------------------------------------------------------------
(* The outcomes of a send.                                                 *)

\* The end of a stall wakes the owner and everyone who waits.
LEMMA ForgottenWake ==
    ASSUME NobodyForgotten, phase \in {"idle", "resume"}, WakeWaiters, phase' = "idle", batch' = <<>>,
           writeable' = 0, retried' \in BOOLEAN, ending' \subseteq Conns, SentOK',
           UNCHANGED <<flushing, n_flushed, retransmit, dead, halted, backlog, written>>
    PROVE  NobodyForgotten'
  <1> USE DEF NobodyForgotten, TypeOK
  <1>0. flushing = NoConn /\ n_flushed = 0
    BY Zenon DEF BatchEmptyOrStalled
  <1>1. /\ stalled' = FALSE /\ owner' = NoConn /\ waiters' = <<>> /\ waiting_on_stall' = {}
        /\ io_trigger' = io_trigger \cup ((waiting_on_stall \cup ({owner} \ {NoConn})) \ halted)
    BY Zenon DEF WakeWaiters, StallCanEnd
  <1>2. owner \in Conns \cup {NoConn} /\ waiting_on_stall \subseteq Conns
    BY Zenon DEF StallOK
  <1>3. BatchOK' /\ StallOK'
    <2>1. waiters' \in Seq(Conns) /\ batch' \in Seq(Packets) /\ Len(batch') <= MAX_BATCH
      BY <1>1, Bounds
    <2> QED  BY <1>1, <2>1, Zenon DEF BatchOK, StallOK
  <1>4. FlushOK' /\ DataOK'
    BY <1>0, Bounds, Zenon DEF FlushOK, DataOK
  <1>5. EventsOK'
    BY <1>1, <1>2 DEF EventsOK
  <1>6. BatchEmptyOrStalled' /\ OneSender'
    BY <1>0, <1>1 DEF BatchEmptyOrStalled, OneSender, InFlush
  <1>7. StallCanEnd'
    BY <1>1, <1>2, Bounds DEF StallCanEnd, Range, EventsOK
  <1>8. NoLostWakeup'
    BY <1>0, <1>1, Bounds, Zenon DEF NoLostWakeup
  <1> QED  BY <1>3, <1>4, <1>5, <1>6, <1>7, <1>8, Zenon

\* What Connection::send, flush_packets and resume_stalled_send do with the result of
\* send_packets, whatever became of the packets: a result other than "blocked" left none.
LEMMA ForgottenSent ==
    ASSUME NobodyForgotten, Sending, NEW ret, Sent(ret), BatchOK', SentOK', ending' \subseteq Conns,
           ret = "blocked" => batch' # <<>>, ret # "blocked" => batch' = <<>>,
           \A i \in DOMAIN batch' : batch'[i].conn = Sender,
           UNCHANGED <<dead, halted, backlog, written>>
    PROVE  NobodyForgotten'
  <1>0. Sender \in Conns \ (dead \cup halted)
    BY SenderOwnsBatch, Zenon
  <1>1. CASE phase \in {"send", "last"} /\ ret # "blocked" /\ FlushDone /\ UNCHANGED <<stall, io_trigger>>
    BY <1>1, ForgottenFlushDone, Zenon DEF InFlush, NobodyForgotten, TypeOK, EventsOK
  <1>2. CASE ret = "ok" /\ phase = "send" /\ phase' = "write" /\ retried' = FALSE
             /\ UNCHANGED <<flushing, n_flushed, stall, retransmit, io_trigger>>
    <2> USE <1>2 DEF NobodyForgotten, TypeOK, stall
    <2>1. StallOK' /\ FlushOK' /\ EventsOK' /\ DataOK'
      BY Zenon DEF StallOK, FlushOK, EventsOK, DataOK
    <2>2. BatchEmptyOrStalled' /\ OneSender'
      BY Bounds DEF BatchEmptyOrStalled, OneSender, InFlush
    <2>3. StallCanEnd'
      BY Zenon DEF StallCanEnd
    <2>4. NoLostWakeup'
      BY Zenon DEF NoLostWakeup
    <2> QED  BY <2>1, <2>2, <2>3, <2>4, Zenon
  <1>3. CASE phase \in {"send", "last"} /\ ret = "blocked" /\ stall_send /\ phase' = "idle" /\ flushing' = NoConn
             /\ n_flushed' = 0 /\ retried' = FALSE /\ UNCHANGED <<retransmit, io_trigger>>
    <2> USE <1>3 DEF NobodyForgotten, TypeOK, stall_send
    <2>0. ~stalled /\ writeable = 0 /\ flushing = Sender /\ owner = NoConn
      BY Zenon DEF BatchEmptyOrStalled, InFlush, StallCanEnd, Sender
    <2>1. StallOK' /\ FlushOK'
      <3>1. writeable' \in Nat
        BY <2>0
      <3> QED  BY <1>0, <2>0, <3>1, Bounds, Zenon DEF StallOK, FlushOK
    <2>2. EventsOK' /\ DataOK'
      BY Zenon DEF EventsOK, DataOK
    <2>3. BatchEmptyOrStalled' /\ OneSender'
      BY <2>0, Zenon DEF BatchEmptyOrStalled, OneSender, InFlush
    <2>4. StallCanEnd'
      BY <1>0, <2>0 DEF StallCanEnd
    <2>5. NoLostWakeup'
      BY <2>0, Bounds, Zenon DEF NoLostWakeup
    <2> QED  BY <2>1, <2>2, <2>3, <2>4, <2>5, Zenon
  <1>4. CASE phase = "resume" /\ phase' = "idle" /\ retried' = FALSE /\ ret = "blocked"
             /\ writeable' = writeable + 1
             /\ UNCHANGED <<stalled, owner, waiters, waiting_on_stall, io_trigger, flushing, n_flushed, retransmit>>
    <2> USE <1>4 DEF NobodyForgotten, TypeOK
    <2>0. stalled /\ owner = Sender /\ writeable = 0
      BY DEF BatchEmptyOrStalled, StallCanEnd, Sender, StallOK
    <2>1. StallOK' /\ FlushOK' /\ EventsOK' /\ DataOK'
      <3>1. writeable' \in Nat
        BY <2>0
      <3>2. StallOK' /\ FlushOK'
        BY <3>1, Zenon DEF StallOK, FlushOK
      <3> QED  BY <3>2, Zenon DEF EventsOK, DataOK
    <2>2. BatchEmptyOrStalled' /\ OneSender'
      BY <2>0, Zenon DEF BatchEmptyOrStalled, OneSender, InFlush
    <2>3. StallCanEnd'
      BY <2>0 DEF StallCanEnd
    <2>4. NoLostWakeup'
      BY Zenon DEF NoLostWakeup
    <2> QED  BY <2>1, <2>2, <2>3, <2>4, Zenon
  <1>5. CASE phase = "resume" /\ phase' = "idle" /\ retried' = FALSE /\ ret # "blocked" /\ WakeWaiters
             /\ UNCHANGED <<writeable, flushing, n_flushed, retransmit>>
    <2>1. writeable' = 0
      BY <1>5 DEF NobodyForgotten, TypeOK, StallOK, StallCanEnd, BatchEmptyOrStalled
    <2> QED  BY <1>5, <2>1, ForgottenWake, Zenon
  <1>6. FlushSent(ret) \/ ResumeSent(ret)
    BY Zenon DEF Sent
  <1>7. CASE FlushSent(ret)
    BY <1>1, <1>2, <1>3, <1>7, Zenon DEF FlushSent
  <1>8. CASE ResumeSent(ret)
    BY <1>4, <1>5, <1>8, Zenon DEF ResumeSent
  <1> QED  BY <1>6, <1>7, <1>8, Zenon

\* send_packets tries again.
LEMMA ForgottenRetry ==
    ASSUME NobodyForgotten, Sending, BatchOK', SentOK', batch' # <<>>, retried' \in BOOLEAN,
           \A i \in DOMAIN batch' : batch'[i].conn = Sender, ending' \subseteq Conns,
           UNCHANGED <<stall, phase, flushing, n_flushed, events, dead, halted, backlog, written>>
    PROVE  NobodyForgotten'
  <1> USE DEF NobodyForgotten, TypeOK, stall, events
  <1>1. StallOK' /\ FlushOK' /\ EventsOK' /\ DataOK'
    BY Zenon DEF StallOK, FlushOK, EventsOK, DataOK
  <1>2. BatchEmptyOrStalled' /\ OneSender'
    BY Zenon DEF BatchEmptyOrStalled, OneSender, InFlush, Sending, Sender
  <1>3. StallCanEnd'
    BY Zenon DEF StallCanEnd
  <1>4. NoLostWakeup'
    BY Zenon DEF NoLostWakeup
  <1> QED  BY <1>1, <1>2, <1>3, <1>4, Zenon

LEMMA ForgottenWriteFails ==
    ASSUME NobodyForgotten, WriteFails
    PROVE  NobodyForgotten'
  <1>1. dropped' \in [Conns -> Nat]
    BY DropType, Zenon DEF WriteFails
  <1>2. InFlush /\ flushing \in Conns
    BY Zenon DEF WriteFails, InFlush, NobodyForgotten, BatchEmptyOrStalled
  <1>3. SentOK' /\ dead \subseteq dead' /\ dead' \subseteq Conns /\ ending' \subseteq Conns /\ halted' = halted
    BY <1>1, <1>2, Zenon DEF WriteFails, ends, NobodyForgotten, TypeOK, SentOK, EventsOK
  <1> QED  BY <1>2, <1>3, ForgottenFlushDone, Zenon DEF WriteFails

LEMMA ForgottenResume ==
    ASSUME NobodyForgotten, resume_stalled_send
    PROVE  NobodyForgotten'
  <1>0. stalled /\ writeable = 1 /\ writeable' = 0
    BY DEF NobodyForgotten, TypeOK, StallOK, StallCanEnd, resume_stalled_send
  <1>1. CASE owner # NoConn /\ owner \notin dead
    <2> USE <1>0, <1>1 DEF NobodyForgotten, TypeOK, resume_stalled_send, flush, ends
    <2>1. BatchOK' /\ StallOK' /\ FlushOK' /\ EventsOK' /\ DataOK' /\ SentOK'
      BY SMTT(30) DEF BatchOK, StallOK, FlushOK, EventsOK, DataOK, SentOK
    <2>2. BatchEmptyOrStalled' /\ OneSender'
      BY Zenon DEF BatchEmptyOrStalled, OneSender, InFlush, StallOK
    <2>3. StallCanEnd'
      BY DEF StallCanEnd
    <2>4. NoLostWakeup'
      BY Zenon DEF NoLostWakeup
    <2> QED  BY <2>1, <2>2, <2>3, <2>4, Zenon
  <1>2. CASE ~(owner # NoConn /\ owner \notin dead)
    <2>1. batch' = <<>> /\ Drop(DOMAIN batch) /\ WakeWaiters /\ phase' = phase
      BY <1>2, Zenon DEF resume_stalled_send
    <2>2. SentOK'
      BY <2>1, DropType, Zenon DEF resume_stalled_send, SentOK, NobodyForgotten, TypeOK
    <2>3. retried' \in BOOLEAN /\ ending' \subseteq Conns
      BY Zenon DEF resume_stalled_send, flush, ends, NobodyForgotten, TypeOK, FlushOK, EventsOK
    <2> QED  BY <1>0, <2>1, <2>2, <2>3, ForgottenWake, Zenon DEF resume_stalled_send, flush, ends
  <1> QED  BY <1>1, <1>2, Zenon

\* What forget_send_stall leaves of the waiters are the others, each still once.
LEMMA KeptWaiters ==
    ASSUME NEW s \in Seq(Conns), NEW c, NEW I, \A i : i \in I <=> i \in DOMAIN s /\ s[i] # c, NEW f \in Enumerations(I),
           \A i, j \in DOMAIN s : s[i] = s[j] => i = j
    PROVE  /\ Kept(s, f) \in Seq(Conns)
           /\ Range(Kept(s, f)) = Range(s) \ {c}
           /\ \A i, j \in DOMAIN Kept(s, f) : Kept(s, f)[i] = Kept(s, f)[j] => i = j
  <1> DEFINE m == Cardinality(I)
             t == Kept(s, f)
  <1>1. IsFiniteSet(I) /\ m \in Nat
    <2>1. IsFiniteSet(1..Len(s)) /\ I \in SUBSET (1..Len(s))
      BY FS_Interval
    <2> QED  BY <2>1, FS_Subset, FS_CardinalityType, Zenon
  <1>2. /\ f \in [1..m -> I]
        /\ \A i, j \in 1..m : i < j => f[i] < f[j]
        /\ \A p \in I : \E i \in 1..m : f[i] = p
    BY Zenon DEF Enumerations
  <1> HIDE DEF m
  <1>3. t = [i \in 1..m |-> s[f[i]]]
    BY <1>2, Zenon DEF Kept
  <1>4. \A i \in 1..m : f[i] \in DOMAIN s /\ s[f[i]] \in Conns /\ s[f[i]] # c
    BY <1>2
  <1>5. t \in Seq(Conns) /\ DOMAIN t = 1..m
    BY <1>1, <1>3, <1>4
  <1>6. Range(t) = Range(s) \ {c}
    <2>1. ASSUME NEW x \in Range(t) PROVE x \in Range(s) \ {c}
      BY <2>1, <1>3, <1>4, <1>5 DEF Range
    <2>2. ASSUME NEW x \in Range(s) \ {c} PROVE x \in Range(t)
      <3>1. PICK p \in DOMAIN s : s[p] = x
        BY Zenon DEF Range
      <3>2. PICK i \in 1..m : f[i] = p
        BY <3>1, <1>2, <2>2, Zenon
      <3> QED  BY <3>1, <3>2, <1>3, <1>5, Zenon DEF Range
    <2> QED  BY <2>1, <2>2, Zenon
  <1>7. \A i, j \in 1..m : f[i] = f[j] => i = j
    <2> SUFFICES ASSUME NEW i \in 1..m, NEW j \in 1..m, f[i] = f[j], i # j PROVE FALSE
      BY Zenon
    <2>1. f[i] \in Nat /\ f[j] \in Nat
      BY <1>2
    <2>2. i < j \/ j < i
      BY <1>1
    <2> QED  BY <2>1, <2>2, <1>2
  <1>8. \A i, j \in DOMAIN t : t[i] = t[j] => i = j
    BY <1>3, <1>4, <1>5, <1>7
  <1> QED  BY <1>5, <1>6, <1>8, Zenon

LEMMA ForgottenHalt ==
    ASSUME NobodyForgotten, NEW c \in Conns, halt_events(c)
    PROVE  NobodyForgotten'
  <1> USE DEF NobodyForgotten, TypeOK, halt_events, flush, history
  <1> DEFINE I == {i \in DOMAIN waiters : waiters[i] # c}
  <1>1. PICK f \in Enumerations(I) : waiters' = Kept(waiters, f)
    BY Zenon DEF forget_send_stall
  <1>2. /\ waiters' \in Seq(Conns) /\ Range(waiters') = Range(waiters) \ {c}
        /\ \A i, j \in DOMAIN waiters' : waiters'[i] = waiters'[j] => i = j
    <2>1. waiters \in Seq(Conns) /\ \A i, j \in DOMAIN waiters : waiters[i] = waiters[j] => i = j
      BY Zenon DEF StallOK, StallCanEnd
    <2>2. /\ Kept(waiters, f) \in Seq(Conns) /\ Range(Kept(waiters, f)) = Range(waiters) \ {c}
          /\ \A i, j \in DOMAIN Kept(waiters, f) : Kept(waiters, f)[i] = Kept(waiters, f)[j] => i = j
      <3>1. \A i : i \in I <=> i \in DOMAIN waiters /\ waiters[i] # c
        BY Zenon
      <3> HIDE DEF I, NobodyForgotten, TypeOK, halt_events, flush, history
      <3> QED  BY <1>1, <2>1, <3>1, KeptWaiters, Zenon
    <2> QED  BY <1>1, <2>2, Zenon
  <1>3. /\ owner' = (IF owner = c THEN NoConn ELSE owner)
        /\ waiting_on_stall' = waiting_on_stall \ {c}
    BY Zenon DEF forget_send_stall
  <1>4. BatchOK' /\ FlushOK' /\ EventsOK' /\ DataOK' /\ SentOK'
    BY SMTT(30) DEF BatchOK, FlushOK, EventsOK, DataOK, SentOK
  <1>5. StallOK'
    BY <1>2, <1>3, Zenon DEF StallOK
  <1>6. BatchEmptyOrStalled' /\ OneSender'
    BY <1>3, Zenon DEF BatchEmptyOrStalled, OneSender, InFlush
  <1>7. StallCanEnd'
    <2>1. waiters = <<>> => waiters' = <<>>
      <3>1. SUFFICES ASSUME waiters = <<>>, waiters' # <<>> PROVE FALSE
        BY Zenon
      <3>2. waiters'[1] \in Range(waiters')
        BY <3>1, <1>2 DEF Range
      <3>3. Range(waiters) = {}
        BY <3>1 DEF Range
      <3> QED  BY <3>2, <3>3, <1>2, Zenon
    <2>2. owner' \notin halted'
      BY <1>3, Bounds, Zenon DEF StallCanEnd, EventsOK
    <2> QED  BY <1>2, <1>3, <2>1, <2>2, Zenon DEF StallCanEnd
  <1>8. NoLostWakeup'
    BY <1>3, Zenon DEF NoLostWakeup
  <1> QED  BY <1>4, <1>5, <1>6, <1>7, <1>8, Zenon

-----------------------------------------------------------------------------
(* The order of the packets.                                               *)

LEMMA CountIn ==
    ASSUME NEW s \in Seq(Packets), NEW c, NEW d, \A i \in DOMAIN s : s[i].conn = d
    PROVE  Cardinality({i \in DOMAIN s : s[i].conn = c}) = IF c = d THEN Len(s) ELSE 0
  <1>1. DOMAIN s = 1..Len(s) /\ Len(s) \in Nat /\ Cardinality(1..Len(s)) = Len(s)
    <2>1. DOMAIN s = 1..Len(s) /\ Len(s) \in Nat
      OBVIOUS
    <2>2. Cardinality(1..Len(s)) = IF 1 > Len(s) THEN 0 ELSE Len(s) - 1 + 1
      BY <2>1, FS_Interval, SMTT(30)
    <2> QED  BY <2>1, <2>2
  <1>2. {i \in DOMAIN s : s[i].conn = c} = IF c = d THEN DOMAIN s ELSE {}
    BY Zenon
  <1> QED  BY <1>1, <1>2, FS_EmptySet, Zenon

LEMMA OrderSame ==
    ASSUME PacketsInOrder, UNCHANGED <<batch, written, history>>
    PROVE  PacketsInOrder'
  BY Zenon DEF PacketsInOrder, Increases, PacketsOf, history

LEMMA OrderDropAll ==
    ASSUME NobodyForgotten, PacketsInOrder, batch' = <<>>, Drop(DOMAIN batch), UNCHANGED <<written, out>>
    PROVE  PacketsInOrder'
  <1>1. DOMAIN batch' = {}
    OBVIOUS
  <1>2. Increases([i \in DOMAIN batch |-> batch[i].n])'
    BY <1>1, Zenon DEF Increases
  <1>3. ASSUME NEW c \in Conns
        PROVE  Len(out'[c]) + Cardinality(PacketsOf(c, DOMAIN batch)') + dropped'[c] = written'[c]
    <2> DEFINE x == Cardinality(PacketsOf(c, DOMAIN batch))  l == Len(out[c])
    <2>1. dropped' \in [Conns -> Nat] /\ dropped \in [Conns -> Nat] /\ out[c] \in Seq(1..MaxPackets)
      BY DropType, Zenon DEF NobodyForgotten, TypeOK, SentOK
    <2>2. PacketsOf(c, DOMAIN batch)' = {}
      BY <1>1, Zenon DEF PacketsOf
    <2>3. l + x + dropped[c] = written[c] /\ dropped'[c] = dropped[c] + x
      BY Zenon DEF PacketsInOrder, Drop
    <2>4. x \in Nat
      <3>1. PICK d : \A i \in DOMAIN batch : batch[i].conn = d
        <4>1. CASE DOMAIN batch = {}
          BY <4>1, Zenon
        <4>2. CASE DOMAIN batch # {}
          <5>1. PICK j \in DOMAIN batch : TRUE
            BY <4>2, Zenon
          <5> QED  BY <5>1, Zenon DEF NobodyForgotten, OneSender
        <4> QED  BY <4>1, <4>2, Zenon
      <3>2. batch \in Seq(Packets)
        BY Zenon DEF NobodyForgotten, TypeOK, BatchOK
      <3>3. x = IF c = d THEN Len(batch) ELSE 0
        BY <3>1, <3>2, CountIn, Zenon DEF PacketsOf
      <3> QED  BY <3>2, <3>3
    <2> HIDE DEF x, l
    <2>5. l \in Nat
      BY <2>1 DEF l
    <2>6. l + 0 + dropped'[c] = written[c]
      BY <2>1, <2>3, <2>4, <2>5
    <2> QED  BY <2>2, <2>6, FS_EmptySet, Zenon DEF l
  <1> QED  BY <1>1, <1>2, <1>3, Zenon DEF PacketsInOrder

\* k elements that follow in b are moved from its front to the end of o.
LEMMA MoveOver ==
    ASSUME NEW lo \in Nat, NEW L \in Nat, NEW k \in 0..L, NEW o \in [1..lo -> Nat], NEW b \in [1..L -> Nat],
           NEW r, \A i \in 1..(lo + k) : r[i] = IF i <= lo THEN o[i] ELSE b[i - lo],
           \A i, j \in 1..lo : i < j => o[i] < o[j],
           \A i, j \in 1..L : i < j => b[i] < b[j],
           \A i \in 1..lo, j \in 1..L : o[i] < b[j]
    PROVE  /\ \A i, j \in 1..(lo + k) : i < j => r[i] < r[j]
           /\ \A i \in 1..(lo + k), j \in 1..(L - k) : r[i] < b[j + k]
  <1>1. ASSUME NEW i \in 1..(lo + k), NEW j \in 1..(lo + k), i < j
        PROVE  r[i] < r[j]
    <2>1. CASE j <= lo
      BY <1>1, <2>1
    <2>2. CASE i <= lo /\ j > lo
      <3>1. j - lo \in 1..L /\ i \in 1..lo
        BY <2>2
      <3> QED  BY <3>1, <2>2
    <2>3. CASE i > lo
      <3>1. j - lo \in 1..L /\ i - lo \in 1..L /\ i - lo < j - lo /\ ~(i <= lo) /\ ~(j <= lo)
        BY <1>1, <2>3
      <3>2. r[i] = b[i - lo] /\ r[j] = b[j - lo]
        BY <3>1, Zenon
      <3> QED  BY <3>1, <3>2, Zenon
    <2> QED  BY <2>1, <2>2, <2>3
  <1>2. ASSUME NEW i \in 1..(lo + k), NEW j \in 1..(L - k)
        PROVE  r[i] < b[j + k]
    <2>1. j + k \in 1..L
      OBVIOUS
    <2>2. CASE i <= lo
      BY <2>1, <2>2
    <2>3. CASE i > lo
      <3>1. i - lo \in 1..L /\ i - lo < j + k /\ r[i] = b[i - lo]
        BY <2>3
      <3> QED  BY <2>1, <3>1, Zenon
    <2> QED  BY <2>2, <2>3
  <1> QED  BY <1>1, <1>2, Zenon

\* The first k packets go to the socket and the others move to the front of the batch.
LEMMA OrderEmit ==
    ASSUME NobodyForgotten, PacketsInOrder, Sending, NEW k \in 0..Len(batch), Emit(k), batch' = Unsent(k),
           UNCHANGED <<written, dropped>>
    PROVE  /\ PacketsInOrder' /\ SentOK' /\ BatchOK' /\ Len(batch') = Len(batch) - k
           /\ \A i \in DOMAIN batch' : batch'[i].conn = Sender
  <1> DEFINE d == Sender  L == Len(batch)  o == out[d]  lo == Len(o)
             e == [i \in 1..k |-> batch[i].n]
             b == [i \in 1..L |-> batch[i].n]
             r == o \o e
  <1>0. d \in Conns /\ batch \in Seq(Packets) /\ L \in Nat /\ L <= MAX_BATCH /\ \A i \in 1..L : batch[i].conn = d
    BY SenderOwnsBatch DEF NobodyForgotten, TypeOK, BatchOK
  <1>1. o \in Seq(1..MaxPackets) /\ lo \in Nat /\ out \in [Conns -> Seq(1..MaxPackets)]
    BY <1>0 DEF NobodyForgotten, TypeOK, SentOK
  <1>2. \A i \in 1..L : batch[i].n \in 1..MaxPackets
    <2>1. \A p \in Packets : p.n \in 1..MaxPackets
      BY Zenon DEF Packets
    <2>2. \A i \in 1..L : batch[i] \in Packets
      BY <1>0
    <2> QED  BY <2>1, <2>2, Zenon
  <1>3. e \in Seq(1..MaxPackets) /\ Len(e) = k /\ \A i \in 1..k : e[i] = batch[i].n
    BY <1>2
  <1>4. /\ batch' \in Seq(Packets) /\ Len(batch') = L - k
        /\ \A i \in 1..(L - k) : batch'[i] = batch[i + k] /\ i + k \in 1..L
    <2>1. batch' = SubSeq(batch, k + 1, L)
      BY Zenon DEF Unsent
    <2>2. Len(batch') = L - k
      BY <1>0, <2>1
    <2> QED  BY <1>0, <2>1, <2>2
  <1>5. out' = [out EXCEPT ![d] = r]
    BY Zenon DEF Emit
  <1>d. DOMAIN batch = 1..L /\ DOMAIN o = 1..lo /\ DOMAIN batch' = 1..(L - k)
    BY <1>0, <1>1, <1>4
  <1>b. b \in [1..L -> 1..MaxPackets] /\ \A i \in 1..L : batch[i].n = b[i]
    BY <1>2, Zenon
  <1> HIDE DEF e, d, o, b
  <1>6. /\ r \in Seq(1..MaxPackets) /\ Len(r) = lo + k
        /\ \A i \in 1..(lo + k) : r[i] = IF i <= lo THEN o[i] ELSE e[i - lo]
    <2>1. r \in Seq(1..MaxPackets) /\ Len(r) = Len(o) + Len(e)
      BY <1>1, <1>3
    <2>2. \A i \in 1..(Len(o) + Len(e)) : r[i] = IF i <= Len(o) THEN o[i] ELSE e[i - Len(o)]
      BY <1>1, <1>3
    <2> QED  BY <2>1, <2>2, <1>3, Zenon
  <1>o. o \in [1..lo -> 1..MaxPackets] /\ MaxPackets \in Nat
    BY <1>1, <1>d, Bounds
  <1> HIDE DEF r, lo, L
  <1>k. k \in 0..L
    BY Zenon DEF L
  <1>r. \A i \in 1..(lo + k) : r[i] = IF i <= lo THEN o[i] ELSE b[i - lo]
    <2> SUFFICES ASSUME NEW i \in 1..(lo + k), ~(i <= lo) PROVE e[i - lo] = b[i - lo]
      BY <1>6, Zenon
    <2>1. i - lo \in 1..k /\ i - lo \in 1..L
      BY <1>0, <1>1, <1>k
    <2> QED  BY <2>1, <1>3, <1>b, Zenon
  <1>7. SentOK'
    <2>1. dropped \in [Conns -> Nat]
      BY Zenon DEF SentOK, NobodyForgotten, TypeOK
    <2>2. out' \in [Conns -> Seq(1..MaxPackets)]
      BY <1>0, <1>1, <1>5, <1>6, Zenon
    <2> QED  BY <2>1, <2>2, Zenon DEF SentOK
  <1>8. BatchOK' /\ \A i \in DOMAIN batch' : batch'[i].conn = d
    <2>1. L - k <= MAX_BATCH
      BY <1>0, <1>k, Bounds
    <2> QED  BY <2>1, <1>0, <1>4, <1>d DEF BatchOK
  <1>9. \A i, j \in 1..L : i < j => b[i] < b[j]
    BY <1>d, <1>b, Zenon DEF PacketsInOrder, Increases
  <1>10. \A i \in 1..lo : o[i] <= written[d] /\ \A j \in 1..L : o[i] < b[j]
    BY <1>0, <1>d, <1>b, ZenonT(30) DEF PacketsInOrder, o
  <1>11. \A i \in 1..L : b[i] <= written[d]
    BY <1>0, <1>d, <1>b, Zenon DEF PacketsInOrder
  <1>12. \A i, j \in 1..lo : i < j => o[i] < o[j]
    BY <1>0, <1>d, Zenon DEF PacketsInOrder, Increases, o
  <1>13. /\ \A i, j \in 1..(lo + k) : i < j => r[i] < r[j]
         /\ \A i \in 1..(lo + k), j \in 1..(L - k) : r[i] < b[j + k]
    <2>1. o \in [1..lo -> Nat] /\ b \in [1..L -> Nat]
      BY <1>o, <1>b
    <2> QED  BY <2>1, <1>0, <1>1, <1>k, <1>r, <1>9, <1>10, <1>12, MoveOver, Zenon
  <1>14. \A j \in 1..(L - k) : batch'[j].n = b[j + k] /\ j + k \in 1..L
    BY <1>4, <1>b, Zenon
  <1>15. Increases([i \in DOMAIN batch |-> batch[i].n])'
    <2>1. \A i, j \in 1..(L - k) : i < j => i + k < j + k
      BY <1>0, <1>k
    <2>2. \A i, j \in 1..(L - k) : i < j => batch'[i].n < batch'[j].n
      BY <2>1, <1>9, <1>14, Zenon
    <2> QED  BY <2>2, <1>d, Zenon DEF Increases
  <1>16. \A i \in DOMAIN batch' : batch'[i].n <= written'[batch'[i].conn]
    BY <1>8, <1>11, <1>14, <1>d, Zenon
  <1>17. \A i \in 1..(lo + k) : r[i] <= written[d]
    <2> SUFFICES ASSUME NEW i \in 1..(lo + k) PROVE r[i] <= written[d]
      BY Zenon
    <2>1. CASE i <= lo
      BY <2>1, <1>1, <1>r, <1>10
    <2>2. CASE i > lo
      <3>1. i - lo \in 1..L /\ r[i] = b[i - lo]
        BY <2>2, <1>0, <1>1, <1>k, <1>r
      <3> QED  BY <3>1, <1>11, Zenon
    <2> QED  BY <2>1, <2>2, <1>1
  <1>18. ASSUME NEW c \in Conns
         PROVE  /\ Increases(out'[c])
                /\ \A i \in DOMAIN out'[c] :
                      /\ out'[c][i] <= written'[c]
                      /\ \A j \in DOMAIN batch' : batch'[j].conn = c => out'[c][i] < batch'[j].n
                /\ Len(out'[c]) + Cardinality(PacketsOf(c, DOMAIN batch)') + dropped'[c] = written'[c]
    <2>0. /\ Cardinality(PacketsOf(c, DOMAIN batch)) = IF c = d THEN L ELSE 0
          /\ Cardinality(PacketsOf(c, DOMAIN batch)') = IF c = d THEN L - k ELSE 0
      <3>1. \A i \in DOMAIN batch : batch[i].conn = d
        BY <1>0, <1>d, Zenon
      <3>2. Cardinality({i \in DOMAIN batch : batch[i].conn = c}) = IF c = d THEN Len(batch) ELSE 0
        BY <1>0, <3>1, CountIn, Zenon
      <3>3. Cardinality({i \in DOMAIN batch' : batch'[i].conn = c}) = IF c = d THEN Len(batch') ELSE 0
        BY <1>4, <1>8, CountIn, ZenonT(30)
      <3> QED  BY <3>2, <3>3, <1>4, Zenon DEF PacketsOf, L
    <2>1. CASE c # d
      <3>1. out'[c] = out[c] /\ \A j \in DOMAIN batch' : batch'[j].conn # c
        BY <2>1, <1>1, <1>5, <1>8, Zenon
      <3> QED  BY <2>0, <2>1, <3>1, Zenon DEF PacketsInOrder
    <2>2. CASE c = d
      <3>1. out'[c] = r /\ DOMAIN r = 1..(lo + k)
        BY <2>2, <1>0, <1>1, <1>5, <1>6
      <3>2. Increases(out'[c])
        BY <3>1, <1>13, Zenon DEF Increases
      <3>3. \A i \in DOMAIN out'[c] :
               /\ out'[c][i] <= written'[c]
               /\ \A j \in DOMAIN batch' : batch'[j].conn = c => out'[c][i] < batch'[j].n
        BY <2>2, <3>1, <1>13, <1>14, <1>17, <1>d
      <3>4. Len(out'[c]) + Cardinality(PacketsOf(c, DOMAIN batch)') + dropped'[c] = written'[c]
        <4>1. lo + L + dropped[d] = written[d]
          BY <2>0, <2>2, Zenon DEF PacketsInOrder, o, lo
        <4>2. dropped[d] \in Nat
          BY <1>0, Zenon DEF NobodyForgotten, TypeOK, SentOK
        <4> DEFINE dd == dropped[d]  w == written[d]
        <4> HIDE DEF dd, w
        <4>3. (lo + k) + (L - k) + dd = w
          BY <4>1, <4>2, <1>0, <1>1, <1>k DEF dd, w
        <4>4. Len(r) + (L - k) + dropped[d] = written[d]
          BY <4>3, <1>6, Zenon DEF dd, w
        <4> QED  BY <4>4, <2>0, <2>2, <3>1, Zenon
      <3> QED  BY <3>2, <3>3, <3>4, Zenon
    <2> QED  BY <2>1, <2>2, Zenon
  <1> QED  BY <1>4, <1>7, <1>8, <1>15, <1>16, <1>18, Zenon DEF PacketsInOrder, d, L

\* The packets that are not too big stay in the batch, in their order.
LEMMA OrderDropSome ==
    ASSUME NobodyForgotten, PacketsInOrder, Sending, NEW I \in SUBSET (DOMAIN batch), NEW f \in Enumerations(I),
           batch' = Kept(batch, f), Drop(DOMAIN batch \ I), UNCHANGED <<written, out>>
    PROVE  /\ PacketsInOrder' /\ SentOK' /\ BatchOK'
           /\ \A i \in DOMAIN batch' : batch'[i].conn = Sender
  <1> DEFINE d == Sender  L == Len(batch)  m == Cardinality(I)  D == DOMAIN batch
  <1>0. d \in Conns /\ batch \in Seq(Packets) /\ L \in Nat /\ L <= MAX_BATCH /\ \A i \in D : batch[i].conn = d
    BY SenderOwnsBatch DEF NobodyForgotten, TypeOK, BatchOK
  <1>1. D = 1..L /\ IsFiniteSet(D) /\ Cardinality(D) = L
    <2>1. D = 1..L
      BY <1>0
    <2>2. IsFiniteSet(1..L) /\ Cardinality(1..L) = IF 1 > L THEN 0 ELSE L - 1 + 1
      BY <1>0, FS_Interval, SMTT(30)
    <2> QED  BY <1>0, <2>1, <2>2
  <1>2. /\ IsFiniteSet(I) /\ m \in Nat /\ m <= L
        /\ Cardinality(D \ I) = L - m
    <2>1. IsFiniteSet(I) /\ Cardinality(I) <= Cardinality(D)
      BY <1>1, FS_Subset, Zenon
    <2>2. D \cap I = I
      BY Zenon
    <2>3. Cardinality(D \ I) = Cardinality(D) - Cardinality(D \cap I)
      BY <1>1, FS_Difference, Zenon
    <2> QED  BY <1>1, <2>1, <2>2, <2>3, FS_CardinalityType, Zenon
  <1>3. f \in [1..m -> I] /\ \A i, j \in 1..m : i < j => f[i] < f[j]
    BY Zenon DEF Enumerations
  <1>4. SentOK'
    <2>1. dropped' \in [Conns -> Nat]
      BY DropType, Zenon
    <2> QED  BY <2>1, Zenon DEF SentOK, NobodyForgotten, TypeOK
  <1> HIDE DEF m, L, D, d
  <1>5. batch' = [i \in 1..m |-> batch[f[i]]] /\ \A i \in 1..m : f[i] \in D /\ batch[f[i]] \in Packets
    <2>1. \A i \in D : batch[i] \in Packets
      BY <1>0 DEF D
    <2> QED  BY <2>1, <1>3, Zenon DEF Kept, D
  <1>6. batch' \in Seq(Packets) /\ Len(batch') = m /\ DOMAIN batch' = 1..m
    BY <1>2, <1>5
  <1>7. BatchOK'
    <2>1. m <= MAX_BATCH
      BY <1>0, <1>2, Bounds
    <2> QED  BY <2>1, <1>6, Zenon DEF BatchOK
  <1>8. \A i \in DOMAIN batch' : batch'[i].conn = d
    BY <1>0, <1>5, <1>6
  <1>9. Increases([i \in DOMAIN batch |-> batch[i].n])'
    <2>1. \A i, j \in D : i < j => batch[i].n < batch[j].n
      BY Zenon DEF PacketsInOrder, Increases, D
    <2>2. \A i, j \in 1..m : i < j => batch'[i].n < batch'[j].n
      BY <2>1, <1>3, <1>5
    <2> QED  BY <2>2, <1>6, Zenon DEF Increases
  <1>10. \A i \in DOMAIN batch' : batch'[i].n <= written'[batch'[i].conn]
    BY <1>5, <1>6, Zenon DEF PacketsInOrder, D
  <1>11. ASSUME NEW c \in Conns
         PROVE  /\ \A i \in DOMAIN out'[c], j \in DOMAIN batch' : batch'[j].conn = c => out'[c][i] < batch'[j].n
                /\ Len(out'[c]) + Cardinality(PacketsOf(c, DOMAIN batch)') + dropped'[c] = written'[c]
    <2>1. \A i \in DOMAIN out'[c], j \in DOMAIN batch' : batch'[j].conn = c => out'[c][i] < batch'[j].n
      <3>1. \A i \in DOMAIN out[c], j \in D : batch[j].conn = c => out[c][i] < batch[j].n
        BY Zenon DEF PacketsInOrder, D
      <3>2. \A j \in DOMAIN batch' : batch'[j] = batch[f[j]] /\ f[j] \in D
        BY <1>5, <1>6, Zenon
      <3>3. out' = out
        BY Zenon
      <3> QED  BY <3>1, <3>2, <3>3, Zenon
    <2>2. Cardinality(PacketsOf(c, D)) = IF c = d THEN L ELSE 0
      <3>1. \A i \in DOMAIN batch : batch[i].conn = d
        BY <1>0, Zenon DEF D
      <3> QED  BY <1>0, <3>1, CountIn, Zenon DEF PacketsOf, L, D
    <2>3. Cardinality(PacketsOf(c, DOMAIN batch)') = IF c = d THEN m ELSE 0
      <3>1. Cardinality({i \in DOMAIN batch' : batch'[i].conn = c}) = IF c = d THEN Len(batch') ELSE 0
        BY <1>6, <1>8, CountIn, Zenon
      <3> QED  BY <3>1, <1>6, Zenon DEF PacketsOf
    <2>4. Cardinality(PacketsOf(c, D \ I)) = IF c = d THEN L - m ELSE 0
      <3>1. D \ I \in SUBSET (DOMAIN batch) /\ \A i \in D \ I : batch[i].conn = d
        BY <1>0, Zenon DEF D
      <3> QED  BY <1>0, <1>2, <3>1, CountOf, Zenon
    <2> DEFINE l == Len(out[c])  q == dropped[c]  w == written[c]
               x == Cardinality(PacketsOf(c, D))  y == Cardinality(PacketsOf(c, DOMAIN batch)')
               z == Cardinality(PacketsOf(c, D \ I))
    <2>5. l + x + q = w /\ dropped'[c] = q + z
      BY Zenon DEF PacketsInOrder, Drop, D
    <2>6. l \in Nat /\ q \in Nat /\ w \in Nat
      <3>1. out[c] \in Seq(1..MaxPackets) /\ q \in Nat /\ w \in 0..MaxPackets
        BY Zenon DEF NobodyForgotten, TypeOK, SentOK, DataOK
      <3> QED  BY <3>1
    <2>7. x = y + z /\ x \in Nat /\ y \in Nat /\ z \in Nat
      BY <2>2, <2>3, <2>4, <1>0, <1>2
    <2> HIDE DEF l, q, w, x, y, z
    <2>8. l + y + (q + z) = w
      BY <2>5, <2>6, <2>7
    <2> QED  BY <2>1, <2>5, <2>8, Zenon DEF l, w, y
  <1>12. \A c \in Conns : Increases(out'[c]) /\ \A i \in DOMAIN out'[c] : out'[c][i] <= written'[c]
    BY Zenon DEF PacketsInOrder
  <1> QED  BY <1>4, <1>7, <1>8, <1>9, <1>10, <1>11, <1>12, Zenon DEF PacketsInOrder, d

\* ngtcp2 numbers the packets of a connection as it writes them.
LEMMA OrderWrite ==
    ASSUME NobodyForgotten, PacketsInOrder, WritePacket
    PROVE  PacketsInOrder'
  <1> DEFINE d == flushing  L == Len(batch)  w == written[d]
  <1>0. /\ d \in Conns /\ batch \in Seq(Packets) /\ L \in Nat
        /\ \A i \in DOMAIN batch : batch[i].conn = d
    BY DEF NobodyForgotten, TypeOK, BatchOK, BatchEmptyOrStalled, OneSender, InFlush, WritePacket
  <1>1. /\ written \in [Conns -> 0..MaxPackets] /\ w + 1 \in 1..MaxPackets /\ w \in Nat
        /\ written' = [written EXCEPT ![d] = w + 1] /\ out' = out /\ dropped' = dropped
    <2>1. /\ written \in [Conns -> 0..MaxPackets] /\ backlog \in [Conns -> 0..MaxPackets]
          /\ w + backlog[d] <= MaxPackets /\ backlog[d] > 0
      BY <1>0, Zenon DEF NobodyForgotten, TypeOK, DataOK, WritePacket
    <2>2. w + 1 \in 1..MaxPackets /\ w \in Nat
      BY <2>1, <1>0, Bounds
    <2> QED  BY <2>1, <2>2, Zenon DEF WritePacket, history
  <1>2. PICK size \in Sizes : batch' = Append(batch, [conn |-> d, n |-> w + 1, size |-> size])
    BY Zenon DEF WritePacket
  <1> DEFINE p == [conn |-> d, n |-> w + 1, size |-> size]
  <1>3. p \in Packets /\ p.conn = d /\ p.n = w + 1
    BY <1>0, <1>1, Zenon DEF Packets
  <1> HIDE DEF p
  <1>4. /\ batch' \in Seq(Packets) /\ Len(batch') = L + 1 /\ DOMAIN batch' = 1..(L + 1) /\ DOMAIN batch = 1..L
        /\ batch'[L + 1] = p /\ \A i \in 1..L : batch'[i] = batch[i]
    <2>1. batch' = Append(batch, p)
      BY <1>2, Zenon DEF p
    <2> QED  BY <2>1, <1>0, <1>3
  <1> HIDE DEF d, L, w
  <1>5. \A i \in 1..(L + 1) : i \in 1..L \/ i = L + 1
    BY <1>0
  <1>6. \A i \in 1..L : batch[i].n <= w /\ batch[i].n \in Nat
    <2>1. \A q \in Packets : q.n \in Nat
      BY DEF Packets
    <2>2. \A i \in 1..L : batch[i] \in Packets
      BY <1>0, <1>4
    <2> QED  BY <2>1, <2>2, <1>0, <1>4, Zenon DEF PacketsInOrder, w
  <1>7. \A i \in DOMAIN batch' : batch'[i].conn = d
    BY <1>0, <1>3, <1>4, <1>5, Zenon
  <1>8. \A i \in 1..(L + 1) : batch'[i].n <= w + 1
    BY <1>1, <1>3, <1>4, <1>5, <1>6
  <1>9. Increases([i \in DOMAIN batch |-> batch[i].n])'
    <2>1. ASSUME NEW i \in 1..(L + 1), NEW j \in 1..(L + 1), i < j
          PROVE  batch'[i].n < batch'[j].n
      <3>1. i \in 1..L
        BY <2>1, <1>0
      <3>2. CASE j \in 1..L
        BY <3>1, <3>2, <2>1, <1>4, Zenon DEF PacketsInOrder, Increases
      <3>3. CASE j = L + 1
        BY <3>1, <3>3, <1>1, <1>3, <1>4, <1>6
      <3> QED  BY <3>2, <3>3, <1>5, Zenon
    <2> QED  BY <2>1, <1>4, Zenon DEF Increases
  <1>10. \A i \in DOMAIN batch' : batch'[i].n <= written'[batch'[i].conn]
    <2>1. written'[d] = w + 1
      BY <1>0, <1>1, Zenon
    <2> QED  BY <2>1, <1>4, <1>7, <1>8, Zenon
  <1>11. ASSUME NEW c \in Conns
         PROVE  /\ Increases(out'[c])
                /\ \A i \in DOMAIN out'[c] :
                      /\ out'[c][i] <= written'[c]
                      /\ \A j \in DOMAIN batch' : batch'[j].conn = c => out'[c][i] < batch'[j].n
                /\ Len(out'[c]) + Cardinality(PacketsOf(c, DOMAIN batch)') + dropped'[c] = written'[c]
    <2>0. /\ Cardinality(PacketsOf(c, DOMAIN batch)) = IF c = d THEN L ELSE 0
          /\ Cardinality(PacketsOf(c, DOMAIN batch)') = IF c = d THEN L + 1 ELSE 0
      <3>1. Cardinality({i \in DOMAIN batch : batch[i].conn = c}) = IF c = d THEN Len(batch) ELSE 0
        BY <1>0, CountIn, Zenon
      <3>2. Cardinality({i \in DOMAIN batch' : batch'[i].conn = c}) = IF c = d THEN Len(batch') ELSE 0
        BY <1>4, <1>7, CountIn, Zenon
      <3> QED  BY <3>1, <3>2, <1>4, Zenon DEF PacketsOf, L
    <2>1. CASE c # d
      <3>1. written'[c] = written[c] /\ \A j \in DOMAIN batch' : batch'[j].conn # c
        BY <2>1, <1>1, <1>7, Zenon
      <3> QED  BY <2>0, <2>1, <3>1, <1>1, Zenon DEF PacketsInOrder
    <2>2. CASE c = d
      <3> DEFINE o == out[d]  q == dropped[d]  l == Len(o)
      <3>1. out'[c] = o /\ written'[c] = w + 1 /\ dropped'[c] = q
        BY <2>2, <1>0, <1>1, Zenon
      <3>2. o \in Seq(1..MaxPackets) /\ q \in Nat /\ l \in Nat
        BY <1>0 DEF NobodyForgotten, TypeOK, SentOK
      <3>3. \A i \in DOMAIN o : o[i] \in Nat /\ o[i] <= w /\ \A j \in 1..L : o[i] < batch[j].n
        <4>1. \A i \in DOMAIN o : o[i] \in Nat
          BY <3>2, Bounds
        <4> QED  BY <4>1, <1>0, <1>4, Zenon DEF PacketsInOrder, w
      <3>4. Increases(o) /\ l + L + q = w
        BY <2>0, <2>2, Zenon DEF PacketsInOrder, w
      <3> HIDE DEF o, q, l
      <3>5. l + (L + 1) + q = w + 1
        BY <3>2, <3>4, <1>0, <1>1
      <3>6. ASSUME NEW i \in DOMAIN o
            PROVE  o[i] <= w + 1 /\ \A j \in 1..(L + 1) : o[i] < batch'[j].n
        <4>1. o[i] <= w + 1 /\ o[i] < w + 1
          BY <3>3, <1>1
        <4> QED  BY <4>1, <3>3, <1>3, <1>4, <1>5, Zenon
      <3> QED  BY <2>0, <2>2, <3>1, <3>4, <3>5, <3>6, <1>4, Zenon DEF l
    <2> QED  BY <2>1, <2>2, Zenon
  <1> QED  BY <1>9, <1>10, <1>11, Zenon DEF PacketsInOrder

-----------------------------------------------------------------------------
(* Every action.                                                           *)

\* NobodyForgotten, with the order of the packets.
Inv == NobodyForgotten /\ InOrderOnce

LEMMA NotAborted == ASSUME InOrderOnce, phase # "aborted" PROVE PacketsInOrder
  BY Zenon DEF InOrderOnce

LEMMA InvSocketTakes == ASSUME Inv, SocketTakes PROVE Inv'
  <1>0. Sending /\ NobodyForgotten /\ PacketsInOrder /\ UNCHANGED <<dead, halted, ending, backlog, written, dropped>>
    BY NotAborted, Zenon DEF SocketTakes, Inv, Sending, ends
  <1>1. PICK k \in 1..Len(batch) :
           /\ Emit(k) /\ batch' = Unsent(k)
           /\ \/ k = Len(batch) /\ Sent("ok")
              \/ k < Len(batch) /\ retried /\ Sent("blocked")
              \/ /\ k < Len(batch) /\ ~retried /\ retried' = TRUE
                 /\ UNCHANGED <<stall, phase, flushing, n_flushed, events>>
    BY Zenon DEF SocketTakes
  <1>2. k \in 0..Len(batch) /\ Len(batch) \in Nat
    BY DEF Inv, NobodyForgotten, TypeOK, BatchOK
  <1>3. /\ PacketsInOrder' /\ SentOK' /\ BatchOK' /\ Len(batch') = Len(batch) - k
        /\ \A i \in DOMAIN batch' : batch'[i].conn = Sender
    BY <1>0, <1>1, <1>2, OrderEmit, Zenon
  <1>4. ending' \subseteq Conns /\ batch' \in Seq(Packets)
    BY <1>0, <1>3, Zenon DEF NobodyForgotten, TypeOK, EventsOK, BatchOK
  <1>5. CASE k = Len(batch) /\ Sent("ok")
    <2>1. batch' = <<>>
      BY <1>2, <1>3, <1>4, <1>5
    <2> QED  BY <1>0, <1>3, <1>4, <1>5, <2>1, ForgottenSent, Zenon DEF Inv, InOrderOnce
  <1>6. CASE k < Len(batch) /\ Sent("blocked")
    <2>1. batch' # <<>>
      BY <1>2, <1>3, <1>4, <1>6
    <2> QED  BY <1>0, <1>3, <1>4, <1>6, <2>1, ForgottenSent, Zenon DEF Inv, InOrderOnce
  <1>7. CASE /\ k < Len(batch) /\ retried' = TRUE
             /\ UNCHANGED <<stall, phase, flushing, n_flushed, events>>
    <2>1. batch' # <<>>
      BY <1>2, <1>3, <1>4, <1>7
    <2> QED  BY <1>0, <1>3, <1>4, <1>7, <2>1, ForgottenRetry, Zenon DEF Inv, InOrderOnce
  <1> QED  BY <1>1, <1>5, <1>6, <1>7, Zenon

LEMMA InvSocketBlocks == ASSUME Inv, SocketBlocks PROVE Inv'
  <1>1. /\ Sending /\ NobodyForgotten /\ PacketsInOrder /\ Sent("blocked")
        /\ UNCHANGED <<batch, dead, halted, ending, backlog, written, history>>
    BY NotAborted, Zenon DEF SocketBlocks, Inv, Sending, ends
  <1>2. PacketsInOrder'
    BY <1>1, OrderSame, Zenon
  <1>3. BatchOK' /\ SentOK' /\ ending' \subseteq Conns
    BY <1>1, Zenon DEF NobodyForgotten, TypeOK, BatchOK, SentOK, EventsOK, history
  <1>4. batch' # <<>> /\ \A i \in DOMAIN batch' : batch'[i].conn = Sender
    BY <1>1, SenderOwnsBatch, Zenon
  <1> QED  BY <1>1, <1>2, <1>3, <1>4, ForgottenSent, Zenon DEF Inv, InOrderOnce

LEMMA EndsType == ASSUME NobodyForgotten, NEW cs \in SUBSET Conns, Ends(cs) PROVE ending' \subseteq Conns /\ UNCHANGED <<dead, halted>>
  BY Zenon DEF NobodyForgotten, TypeOK, EventsOK, Ends

LEMMA InvSocketTooBig == ASSUME Inv, SocketTooBig PROVE Inv'
  <1> DEFINE fits == {i \in DOMAIN batch : batch[i].size < batch[1].size}
  <1>0. Sending /\ NobodyForgotten /\ PacketsInOrder /\ UNCHANGED <<backlog, written, out>>
    BY NotAborted, Zenon DEF SocketTooBig, Inv, Sending
  <1>1. PICK f \in Enumerations(fits) : batch' = Kept(batch, f)
    BY Zenon DEF SocketTooBig
  <1>2. fits \in SUBSET (DOMAIN batch) /\ Drop(DOMAIN batch \ fits)
    BY Zenon DEF SocketTooBig
  <1> HIDE DEF fits
  <1>3. /\ PacketsInOrder' /\ SentOK' /\ BatchOK'
        /\ \A i \in DOMAIN batch' : batch'[i].conn = Sender
    BY <1>0, <1>1, <1>2, OrderDropSome, Zenon
  <1>4. ending' \subseteq Conns /\ UNCHANGED <<dead, halted>>
    <2>1. Sender \in Conns
      BY <1>0, SenderOwnsBatch, Zenon
    <2> QED  BY <1>0, <2>1, EndsType, Zenon DEF SocketTooBig
  <1>5. CASE batch' = <<>> /\ Sent("ok")
    BY <1>0, <1>3, <1>4, <1>5, ForgottenSent, Zenon DEF Inv, InOrderOnce
  <1>6. CASE batch' # <<>> /\ retried' = FALSE /\ UNCHANGED <<stall, phase, flushing, n_flushed, events>>
    BY <1>0, <1>3, <1>4, <1>6, ForgottenRetry, Zenon DEF Inv, InOrderOnce
  <1> QED  BY <1>5, <1>6, Zenon DEF SocketTooBig

\* The batch is dropped whole.
LEMMA DroppedAll ==
    ASSUME NobodyForgotten, batch' = <<>>, Drop(DOMAIN batch), out' = out
    PROVE  SentOK' /\ BatchOK' /\ \A i \in DOMAIN batch' : batch'[i].conn = Sender
  <1>1. dropped' \in [Conns -> Nat]
    BY DropType, Zenon
  <1>2. BatchOK'
    BY Bounds DEF BatchOK
  <1> QED  BY <1>1, <1>2 DEF SentOK, NobodyForgotten, TypeOK

LEMMA InvSocketFails == ASSUME Inv, SocketFails PROVE Inv'
  <1>0. /\ Sending /\ NobodyForgotten /\ PacketsInOrder /\ UNCHANGED <<backlog, written, out>>
        /\ batch' = <<>> /\ Drop(DOMAIN batch)
    BY NotAborted, Zenon DEF SocketFails, Inv, Sending
  <1>1. SentOK' /\ BatchOK' /\ \A i \in DOMAIN batch' : batch'[i].conn = Sender
    BY <1>0, DroppedAll, Zenon
  <1>2. PacketsInOrder'
    BY <1>0, OrderDropAll, Zenon
  <1>3. ending' \subseteq Conns /\ UNCHANGED <<dead, halted>>
    <2>1. Sender \in Conns
      BY <1>0, SenderOwnsBatch, Zenon
    <2>2. CASE UNCHANGED ends
      BY <1>0, <2>2, Zenon DEF ends, NobodyForgotten, TypeOK, EventsOK
    <2>3. CASE Ends({Sender})
      BY <1>0, <2>1, <2>3, EndsType, Zenon
    <2> QED  BY <2>2, <2>3, Zenon DEF SocketFails
  <1>4. PICK ret \in {"ok", "unreachable", "failure"} : Sent(ret)
    BY Zenon DEF SocketFails
  <1>5. ret # "blocked"
    BY <1>4, Zenon
  <1> QED  BY <1>0, <1>1, <1>2, <1>3, <1>4, <1>5, ForgottenSent, Zenon DEF Inv, InOrderOnce

LEMMA EmitType ==
    ASSUME NobodyForgotten, Sending, NEW k \in 0..Len(batch), Emit(k), dropped' = dropped
    PROVE  SentOK'
  <1> DEFINE e == [i \in 1..k |-> batch[i].n]
  <1>0. Sender \in Conns /\ batch \in Seq(Packets) /\ out \in [Conns -> Seq(1..MaxPackets)] /\ dropped \in [Conns -> Nat]
    BY SenderOwnsBatch, Zenon DEF NobodyForgotten, TypeOK, BatchOK, SentOK
  <1>1. e \in Seq(1..MaxPackets)
    <2>1. \A p \in Packets : p.n \in 1..MaxPackets
      BY Zenon DEF Packets
    <2>2. \A i \in 1..k : batch[i] \in Packets
      BY <1>0
    <2> QED  BY <2>1, <2>2
  <1>2. out' = [out EXCEPT ![Sender] = out[Sender] \o e]
    BY Zenon DEF Emit
  <1> HIDE DEF e
  <1>3. out[Sender] \o e \in Seq(1..MaxPackets)
    BY <1>0, <1>1
  <1> DEFINE r == out[Sender] \o e
  <1> HIDE DEF r
  <1>4. out' \in [Conns -> Seq(1..MaxPackets)]
    BY <1>0, <1>2, <1>3, Zenon DEF r
  <1> QED  BY <1>0, <1>4, Zenon DEF SentOK

LEMMA InvManualSend == ASSUME Inv, ManualSend PROVE Inv'
  <1>0. Sending /\ phase \in {"send", "last"} /\ NobodyForgotten /\ PacketsInOrder /\ UNCHANGED <<backlog, written, dropped>>
    BY NotAborted, Zenon DEF ManualSend, Inv, Sending
  <1>1. Len(batch) \in Nat /\ batch \in Seq(Packets) /\ Sender \in Conns
    BY <1>0, SenderOwnsBatch DEF NobodyForgotten, TypeOK, BatchOK
  <1>2. CASE Emit(Len(batch)) /\ batch' = <<>> /\ Sent("ok") /\ UNCHANGED ends
    <2>1. batch' = Unsent(Len(batch))
      BY <1>1, <1>2 DEF Unsent
    <2>2. Len(batch) \in 0..Len(batch)
      BY <1>1
    <2>3. /\ PacketsInOrder' /\ SentOK' /\ BatchOK'
          /\ \A i \in DOMAIN batch' : batch'[i].conn = Sender
      BY <1>0, <1>2, <2>1, <2>2, OrderEmit, Zenon
    <2>4. ending' \subseteq Conns /\ UNCHANGED <<dead, halted>>
      BY <1>0, <1>2, Zenon DEF ends, NobodyForgotten, TypeOK, EventsOK
    <2> QED  BY <1>0, <1>2, <2>3, <2>4, ForgottenSent, Zenon DEF Inv, InOrderOnce
  <1>3. CASE /\ \E k \in 0..Len(batch) - 1 : Emit(k)
             /\ phase' = "aborted" /\ Ends({Sender})
             /\ UNCHANGED <<batch, stall, flush, events>>
    <2>1. PICK k \in 0..Len(batch) - 1 : Emit(k)
      BY <1>3, Zenon
    <2>2. k \in 0..Len(batch)
      BY <1>1
    <2>3. SentOK'
      BY <1>0, <2>1, <2>2, EmitType, Zenon
    <2>4. ending' \subseteq Conns /\ UNCHANGED <<dead, halted>>
      BY <1>0, <1>1, <1>3, EndsType, Zenon
    <2> USE <1>0, <1>3 DEF NobodyForgotten, TypeOK, stall, flush, events
    <2>5. BatchOK' /\ StallOK'
      BY Zenon DEF BatchOK, StallOK
    <2>6. FlushOK' /\ EventsOK' /\ DataOK'
      BY <2>4, Zenon DEF FlushOK, EventsOK, DataOK
    <2>7. BatchEmptyOrStalled' /\ OneSender'
      BY Zenon DEF BatchEmptyOrStalled, OneSender, InFlush
    <2>8. StallCanEnd'
      BY <2>4, Zenon DEF StallCanEnd, BatchEmptyOrStalled, InFlush
    <2>9. NoLostWakeup'
      BY <2>4, Zenon DEF NoLostWakeup
    <2> QED  BY <2>3, <2>5, <2>6, <2>7, <2>8, <2>9, Zenon DEF Inv, InOrderOnce
  <1> QED  BY <1>2, <1>3, Zenon DEF ManualSend

\* A connection's events: what has halted has none.
LEMMA ForgottenEvents ==
    ASSUME NobodyForgotten, NEW c \in Conns, on_packet_io_ready(c) \/ on_retransmit(c)
    PROVE  NobodyForgotten'
  <1>1. CASE on_packet_io_ready(c)
    <2>1. c \in Conns \ halted
      BY <1>1, Zenon DEF NobodyForgotten, StallCanEnd, on_packet_io_ready
    <2> QED  BY <1>1, <2>1, ForgottenFlush, Zenon DEF on_packet_io_ready
  <1>2. CASE on_retransmit(c)
    <2>1. c \in Conns \ halted
      BY <1>2, Zenon DEF NobodyForgotten, StallCanEnd, on_retransmit
    <2>2. CASE Flush(c) /\ UNCHANGED ends
      BY <1>2, <2>1, <2>2, ForgottenFlush, Zenon DEF on_retransmit
    <2>3. CASE /\ c \notin dead
               /\ dead' = dead \cup {c} /\ ending' = ending \cup {c}
               /\ UNCHANGED <<halted, phase, flush, waiters, waiting_on_stall>>
      <3> USE <1>2, <2>3 DEF NobodyForgotten, TypeOK, on_retransmit, flush, history
      <3>1. BatchOK' /\ StallOK'
        BY Zenon DEF BatchOK, StallOK
      <3>2. FlushOK' /\ EventsOK'
        BY Zenon DEF FlushOK, EventsOK
      <3>3. DataOK' /\ SentOK'
        BY Zenon DEF DataOK, SentOK
      <3>4. BatchEmptyOrStalled' /\ OneSender'
        BY Zenon DEF BatchEmptyOrStalled, OneSender, InFlush
      <3>5. StallCanEnd'
        BY Zenon DEF StallCanEnd
      <3>6. NoLostWakeup'
        BY Zenon DEF NoLostWakeup
      <3> QED  BY <3>1, <3>2, <3>3, <3>4, <3>5, <3>6, Zenon
    <2> QED  BY <1>2, <2>2, <2>3, Zenon DEF on_retransmit
  <1> QED  BY <1>1, <1>2, Zenon

LEMMA InvInit == Init => Inv
  <1> SUFFICES ASSUME Init PROVE InOrderOnce
    BY ForgottenInit, Zenon DEF Inv
  <1>1. batch = <<>> /\ DOMAIN batch = {}
    BY DEF Init
  <1>2. ASSUME NEW c \in Conns
        PROVE  Len(out[c]) + Cardinality(PacketsOf(c, DOMAIN batch)) + dropped[c] = written[c]
    <2>1. PacketsOf(c, DOMAIN batch) = {}
      BY <1>1, Zenon DEF PacketsOf
    <2>2. Len(out[c]) = 0 /\ dropped[c] = 0 /\ written[c] = 0
      BY Zenon DEF Init
    <2>3. Cardinality(PacketsOf(c, DOMAIN batch)) = 0
      BY <2>1, FS_EmptySet, Zenon
    <2> QED  BY <2>2, <2>3
  <1>3. \A c \in Conns : out[c] = <<>> /\ DOMAIN out[c] = {}
    BY DEF Init
  <1>4. Increases([i \in DOMAIN batch |-> batch[i].n]) /\ \A c \in Conns : Increases(out[c])
    BY <1>1, <1>3, Zenon DEF Increases
  <1> QED  BY <1>1, <1>2, <1>3, <1>4, Zenon DEF InOrderOnce, PacketsInOrder

\* The invariant is inductive: one step for each action.
LEMMA InvStep == Inv /\ [Next]_vars => Inv'
  <1> SUFFICES ASSUME Inv, [Next]_vars PROVE Inv'
    BY Zenon
  <1>0. NobodyForgotten /\ InOrderOnce
    BY Zenon DEF Inv
  <1>1. ASSUME NEW c \in Conns, packet_io_ready(c) \/ Ending(c) \/ halt_events(c) PROVE Inv'
    <2>1. NobodyForgotten'
      BY <1>0, <1>1, ForgottenReady, ForgottenEnding, ForgottenHalt, Zenon
    <2>2. phase = "idle" /\ UNCHANGED <<batch, written, history>>
      BY <1>1, Zenon DEF packet_io_ready, Ending, halt_events, history
    <2> QED  BY <1>0, <2>1, <2>2, NotAborted, OrderSame, Zenon DEF Inv, InOrderOnce
  <1>2. ASSUME NEW c \in Conns, on_packet_io_ready(c) \/ on_retransmit(c) PROVE Inv'
    <2>1. NobodyForgotten'
      BY <1>0, <1>2, ForgottenEvents, Zenon
    <2>2. phase = "idle" /\ UNCHANGED <<batch, written, history>>
      BY <1>2, Zenon DEF on_packet_io_ready, on_retransmit, history
    <2> QED  BY <1>0, <2>1, <2>2, NotAborted, OrderSame, Zenon DEF Inv, InOrderOnce
  <1>3. ASSUME WritePacket PROVE Inv'
    <2>1. NobodyForgotten'
      BY <1>0, <1>3, ForgottenWritePacket, Zenon
    <2>2. PacketsInOrder
      BY <1>0, <1>3, NotAborted, Zenon DEF WritePacket
    <2> QED  BY <1>0, <1>3, <2>1, <2>2, OrderWrite, Zenon DEF Inv, InOrderOnce
  <1>4. ASSUME WriteDone PROVE Inv'
    <2>1. NobodyForgotten'
      BY <1>0, <1>4, ForgottenWriteDone, Zenon
    <2>2. phase # "aborted" /\ UNCHANGED <<batch, written, history>>
      BY <1>4, Zenon DEF WriteDone, history
    <2> QED  BY <1>0, <2>1, <2>2, NotAborted, OrderSame, Zenon DEF Inv, InOrderOnce
  <1>5. ASSUME WriteFails PROVE Inv'
    <2>1. NobodyForgotten'
      BY <1>0, <1>5, ForgottenWriteFails, Zenon
    <2>2. PacketsInOrder
      BY <1>0, <1>5, NotAborted, Zenon DEF WriteFails
    <2>3. PacketsInOrder'
      BY <1>0, <1>5, <2>2, OrderDropAll, Zenon DEF WriteFails
    <2> QED  BY <2>1, <2>3, Zenon DEF Inv, InOrderOnce
  <1>6. ASSUME resume_stalled_send PROVE Inv'
    <2>1. NobodyForgotten'
      BY <1>0, <1>6, ForgottenResume, Zenon
    <2>2. PacketsInOrder
      BY <1>0, <1>6, NotAborted, Zenon DEF resume_stalled_send
    <2>3. PacketsInOrder'
      <3>1. CASE UNCHANGED <<batch, dropped>>
        BY <1>6, <2>2, <3>1, OrderSame, Zenon DEF resume_stalled_send, history
      <3>2. CASE batch' = <<>> /\ Drop(DOMAIN batch)
        BY <1>0, <1>6, <2>2, <3>2, OrderDropAll, Zenon DEF resume_stalled_send
      <3> QED  BY <1>6, <3>1, <3>2, Zenon DEF resume_stalled_send
    <2> QED  BY <2>1, <2>3, Zenon DEF Inv, InOrderOnce
  <1>7. ASSUME UNCHANGED vars PROVE Inv'
    <2> USE <1>0, <1>7 DEF vars, stall, flush, events, ends, history
    <2>1. BatchOK' /\ StallOK' /\ FlushOK' /\ EventsOK' /\ DataOK' /\ SentOK'
      BY Zenon DEF NobodyForgotten, TypeOK, BatchOK, StallOK, FlushOK, EventsOK, DataOK, SentOK
    <2>2. BatchEmptyOrStalled' /\ OneSender' /\ StallCanEnd' /\ NoLostWakeup'
      BY Zenon DEF NobodyForgotten, BatchEmptyOrStalled, OneSender, StallCanEnd, NoLostWakeup, InFlush
    <2>3. InOrderOnce'
      BY ZenonT(30) DEF InOrderOnce, PacketsInOrder, PacketsOf, Increases
    <2> QED  BY <2>1, <2>2, <2>3, Zenon DEF Inv, NobodyForgotten, TypeOK
  <1> QED  BY <1>1, <1>2, <1>3, <1>4, <1>5, <1>6, <1>7, InvSocketTakes, InvSocketBlocks, InvSocketTooBig,
              InvSocketFails, InvManualSend, Zenon DEF Next

-----------------------------------------------------------------------------
(* The theorems.                                                           *)

\* Between two handlers the batch is empty, or stalled with exactly one callback
\* that will resume it, its packets are those of one live connection, and every
\* connection with something to send has an event that will make it flush
\* (flush_packets, stall_send, resume_stalled_send, forget_send_stall).
THEOREM NobodyIsForgotten == Spec => []NobodyForgotten
  <1>1. Inv => NobodyForgotten
    BY Zenon DEF Inv
  <1> QED  BY <1>1, InvInit, InvStep, PTL DEF Spec

\* The packets of a connection leave in the order they were written and none
\* twice, and none is lost without being counted as dropped, whatever the socket
\* accepts of a batch (send_packets, drop_packets_from).
THEOREM PacketsGoOutInOrder == Spec => []InOrderOnce
  <1>1. Inv => InOrderOnce
    BY Zenon DEF Inv
  <1> QED  BY <1>1, InvInit, InvStep, PTL DEF Spec

\* No step sends a packet of a connection that is dead or whose events were
\* halted: the packets it left in a stalled batch are discarded.
THEOREM TheDeadSendNothing == Spec => DeadSendNothing
  <1>1. Inv /\ [Next]_vars => [SendsNothing]_vars
    <2> SUFFICES ASSUME Inv, Next PROVE SendsNothing
      BY Zenon
    <2>0. NobodyForgotten
      BY Zenon DEF Inv
    <2>1. ASSUME out' = out PROVE SendsNothing
      BY <2>1, Zenon DEF SendsNothing
    <2>2. ASSUME Sending, NEW k, Emit(k) PROVE SendsNothing
      <3>1. Sender \notin dead \cup halted
        BY <2>0, <2>2, SenderOwnsBatch, Zenon
      <3>2. dead \cup halted \subseteq Conns /\ out \in [Conns -> Seq(1..MaxPackets)]
        BY <2>0, Zenon DEF NobodyForgotten, TypeOK, EventsOK, SentOK
      <3> QED  BY <2>2, <3>1, <3>2, Zenon DEF Emit, SendsNothing
    <2>3. CASE SocketTakes \/ ManualSend
      BY <2>2, <2>3, Zenon DEF SocketTakes, ManualSend, Sending
    <2>4. CASE ~(SocketTakes \/ ManualSend)
      <3>1. out' = out
        BY <2>4, Zenon DEF Next, packet_io_ready, on_packet_io_ready, on_retransmit, Ending, halt_events, WritePacket,
                    WriteDone, WriteFails, SocketBlocks, SocketTooBig, SocketFails, resume_stalled_send, history
      <3> QED  BY <3>1, <2>1, Zenon
    <2> QED  BY <2>3, <2>4, Zenon
  <1> QED  BY <1>1, InvInit, InvStep, PTL DEF Spec, DeadSendNothing
=============================================================================

-------------------------- MODULE StreamSend_proofs --------------------------
(***************************************************************************)
(* Proofs that the stream's byte accounting (StreamSend) is right for every *)
(* buffer size, offer size and watermark.  IndInv is inductive: first the  *)
(* steps that move a byte counter, the send point or the queue (send,      *)
(* withdraw, pending, wrote, acknowledge), then the others, and the        *)
(* theorems follow.  The last part proves that StreamSend implements the   *)
(* abstract byte stream (ByteStream): every step of the bookkeeping is one *)
(* step of the abstract stream, or none.                                   *)
(***************************************************************************)
EXTENDS StreamSend, TLAPS

\* Sequences with the same elements, the tail of one, and one with an element replaced.
LEMMA SameSeq ==
    ASSUME NEW S, NEW s \in Seq(S), NEW t \in Seq(S), Len(s) = Len(t),
           \A i \in 1 .. Len(s) : s[i] = t[i]
    PROVE  s = t
OBVIOUS

LEMMA TailSeq ==
    ASSUME NEW S, NEW s \in Seq(S), s # <<>>
    PROVE  /\ Tail(s) \in Seq(S) /\ Len(Tail(s)) = Len(s) - 1
           /\ \A i \in 1 .. Len(s) - 1 : Tail(s)[i] = s[i + 1]
OBVIOUS

LEMMA ReplacedSeq ==
    ASSUME NEW S, NEW s \in Seq(S), NEW k \in 1 .. Len(s), NEW e \in S
    PROVE  /\ [s EXCEPT ![k] = e] \in Seq(S) /\ Len([s EXCEPT ![k] = e]) = Len(s)
           /\ \A i \in 1 .. Len(s) : [s EXCEPT ![k] = e][i] = IF i = k THEN e ELSE s[i]
OBVIOUS

\* A step that leaves the queue, the counters and ngtcp2's byte counts alone
\* keeps every relation between them.
LEMMA Frame ==
    ASSUME IndInv, UNCHANGED <<buffers, fed, net_sent, net_acked>>,
           AckLeft' = AckLeft, WroteLeft' = WroteLeft
    PROVE  Contiguous' /\ Ordered' /\ SendPoint' /\ NetInStep' /\ OnlyFrontTrimmed'
<1> USE DEF IndInv, buffers, Count, Buf
<1>1. Contiguous'
    BY Zenon DEF Contiguous
<1>2. Ordered'
    BY Zenon DEF Ordered
<1>3. SendPoint'
    BY Zenon DEF SendPoint
<1>4. NetInStep' /\ OnlyFrontTrimmed'
    BY Zenon DEF NetInStep, OnlyFrontTrimmed
<1> QED BY <1>1, <1>2, <1>3, <1>4, Zenon

\* check_watermark leaves the alarm state in the documented band, from any
\* earlier alarm state.
LEMMA CheckWatermark ==
    ASSUME NEW w \in Marks \cup {NoMarks}, NEW a \in BOOLEAN, NEW n \in Nat
    PROVE  /\ check_watermark(w, a, n) \in BOOLEAN
           /\ w # NoMarks => IF check_watermark(w, a, n) THEN n > w.clear ELSE n < w.alarm
BY MarksAssumption DEF check_watermark, NoMarks

\* The spans' fields are naturals, and no span is empty.
LEMMA BufferTypes ==
    ASSUME TypeOK
    PROVE  /\ Count \in Nat
           /\ \A i \in 1 .. Count :
                /\ user_buffers[i] \in Buffer
                /\ user_buffers[i].pos \in Nat /\ user_buffers[i].size \in Nat
                /\ user_buffers[i].len \in Nat /\ user_buffers[i].len > 0
<1>1. Count \in Nat /\ \A i \in 1 .. Count : user_buffers[i] \in Buffer
    BY DEF TypeOK, Count
<1> QED BY <1>1 DEF Buffer

\* The counters are naturals.
LEMMA CounterTypes ==
    ASSUME TypeOK
    PROVE  /\ fed \in Nat /\ unsent_size \in Nat /\ acked_bytes \in Nat
           /\ unacked_size \in Nat /\ current_buffer_index \in Nat
           /\ current_buffer_offset \in Nat /\ front_trimmed \in Nat
           /\ left \in Nat /\ AckLeft \in Nat /\ WroteLeft \in Nat
           /\ offer_next \in Nat /\ offer_total \in Nat
           /\ net_sent \in Nat /\ net_acked \in Nat
BY Zenon DEF TypeOK, AckLeft, WroteLeft

\* Where the send point lies among the spans: spans before it are sent, spans
\* after it are not.
LEMMA SendPointSplits ==
    ASSUME IndInv, NEW i \in 1 .. Count
    PROVE  /\ i <= current_buffer_index =>
                user_buffers[i].pos + user_buffers[i].len
                  <= acked_bytes + unacked_size - WroteLeft
           /\ i > current_buffer_index + 1 =>
                user_buffers[i].pos > acked_bytes + unacked_size - WroteLeft
<1> USE CounterTypes, BufferTypes DEF IndInv
<1>1. CASE current_buffer_index < Count
    BY <1>1 DEF SendPoint, Ordered, Buf
<1>2. CASE ~(current_buffer_index < Count)
    BY <1>2 DEF SendPoint, Ordered
<1> QED BY <1>1, <1>2, Zenon

\* The queue after withdraw(): one span fewer, those behind it moved up.
LEMMA WithoutSpec ==
    ASSUME TypeOK, NEW i \in 0 .. Count - 1, user_buffers' = Without(i)
    PROVE  /\ Count' = Count - 1
           /\ \A j \in 1 .. Count - 1 : j <= i => user_buffers'[j] = user_buffers[j]
           /\ \A j \in 1 .. Count - 1 : j > i =>
                user_buffers'[j] = [user_buffers[j + 1] EXCEPT !.pos = @ - user_buffers[i + 1].len]
BY BufferTypes DEF Without, Buf, Count

\* withdraw() takes a buffer of which nothing has been written or acknowledged.
LEMMA WithdrawPoint ==
    ASSUME TypeOK, NEW i \in 0 .. Count - 1, Withdraw(i)
    PROVE  /\ WroteLeft = 0 /\ current_buffer_index <= i
           /\ i = current_buffer_index =>
                current_buffer_offset = 0 /\ (i = 0 => front_trimmed = 0)
<1>1. pc = "idle" /\ FirstUnsent <= i
    BY Zenon DEF Withdraw
<1>2. WroteLeft = 0
    BY <1>1, Zenon DEF WroteLeft
<1>3. /\ current_buffer_index \in Nat /\ current_buffer_offset \in Nat
      /\ front_trimmed \in Nat /\ Count \in Nat
    BY CounterTypes, BufferTypes, Zenon
<1>4. /\ current_buffer_index <= i
      /\ i = current_buffer_index =>
           current_buffer_offset = 0 /\ (i = 0 => front_trimmed = 0)
    BY <1>1, <1>3 DEF FirstUnsent
<1> QED BY <1>2, <1>4, Zenon

LEMMA WithdrawBehind ==
    ASSUME IndInv, NEW i \in 0 .. Count - 1, Withdraw(i)
    PROVE  user_buffers[i + 1].pos >= acked_bytes + unacked_size
<1>1. TypeOK /\ SendPoint
    BY Zenon DEF IndInv
<1>2. /\ WroteLeft = 0 /\ current_buffer_index <= i
      /\ i = current_buffer_index => current_buffer_offset = 0
    BY <1>1, WithdrawPoint, Zenon
<1>3. /\ Count \in Nat /\ current_buffer_index \in Nat /\ acked_bytes \in Nat
      /\ unacked_size \in Nat
    BY <1>1, CounterTypes, BufferTypes, Zenon
<1>4. i + 1 \in 1 .. Count /\ i \in Nat
    BY <1>3
<1>5. user_buffers[i + 1].pos \in Nat
    BY <1>1, <1>4, BufferTypes, Zenon
<1>6. CASE i = current_buffer_index
  <2>1. Buf(i).pos + 0 = acked_bytes + unacked_size - 0
    BY <1>1, <1>2, <1>3, <1>4, <1>6 DEF SendPoint
  <2> QED BY <1>3, <1>5, <2>1 DEF Buf
<1>7. CASE i > current_buffer_index
  <2>1. i + 1 > current_buffer_index + 1
    BY <1>3, <1>7
  <2>2. user_buffers[i + 1].pos > acked_bytes + unacked_size - WroteLeft
    BY <1>4, <2>1, SendPointSplits, Zenon
  <2> QED BY <1>2, <1>3, <1>5, <2>2
<1> QED BY <1>2, <1>3, <1>6, <1>7

\* The queue after the front span was trimmed.
LEMMA TrimSpec ==
    ASSUME TypeOK, Count > 0, NEW c \in Buffer,
           user_buffers' = [user_buffers EXCEPT ![1] = c]
    PROVE  /\ user_buffers' \in Seq(Buffer) /\ Count' = Count /\ user_buffers'[1] = c
           /\ \A i \in 1 .. Count : i # 1 => user_buffers'[i] = user_buffers[i]
<1>1. user_buffers \in Seq(Buffer) /\ 1 \in 1 .. Len(user_buffers)
    BY BufferTypes DEF TypeOK, Count
<1>2. /\ user_buffers' \in Seq(Buffer) /\ Len(user_buffers') = Len(user_buffers)
      /\ \A i \in 1 .. Len(user_buffers) :
           user_buffers'[i] = IF i = 1 THEN c ELSE user_buffers[i]
    BY <1>1, ReplacedSeq
<1> QED BY <1>1, <1>2, Zenon DEF Count

\* The fresh stream satisfies the invariant.
LEMMA InitInv == Init => IndInv
<1> SUFFICES ASSUME Init PROVE IndInv
    BY Zenon
<1> USE FlagsAssumption DEF Init
<1>1. TypeOK
  <2>1. user_buffers \in Seq(Buffer)
    OBVIOUS
  <2>2. trigger \in BOOLEAN
    BY Zenon
  <2> QED BY <2>1, <2>2, Zenon DEF TypeOK
<1>2. Contiguous /\ Ordered /\ OnlyFrontTrimmed
    BY DEF Contiguous, Ordered, OnlyFrontTrimmed, Count, AckLeft
<1>3. SendPoint /\ NetInStep /\ EarlyUnacked /\ OfferReach /\ WatermarkExact
    BY DEF SendPoint, NetInStep, EarlyUnacked, OfferReach, WatermarkExact, Count,
           WroteLeft, NoMarks
<1> QED BY <1>1, <1>2, <1>3, Zenon DEF IndInv

\* send(): the new buffer lies behind everything else.
LEMMA SendInv ==
    ASSUME IndInv, NEW n \in 1 .. MaxSize, Send(n)
    PROVE  IndInv'
<1> DEFINE b == [id |-> sends', size |-> n, len |-> n,
                 pos |-> acked_bytes + unacked_size + unsent_size]
<1> USE DEF IndInv
<1>0. n \in Nat \ {0}
    BY BoundsAssumption
<1>1. TypeOK'
  <2>1. b \in Buffer
    BY <1>0 DEF Send, TypeOK, Buffer
  <2>2. user_buffers' \in Seq(Buffer)
    BY <2>1 DEF Send, TypeOK
  <2>3. watermark_alarm' \in BOOLEAN
    BY <1>0, CheckWatermark DEF Send, TypeOK
  <2>4. trigger' \in BOOLEAN
    BY Zenon DEF Send, TypeOK
  <2> QED BY <1>0, <2>2, <2>3, <2>4 DEF Send, TypeOK, flags, offer, net
<1>2. /\ Count' = Count + 1
      /\ \A i \in 1 .. Count : user_buffers'[i] = user_buffers[i]
      /\ user_buffers'[Count + 1] = b
    BY DEF Send, TypeOK, Count
<1>3. /\ fed' = fed + n /\ unsent_size' = unsent_size + n
      /\ UNCHANGED <<acked_bytes, unacked_size, current_buffer_index,
                     current_buffer_offset, front_trimmed, watermarking>>
      /\ AckLeft' = AckLeft /\ AckLeft = 0 /\ WroteLeft' = WroteLeft
      /\ watermark_alarm' = check_watermark(watermarking, watermark_alarm, unsent_size')
    BY Zenon DEF Send, AckLeft, WroteLeft, AppTurn
<1>4. b.pos = fed /\ b.len = n /\ b.size = n
    BY Zenon DEF SendPoint
<1> HIDE DEF b
<1>5. Contiguous'
    BY <1>0, <1>2, <1>3, <1>4, CounterTypes, BufferTypes, SMTT(20) DEF Contiguous
<1>6. Ordered'
    BY <1>0, <1>2, <1>3, <1>4, CounterTypes, BufferTypes DEF Ordered
<1>7. SendPoint'
    BY <1>0, <1>2, <1>3, <1>4, CounterTypes, BufferTypes DEF SendPoint, Contiguous, Buf
<1>8. NetInStep' /\ EarlyUnacked' /\ OfferReach'
    BY Zenon DEF Send, NetInStep, EarlyUnacked, OfferReach, AppTurn, net
<1>9. OnlyFrontTrimmed'
    BY <1>0, <1>2, <1>3, <1>4, CounterTypes, BufferTypes DEF OnlyFrontTrimmed
<1>10. WatermarkExact'
  <2>1. /\ watermarking' = watermarking /\ watermarking \in Marks \cup {NoMarks}
        /\ watermark_alarm \in BOOLEAN /\ unsent_size' \in Nat
        /\ watermark_alarm' = check_watermark(watermarking, watermark_alarm, unsent_size')
    BY <1>0, <1>3, CounterTypes DEF TypeOK
  <2> QED BY <2>1, CheckWatermark, Zenon DEF WatermarkExact
<1> QED BY <1>1, <1>5, <1>6, <1>7, <1>8, <1>9, <1>10, Zenon

\* withdraw(): the buffer taken out is wholly behind the send point.
LEMMA WithdrawInv ==
    ASSUME IndInv, NEW i \in 0 .. Count - 1, Withdraw(i)
    PROVE  IndInv'
<1> DEFINE n == user_buffers[i + 1].len
<1> USE DEF IndInv
<1>1. /\ fed' = fed - n /\ unsent_size' = unsent_size - n
      /\ UNCHANGED <<acked_bytes, unacked_size, current_buffer_index,
                     current_buffer_offset, front_trimmed, watermarking>>
      /\ AckLeft' = AckLeft /\ AckLeft = 0 /\ WroteLeft' = WroteLeft /\ WroteLeft = 0
      /\ watermark_alarm' = check_watermark(watermarking, watermark_alarm, unsent_size')
      /\ user_buffers' = Without(i)
    BY Zenon DEF Withdraw, AckLeft, WroteLeft, Buf
<1>2. /\ i \in Nat /\ i < Count /\ current_buffer_index <= i
      /\ i = current_buffer_index =>
           current_buffer_offset = 0 /\ (i = 0 => front_trimmed = 0)
  <2>1. Count \in Nat
    BY BufferTypes, Zenon
  <2>2. i \in Nat /\ i < Count
    BY <2>1
  <2> QED BY <2>2, WithdrawPoint, Zenon
<1>3. /\ n \in Nat /\ n > 0 /\ n <= unsent_size
      /\ user_buffers[i + 1].pos >= acked_bytes + unacked_size
      /\ user_buffers[i + 1].pos + n <= fed
  <2>1. user_buffers[i + 1].pos + n <= fed /\ n \in Nat /\ n > 0
    BY <1>2, BufferTypes DEF Ordered
  <2>2. user_buffers[i + 1].pos >= acked_bytes + unacked_size
    BY WithdrawBehind, Zenon
  <2>3. acked_bytes + unacked_size + unsent_size = fed /\ user_buffers[i + 1].pos \in Nat
    BY <1>2, BufferTypes DEF SendPoint
  <2>4. /\ acked_bytes \in Nat /\ unacked_size \in Nat /\ unsent_size \in Nat
        /\ fed \in Nat
    BY CounterTypes, Zenon
  <2> HIDE DEF IndInv, n
  <2> QED BY <2>1, <2>2, <2>3, <2>4
<1>4. /\ Count' = Count - 1
      /\ \A j \in 1 .. Count - 1 : j <= i => user_buffers'[j] = user_buffers[j]
      /\ \A j \in 1 .. Count - 1 : j > i =>
            user_buffers'[j] = [user_buffers[j + 1] EXCEPT !.pos = @ - n]
    BY <1>1, WithoutSpec, Zenon
<1>5. \A j \in 1 .. Count - 1 : j > i =>
         /\ user_buffers'[j].pos = user_buffers[j + 1].pos - n
         /\ user_buffers'[j].len = user_buffers[j + 1].len
         /\ user_buffers'[j].size = user_buffers[j + 1].size
         /\ user_buffers'[j].pos \in Nat
         /\ user_buffers'[j] \in Buffer
  <2> SUFFICES ASSUME NEW j \in 1 .. Count - 1, j > i
               PROVE  /\ user_buffers'[j].pos = user_buffers[j + 1].pos - n
                      /\ user_buffers'[j].len = user_buffers[j + 1].len
                      /\ user_buffers'[j].size = user_buffers[j + 1].size
                      /\ user_buffers'[j].pos \in Nat
                      /\ user_buffers'[j] \in Buffer
    BY Zenon
  <2>1. user_buffers[j + 1] \in Buffer /\ user_buffers[j + 1].pos - n \in Nat
    BY <1>2, <1>3, BufferTypes DEF Ordered
  <2> QED BY <1>4, <2>1, ZenonT(30) DEF Buffer
<1> HIDE DEF n
<1>6. TypeOK'
  <2>1. user_buffers' \in Seq(Buffer)
    <3>1. user_buffers' = [j \in 1 .. Count - 1 |-> user_buffers'[j]]
      BY <1>1, Zenon DEF Without
    <3>2. \A j \in 1 .. Count - 1 : user_buffers'[j] \in Buffer
      BY <1>2, <1>4, <1>5, BufferTypes
    <3> QED BY <1>2, <3>1, <3>2, BufferTypes, SMTT(20)
  <2>2. unsent_size' \in Nat /\ fed' \in Nat
    BY <1>1, <1>3, CounterTypes, BufferTypes
  <2>3. watermark_alarm' \in BOOLEAN
    BY <1>1, <2>2, CheckWatermark, Zenon DEF TypeOK
  <2> QED BY <2>1, <2>2, <2>3, SMTT(20) DEF Withdraw, TypeOK, flags, offer, net
<1>7. Contiguous'
    BY <1>1, <1>2, <1>3, <1>4, <1>5, CounterTypes, BufferTypes, SMTT(20) DEF Contiguous, n
<1>8. Ordered'
  <2>1. \A j \in 1 .. Count - 1 :
           user_buffers'[j].pos + user_buffers'[j].len <= fed - n
    BY <1>2, <1>3, <1>4, <1>5, CounterTypes, BufferTypes, SMTT(20) DEF Ordered, n
  <2>2. ASSUME NEW j \in 1 .. Count - 1, NEW k \in 1 .. Count - 1, j < k
        PROVE  user_buffers'[j].pos + user_buffers'[j].len <= user_buffers'[k].pos
    <3>1. CASE k <= i
      BY <1>2, <1>4, <2>2, <3>1, BufferTypes DEF Ordered
    <3>2. CASE j <= i /\ i < k
      <4>1. /\ user_buffers[j].pos + user_buffers[j].len <= user_buffers[i + 1].pos
            /\ user_buffers[i + 1].pos + n <= user_buffers[k + 1].pos
        BY <1>2, <2>2, <3>2, BufferTypes DEF Ordered, n
      <4> QED BY <1>2, <1>3, <1>4, <1>5, <3>2, <4>1, BufferTypes
    <3>3. CASE i < j
      BY <1>2, <1>3, <1>5, <2>2, <3>3, BufferTypes, SMTT(30) DEF Ordered
    <3> QED BY <1>2, <2>2, <3>1, <3>2, <3>3
  <2> QED BY <1>1, <1>4, <2>1, <2>2, Zenon DEF Ordered
<1>9. SendPoint'
    BY <1>1, <1>2, <1>3, <1>4, <1>5, CounterTypes, BufferTypes, SMTT(30)
    DEF SendPoint, Contiguous, Buf, n
<1>10. OnlyFrontTrimmed'
    BY <1>1, <1>2, <1>3, <1>4, <1>5, CounterTypes, BufferTypes DEF OnlyFrontTrimmed, n
<1>11. NetInStep' /\ EarlyUnacked' /\ OfferReach'
    BY Zenon DEF Withdraw, NetInStep, EarlyUnacked, OfferReach, net
<1>12. WatermarkExact'
    BY <1>1, <1>6, CheckWatermark, Zenon DEF TypeOK, WatermarkExact
<1> QED BY <1>6, <1>7, <1>8, <1>9, <1>10, <1>11, <1>12, Zenon

\* pending(): the offer starts at the send point and grows span by span.
LEMMA FlushBeginInv ==
    ASSUME IndInv, FlushBegin
    PROVE  IndInv'
<1> USE DEF IndInv
<1>1. TypeOK'
    BY BufferTypes DEF FlushBegin, TypeOK, buffers, flags, marks, net, ghosts
<1>2. AckLeft' = AckLeft /\ WroteLeft' = WroteLeft
    BY Zenon DEF FlushBegin, AckLeft, WroteLeft
<1>3. Contiguous' /\ Ordered' /\ SendPoint' /\ NetInStep' /\ OnlyFrontTrimmed'
    BY <1>2, Frame, Zenon DEF FlushBegin, net, ghosts
<1>4. EarlyUnacked' /\ WatermarkExact'
    BY Zenon DEF FlushBegin, EarlyUnacked, WatermarkExact, buffers, marks
<1>5. OfferReach'
  <2>1. WroteLeft = 0
    BY Zenon DEF FlushBegin, WroteLeft
  <2>2. current_buffer_index <= Count /\ (unsent_size = 0 => current_buffer_index = Count)
    BY <2>1, CounterTypes, BufferTypes DEF SendPoint, Ordered, Buf
  <2>3. /\ UNCHANGED <<user_buffers, current_buffer_index, unsent_size>>
        /\ offer_total' = 0
        /\ offer_next' = IF unsent_size = 0 THEN Count ELSE current_buffer_index
    BY Zenon DEF FlushBegin, buffers
  <2>4. Count \in Nat /\ current_buffer_index \in Nat /\ unsent_size \in Nat
    BY CounterTypes, BufferTypes, Zenon
  <2> HIDE DEF IndInv
  <2> QED BY <2>2, <2>3, <2>4 DEF OfferReach, Count
<1> QED BY <1>1, <1>3, <1>4, <1>5, Zenon

\* pending(): one iteration adds what is left of the next span to the offer.
LEMMA PendingNextInv ==
    ASSUME IndInv, PendingNext
    PROVE  IndInv'
<1> USE DEF IndInv
<1>1. /\ offer_next < Count /\ current_buffer_index <= offer_next
      /\ WroteLeft = 0 /\ unsent_size > 0
      /\ offer_next' = offer_next + 1
      /\ offer_total' = offer_total + user_buffers[offer_next + 1].len
                          - IF offer_next = current_buffer_index
                              THEN current_buffer_offset ELSE 0
      /\ offer_total = IF offer_next = current_buffer_index THEN 0
                       ELSE user_buffers[offer_next + 1].pos - acked_bytes - unacked_size
    BY CounterTypes, BufferTypes
    DEF PendingNext, Remaining, OfferReach, StartOf, Buf, WroteLeft
<1>2. /\ user_buffers[offer_next + 1].pos + user_buffers[offer_next + 1].len
           = StartOf(offer_next + 1)
      /\ StartOf(offer_next + 1) \in Nat
    BY <1>1, CounterTypes, BufferTypes DEF Contiguous, StartOf, Buf
<1>3. offer_total' = StartOf(offer_next + 1) - acked_bytes - unacked_size
    BY <1>1, <1>2, CounterTypes, BufferTypes DEF SendPoint, Buf
<1>4. offer_total' \in Nat
  <2>1. CASE offer_next = current_buffer_index
    BY <1>1, <2>1, CounterTypes, BufferTypes DEF SendPoint, Buf
  <2>2. CASE offer_next # current_buffer_index
    BY <1>1, <2>2, CounterTypes, BufferTypes
  <2> QED BY <2>1, <2>2, Zenon
<1>5. TypeOK'
    BY <1>1, <1>4, CounterTypes
    DEF PendingNext, TypeOK, buffers, flags, marks, net, ghosts
<1>6. Contiguous' /\ Ordered' /\ SendPoint' /\ NetInStep' /\ OnlyFrontTrimmed'
    BY Frame, Zenon DEF PendingNext, AckLeft, WroteLeft, net, ghosts
<1>7. EarlyUnacked' /\ WatermarkExact'
    BY Zenon DEF PendingNext, EarlyUnacked, WatermarkExact, buffers, marks
<1>8. OfferReach'
  <2>1. UNCHANGED <<user_buffers, current_buffer_index, unsent_size, acked_bytes,
                    unacked_size, fed>>
    BY Zenon DEF PendingNext, buffers, ghosts
  <2>2. StartOf(offer_next)' = StartOf(offer_next + 1)
    BY <1>1, <2>1, Zenon DEF StartOf, Count, Buf
  <2>3. Count' = Count /\ Count \in Nat /\ offer_next \in Nat /\ current_buffer_index \in Nat
    BY <2>1, CounterTypes, BufferTypes, Zenon DEF Count
  <2>4. /\ current_buffer_index' <= offer_next' /\ offer_next' <= Count'
        /\ offer_next' # current_buffer_index' /\ unsent_size' # 0
    BY <1>1, <2>1, <2>3, CounterTypes
  <2>5. offer_total' = StartOf(offer_next)' - acked_bytes' - unacked_size'
    BY <1>3, <2>1, <2>2, Zenon
  <2> QED BY <2>4, <2>5, Zenon DEF OfferReach
<1> QED BY <1>5, <1>6, <1>7, <1>8, Zenon

\* What ngtcp2 was offered is unsent, and is all of it unless More.
LEMMA OfferUnsent ==
    ASSUME IndInv, pc = "pending"
    PROVE  OfferIsUnsent
<1>1. /\ offer_next \in Nat /\ offer_next <= Count /\ current_buffer_index <= offer_next
      /\ StartOf(offer_next) <= fed /\ StartOf(offer_next) \in Nat
      /\ offer_next = Count => StartOf(offer_next) = fed
    BY CounterTypes, BufferTypes DEF IndInv, OfferReach, StartOf, Ordered, Buf
<1>2. WroteLeft = 0
    BY Zenon DEF WroteLeft
<1> QED BY <1>1, <1>2, CounterTypes, BufferTypes
        DEF IndInv, OfferReach, OfferIsUnsent, SendPoint

\* ngtcp2 takes n bytes: the counters move, the send point does not yet.
LEMMA WriteAcceptedInv ==
    ASSUME IndInv, NEW n \in 0 .. offer_total, WriteAccepted(n)
    PROVE  IndInv'
<1> USE DEF IndInv
<1>1. /\ pc = "pending" /\ n \in Nat /\ n <= offer_total /\ pc' \in {"callback", "wrote"}
      /\ left' = n /\ unsent_size' = unsent_size - n /\ unacked_size' = unacked_size + n
      /\ net_sent' = net_sent + n
      /\ offer_next' = 0 /\ offer_total' = 0
      /\ watermark_alarm' = check_watermark(watermarking, watermark_alarm, unsent_size')
      /\ UNCHANGED <<user_buffers, acked_bytes, current_buffer_index,
                     current_buffer_offset, front_trimmed, watermarking, fed,
                     net_acked, early>>
    BY CounterTypes DEF WriteAccepted, PendingDone, ghosts
<1>2. n <= unsent_size
    BY <1>1, OfferUnsent, CounterTypes DEF OfferIsUnsent
<1>3. TypeOK'
  <2>0. unsent_size' \in Nat /\ unacked_size' \in Nat /\ net_sent' \in Nat
    BY <1>1, <1>2, CounterTypes
  <2>1. watermark_alarm' \in BOOLEAN
    BY <1>1, <2>0, CheckWatermark, Zenon DEF TypeOK
  <2>2. /\ sent_fin' \in BOOLEAN /\ net_fin' \in BOOLEAN
        /\ trigger' \in BOOLEAN /\ net_blocked' \in BOOLEAN
    BY Zenon DEF WriteAccepted, TypeOK, SendingFin
  <2>3. /\ UNCHANGED <<send_fin, is_closing, ready, attached, net_shut, sends>>
        /\ notify' = FALSE
    BY Zenon DEF WriteAccepted, ghosts
  <2> QED BY <1>1, <2>0, <2>1, <2>2, <2>3, Zenon DEF TypeOK
<1>4. WroteLeft = 0 /\ WroteLeft' = n /\ AckLeft' = 0 /\ AckLeft = 0
    BY <1>1, Zenon DEF WroteLeft, AckLeft
<1>5. Contiguous' /\ Ordered' /\ OnlyFrontTrimmed'
    BY <1>1, <1>4, Zenon DEF Contiguous, Ordered, OnlyFrontTrimmed, Count
<1>6. SendPoint'
  <2>1. Count' = Count
    BY <1>1, Zenon DEF Count
  <2> QED BY <1>1, <1>2, <1>4, <2>1, CounterTypes, BufferTypes DEF SendPoint, Buf
<1>7. NetInStep' /\ EarlyUnacked' /\ OfferReach'
    BY <1>1, CounterTypes DEF NetInStep, EarlyUnacked, OfferReach
<1>8. WatermarkExact'
  <2>1. /\ watermarking' = watermarking /\ watermarking \in Marks \cup {NoMarks}
        /\ watermark_alarm \in BOOLEAN /\ unsent_size' \in Nat
        /\ watermark_alarm' = check_watermark(watermarking, watermark_alarm, unsent_size')
    BY <1>1, <1>3, Zenon DEF TypeOK
  <2> QED BY <2>1, CheckWatermark, Zenon DEF WatermarkExact
<1> QED BY <1>3, <1>5, <1>6, <1>7, <1>8, Zenon

\* The loop of wrote(): each iteration moves the send point by what it takes off
\* left.
LEMMA WroteNextInv ==
    ASSUME IndInv, WroteNext
    PROVE  IndInv'
<1> DEFINE b == user_buffers[current_buffer_index + 1]
           remaining == b.len - current_buffer_offset
<1> USE DEF IndInv
<1>1. /\ pc = "wrote" /\ pc' = "wrote" /\ current_buffer_index < Count /\ left > 0
      /\ UNCHANGED <<user_buffers, acked_bytes, unacked_size, unsent_size,
                     front_trimmed, watermarking, watermark_alarm, fed, net_sent,
                     net_acked, early>>
      /\ IF left < remaining
           THEN /\ current_buffer_offset' = current_buffer_offset + left
                /\ left' = 0 /\ current_buffer_index' = current_buffer_index
           ELSE /\ left' = left - remaining
                /\ current_buffer_index' = current_buffer_index + 1
                /\ current_buffer_offset' = 0
    BY Zenon DEF WroteNext, Remaining, Buf, marks, net, ghosts
<1>2. /\ remaining \in Nat /\ remaining > 0 /\ b.pos \in Nat /\ b.len \in Nat
      /\ b.pos + current_buffer_offset = acked_bytes + unacked_size - left
      /\ b.pos + b.len <= fed
    BY <1>1, CounterTypes, BufferTypes DEF SendPoint, Ordered, Buf, WroteLeft
<1>3. b.pos + b.len = StartOf(current_buffer_index + 1)
    BY <1>1, CounterTypes, BufferTypes DEF Contiguous, StartOf, Buf
<1> HIDE DEF b
<1>4. left' \in Nat /\ current_buffer_offset' \in Nat /\ current_buffer_index' \in Nat
    BY <1>1, <1>2, CounterTypes, BufferTypes
<1>5. TypeOK'
    BY <1>4 DEF WroteNext, Remaining, TypeOK, flags, marks, offer, net, ghosts
<1>6. Contiguous' /\ Ordered' /\ OnlyFrontTrimmed'
    BY <1>1, Zenon DEF Contiguous, Ordered, OnlyFrontTrimmed, Count, AckLeft
<1>7. SendPoint'
  <2>1. WroteLeft = left /\ WroteLeft' = left' /\ Count' = Count
    BY <1>1, Zenon DEF WroteLeft, Count
  <2>2. CASE left < remaining
    BY <1>1, <1>2, <2>1, <2>2, CounterTypes, BufferTypes DEF SendPoint, Buf, b
  <2>3. CASE ~(left < remaining) /\ current_buffer_index + 1 < Count
    BY <1>1, <1>2, <1>3, <2>1, <2>3, CounterTypes, BufferTypes
    DEF SendPoint, Buf, StartOf
  <2>4. CASE ~(left < remaining) /\ ~(current_buffer_index + 1 < Count)
    BY <1>1, <1>2, <1>3, <2>1, <2>4, CounterTypes, BufferTypes
    DEF SendPoint, StartOf
  <2> QED BY <2>2, <2>3, <2>4, Zenon
<1>8. NetInStep' /\ EarlyUnacked' /\ OfferReach' /\ WatermarkExact'
    BY <1>1, Zenon DEF NetInStep, EarlyUnacked, OfferReach, WatermarkExact
<1> QED BY <1>5, <1>6, <1>7, <1>8, Zenon

\* wrote() leaves its loop only with every accepted byte accounted for.
LEMMA WroteDoneInv ==
    ASSUME IndInv, WroteDone
    PROVE  IndInv'
<1> USE DEF IndInv
<1>1. /\ pc = "wrote" /\ pc' = "idle" /\ left' = 0
      /\ UNCHANGED <<buffers, marks, fed, net_sent, net_acked, early>>
    BY Zenon DEF WroteDone, net, ghosts
<1>2. left = 0
  <2>1. WroteLeft = left /\ ~(current_buffer_index < Count /\ left > 0)
    BY Zenon DEF WroteDone, WroteLeft
  <2> QED BY <2>1, CounterTypes, BufferTypes DEF SendPoint
<1>3. Contiguous' /\ Ordered' /\ SendPoint' /\ NetInStep' /\ OnlyFrontTrimmed'
    BY <1>1, <1>2, Frame, Zenon DEF AckLeft, WroteLeft
<1>4. TypeOK'
    BY DEF WroteDone, TypeOK, buffers, flags, marks, offer, net, ghosts
<1>5. EarlyUnacked' /\ OfferReach' /\ WatermarkExact'
    BY <1>1, Zenon DEF EarlyUnacked, OfferReach, WatermarkExact, buffers, marks
<1> QED BY <1>3, <1>4, <1>5, Zenon

\* acknowledge(): the counters move at once, the queue catches up in its loop.
LEMMA AcknowledgeInv ==
    ASSUME IndInv, NEW n \in 1 .. net_sent - net_acked, Acknowledge(n)
    PROVE  IndInv'
<1> USE DEF IndInv
<1>1. /\ pc = "idle" /\ ~early /\ pc' = "ack" /\ left' = n
      /\ unacked_size' = unacked_size - n /\ acked_bytes' = acked_bytes + n
      /\ net_acked' = net_acked + n
      /\ UNCHANGED <<user_buffers, unsent_size, current_buffer_index,
                     current_buffer_offset, front_trimmed, watermarking,
                     watermark_alarm, fed, net_sent, early>>
    BY Zenon DEF Acknowledge, marks, ghosts
<1>2. n \in Nat /\ n <= unacked_size
    BY CounterTypes DEF NetInStep
<1>3. TypeOK'
  <2>1. unacked_size' \in Nat /\ acked_bytes' \in Nat /\ net_acked' \in Nat
    BY <1>1, <1>2, CounterTypes
  <2> QED BY <1>1, <1>2, <2>1
          DEF Acknowledge, TypeOK, flags, marks, offer, ghosts
<1>4. AckLeft = 0 /\ AckLeft' = n /\ WroteLeft = 0 /\ WroteLeft' = 0 /\ Count' = Count
    BY <1>1, Zenon DEF AckLeft, WroteLeft, Count
<1>5. Contiguous'
    BY <1>1, <1>2, <1>4, CounterTypes, BufferTypes DEF Contiguous
<1>6. Ordered' /\ OnlyFrontTrimmed'
    BY <1>1, Zenon DEF Ordered, OnlyFrontTrimmed, Count
<1>7. SendPoint'
    BY <1>1, <1>2, <1>4, CounterTypes, BufferTypes DEF SendPoint, Buf
<1>8. NetInStep' /\ EarlyUnacked' /\ OfferReach' /\ WatermarkExact'
    BY <1>1, <1>2, CounterTypes DEF NetInStep, EarlyUnacked, OfferReach, WatermarkExact
<1> QED BY <1>3, <1>5, <1>6, <1>7, <1>8, Zenon

\* In the middle of acknowledge() the bytes still to be taken off the queue lie
\* at its front and before the send point: its assertions hold.
LEMMA AckFront ==
    ASSUME IndInv, pc = "ack", left > 0
    PROVE  /\ Count > 0
           /\ user_buffers[1].pos = acked_bytes - left
           /\ left >= user_buffers[1].len => current_buffer_index > 0
           /\ current_buffer_index = 0 => current_buffer_offset >= left
<1> USE DEF IndInv
<1>1. AckLeft = left /\ WroteLeft = 0
    BY Zenon DEF AckLeft, WroteLeft
<1>2. Count > 0
    BY <1>1, CounterTypes, BufferTypes DEF Contiguous, SendPoint
<1>3. user_buffers[1].pos = acked_bytes - left
    BY <1>1, <1>2, Zenon DEF Contiguous
<1>4. current_buffer_index = 0 =>
         current_buffer_offset >= left /\ current_buffer_offset < user_buffers[1].len
    BY <1>1, <1>2, <1>3, CounterTypes, BufferTypes DEF SendPoint, Buf
<1> QED BY <1>2, <1>3, <1>4, CounterTypes, BufferTypes

\* acknowledge(): a wholly acked front span leaves the queue, the send point with it.
LEMMA AckPopInv ==
    ASSUME IndInv, AckPop
    PROVE  IndInv'
<1> DEFINE n == user_buffers[1].len
<1> USE DEF IndInv
<1>1. /\ pc = "ack" /\ pc' = "ack" /\ left > 0 /\ left >= n /\ left' = left - n
      /\ front_trimmed' = 0
      /\ current_buffer_index' = current_buffer_index - 1
      /\ UNCHANGED <<unsent_size, unacked_size, acked_bytes, current_buffer_offset,
                     watermarking, watermark_alarm, fed, net_sent, net_acked, early>>
  <2>1. UNCHANGED <<unsent_size, unacked_size, acked_bytes, current_buffer_offset,
                    watermarking, watermark_alarm, fed, net_sent, net_acked, early, pc>>
    BY Zenon DEF AckPop, marks, net, ghosts
  <2>2. Buf(0) = user_buffers[1]
    BY DEF Buf
  <2>3. /\ pc = "ack" /\ left > 0 /\ left >= Buf(0).len /\ left' = left - Buf(0).len
        /\ front_trimmed' = 0 /\ current_buffer_index' = current_buffer_index - 1
    BY Zenon DEF AckPop
  <2> QED BY <2>1, <2>2, <2>3, Zenon
<1>t. user_buffers' = Tail(user_buffers)
    BY Zenon DEF AckPop
<1>2. Count > 0 /\ current_buffer_index > 0 /\ n \in Nat /\ n > 0
      /\ user_buffers[1].pos = acked_bytes - left
    BY <1>1, AckFront, BufferTypes, SMTT(30)
<1>3. /\ Count' = Count - 1
      /\ \A i \in 1 .. Count - 1 : user_buffers'[i] = user_buffers[i + 1]
    BY <1>2, <1>t DEF TypeOK, Count
<1> HIDE DEF n
<1>4. TypeOK'
  <2>1. user_buffers' \in Seq(Buffer)
    BY <1>2, <1>t DEF TypeOK, Count
  <2>2. left' \in Nat /\ current_buffer_index' \in Nat
    BY <1>1, <1>2, CounterTypes
  <2> QED BY <1>1, <2>1, <2>2 DEF AckPop, TypeOK, flags, marks, offer, net, ghosts
<1>5. AckLeft = left /\ AckLeft' = left' /\ WroteLeft = 0 /\ WroteLeft' = 0
    BY <1>1, Zenon DEF AckLeft, WroteLeft
<1>6. Contiguous'
    BY <1>1, <1>2, <1>3, <1>5, CounterTypes, BufferTypes, SMTT(30) DEF Contiguous, n
<1>7. Ordered'
    BY <1>1, <1>2, <1>3, BufferTypes, SMTT(30) DEF Ordered
<1>8. SendPoint'
    BY <1>1, <1>2, <1>3, <1>5, CounterTypes, BufferTypes DEF SendPoint, Buf
<1>9. OnlyFrontTrimmed'
    BY <1>1, <1>2, <1>3, BufferTypes DEF OnlyFrontTrimmed
<1>10. NetInStep' /\ EarlyUnacked' /\ OfferReach' /\ WatermarkExact'
    BY <1>1, Zenon DEF NetInStep, EarlyUnacked, OfferReach, WatermarkExact
<1> QED BY <1>4, <1>6, <1>7, <1>8, <1>9, <1>10, Zenon

-----------------------------------------------------------------------------
(* The steps that end a write, an acknowledgement or a phase of the stream. *)

\* acknowledge(): the rest of the acked bytes come off the front span.
LEMMA AckTrimInv ==
    ASSUME IndInv, AckTrim
    PROVE  IndInv'
<1> DEFINE b == user_buffers[1]
           c == Trimmed(b, left)
<1> USE DEF IndInv
<1>1. /\ pc = "ack" /\ pc' = "idle" /\ left > 0 /\ left < b.len /\ left' = 0
      /\ front_trimmed' = front_trimmed + left
      /\ current_buffer_offset' =
           current_buffer_offset - IF current_buffer_index = 0 THEN left ELSE 0
      /\ UNCHANGED <<unsent_size, unacked_size, acked_bytes, current_buffer_index,
                     watermarking, watermark_alarm, fed, net_sent, net_acked, early>>
    BY DEF AckTrim, Buf, marks, net, ghosts
<1>2. /\ Count > 0 /\ b.pos = acked_bytes - left
      /\ current_buffer_index = 0 => current_buffer_offset >= left
    BY <1>1, AckFront, Zenon
<1>3. b \in Buffer /\ b.len \in Nat /\ b.pos \in Nat
    BY <1>2, BufferTypes
<1>4. /\ c \in Buffer /\ c.len = b.len - left /\ c.pos = b.pos + left /\ c.size = b.size
      /\ c.len \in Nat /\ c.len > 0 /\ c.pos \in Nat
    BY <1>1, <1>3, CounterTypes, SMTT(30) DEF Buffer, Trimmed
<1>5. user_buffers' = [user_buffers EXCEPT ![1] = c]
    BY Zenon DEF AckTrim
<1> HIDE DEF c
<1>6. /\ user_buffers' \in Seq(Buffer) /\ Count' = Count /\ user_buffers'[1] = c
      /\ \A i \in 1 .. Count : i # 1 => user_buffers'[i] = user_buffers[i]
    BY <1>2, <1>4, <1>5, TrimSpec, Zenon
<1>7. TypeOK'
  <2>1. current_buffer_offset' \in Nat /\ front_trimmed' \in Nat
    BY <1>1, <1>2, CounterTypes
  <2> QED BY <1>1, <1>6, <2>1 DEF AckTrim, TypeOK, flags, marks, offer, net, ghosts
<1>8. AckLeft = left /\ AckLeft' = 0 /\ WroteLeft = 0 /\ WroteLeft' = 0
    BY <1>1, Zenon DEF AckLeft, WroteLeft
<1>9. /\ Count' = Count
      /\ user_buffers'[1].pos = user_buffers[1].pos + left
      /\ user_buffers'[1].len = user_buffers[1].len - left
      /\ user_buffers'[1].size = user_buffers[1].size
      /\ \A i \in 1 .. Count : i # 1 => user_buffers'[i] = user_buffers[i]
    BY <1>4, <1>6, Zenon
<1>10. Contiguous'
  <2>1. \A i \in 1 .. Count - 1 : user_buffers'[i + 1].pos = user_buffers'[i].pos + user_buffers'[i].len
    BY <1>2, <1>9, CounterTypes, BufferTypes, SMTT(30) DEF Contiguous
  <2>2. user_buffers'[1].pos = acked_bytes'
    BY <1>1, <1>2, <1>9, CounterTypes
  <2>3. user_buffers'[Count].pos + user_buffers'[Count].len = fed'
    BY <1>1, <1>2, <1>9, CounterTypes, BufferTypes DEF Contiguous
  <2> QED BY <1>1, <1>2, <1>8, <1>9, <2>1, <2>2, <2>3, CounterTypes, SMTT(30) DEF Contiguous
<1>11. Ordered'
    BY <1>1, <1>2, <1>9, CounterTypes, BufferTypes DEF Ordered
<1>12. SendPoint'
    BY <1>1, <1>2, <1>8, <1>9, CounterTypes, BufferTypes DEF SendPoint, Buf
<1>13. OnlyFrontTrimmed'
    BY <1>1, <1>2, <1>9, CounterTypes, BufferTypes DEF OnlyFrontTrimmed
<1>14. NetInStep' /\ EarlyUnacked' /\ OfferReach' /\ WatermarkExact'
    BY <1>1, Zenon DEF NetInStep, EarlyUnacked, OfferReach, WatermarkExact
<1> QED BY <1>7, <1>10, <1>11, <1>12, <1>13, <1>14, Zenon

\* revert_stream: everything unacked is unsent again, from the first byte on.
LEMMA EarlyRejectedInv ==
    ASSUME IndInv, EarlyRejected
    PROVE  IndInv'
<1> USE DEF IndInv
<1>1. /\ pc = "idle" /\ pc' = "idle" /\ left' = left /\ early /\ ~early'
      /\ UNCHANGED <<user_buffers, acked_bytes, front_trimmed, watermarking, fed>>
    BY Zenon DEF EarlyRejected, revert_stream, ghosts, TypeOK
<1>2. acked_bytes = 0 /\ AckLeft = 0 /\ AckLeft' = 0 /\ WroteLeft = 0 /\ WroteLeft' = 0
    BY <1>1, Zenon DEF EarlyUnacked, AckLeft, WroteLeft
<1>3. Contiguous' /\ Ordered' /\ OnlyFrontTrimmed' /\ EarlyUnacked' /\ OfferReach'
    BY <1>1, <1>2, Zenon
    DEF Contiguous, Ordered, OnlyFrontTrimmed, EarlyUnacked, OfferReach, Count
<1>4. CASE ready
  <2>1. /\ unsent_size' = unsent_size + unacked_size /\ unacked_size' = 0
        /\ current_buffer_index' = 0 /\ current_buffer_offset' = 0
        /\ net_sent' = 0 /\ net_acked' = 0
        /\ net_fin' = FALSE /\ net_shut' = FALSE /\ net_blocked' = FALSE
        /\ watermark_alarm' =
             check_watermark(watermarking, watermark_alarm, unsent_size')
    BY <1>4, Zenon DEF EarlyRejected, revert_stream
  <2>2. TypeOK'
    <3>1. unsent_size' \in Nat
      BY <2>1, CounterTypes
    <3>2. watermark_alarm' \in BOOLEAN
      BY <1>1, <2>1, <3>1, CheckWatermark, Zenon DEF TypeOK
    <3>3. notify' \in BOOLEAN /\ ready' \in BOOLEAN /\ trigger' \in BOOLEAN
      BY <1>4, FlagsAssumption, Zenon DEF EarlyRejected, revert_stream, TypeOK
    <3> QED BY <1>1, <2>1, <3>1, <3>2, <3>3, Zenon DEF EarlyRejected, revert_stream, TypeOK, offer, ghosts
  <2>3. SendPoint'
    <3>1. Count' = Count /\ (Count = 0 => fed = 0) /\ (Count > 0 => user_buffers[1].pos = 0)
      BY <1>1, <1>2, CounterTypes DEF Contiguous, Count
    <3> QED BY <1>1, <1>2, <2>1, <3>1, CounterTypes, BufferTypes DEF SendPoint, Buf
  <2>4. NetInStep'
    BY <1>1, <1>2, <2>1 DEF NetInStep
  <2>5. WatermarkExact'
    BY <1>1, <2>1, <2>2, CheckWatermark, Zenon DEF TypeOK, WatermarkExact
  <2> QED BY <1>3, <2>2, <2>3, <2>4, <2>5, Zenon
<1>5. CASE ~ready
  <2>1. UNCHANGED <<buffers, notify, net, watermarking, watermark_alarm, fed>>
    BY <1>1, <1>5, Zenon DEF EarlyRejected, buffers
  <2>2. TypeOK'
    BY <1>1, <2>1, ZenonT(30) DEF EarlyRejected, revert_stream, TypeOK, buffers, net, offer, ghosts
  <2>3. SendPoint' /\ NetInStep'
    BY <1>2, <2>1, Frame, Zenon DEF net
  <2>4. WatermarkExact'
    BY <2>1, Zenon DEF WatermarkExact, buffers
  <2> QED BY <1>3, <2>2, <2>3, <2>4, Zenon
<1> QED BY <1>4, <1>5, Zenon DEF TypeOK

\* The steps that touch neither the queue nor a counter.
LEMMA QuietInv ==
    ASSUME IndInv,
           \/ SendFin \/ Close \/ FlushSkip \/ WriteNothing \/ WriteBlocked
           \/ CallbackReturn \/ Unblocked \/ OpenPending \/ AckDone \/ EarlyAccepted
           \/ UNCHANGED vars
    PROVE  IndInv'
<1> USE DEF IndInv
<1>1. /\ UNCHANGED <<buffers, marks, fed, net_sent, net_acked>>
      /\ AckLeft' = AckLeft /\ WroteLeft' = WroteLeft
      /\ early' => early
      /\ pc' = "pending" => pc = "pending" /\ UNCHANGED offer
  <2> HIDE DEF IndInv
  <2> USE DEF marks, net, ghosts, AckLeft, WroteLeft, AppTurn, PendingDone
  <2>1. CASE SendFin
    BY <2>1, Zenon DEF SendFin
  <2>2. CASE Close
    BY <2>2, Zenon DEF Close
  <2>3. CASE FlushSkip
    BY <2>3, Zenon DEF FlushSkip
  <2>4. CASE Unblocked
    BY <2>4, Zenon DEF Unblocked
  <2>5. CASE OpenPending
    BY <2>5, Zenon DEF OpenPending
  <2>6. CASE EarlyAccepted
    BY <2>6, Zenon DEF EarlyAccepted
  <2>7. CASE WriteNothing
    BY <2>7, Zenon DEF WriteNothing
  <2>8. CASE WriteBlocked
    BY <2>8, Zenon DEF WriteBlocked
  <2>9. CASE CallbackReturn \/ AckDone
    BY <2>9 DEF CallbackReturn, AckDone
  <2>10. CASE UNCHANGED vars
    BY <2>10, Zenon DEF vars
  <2> QED BY <2>1, <2>2, <2>3, <2>4, <2>5, <2>6, <2>7, <2>8, <2>9, <2>10, Zenon
<1>2. /\ send_fin' \in BOOLEAN /\ sent_fin' \in BOOLEAN /\ is_closing' \in BOOLEAN
      /\ notify' \in BOOLEAN /\ ready' \in BOOLEAN /\ attached' \in BOOLEAN
      /\ trigger' \in BOOLEAN /\ early' \in BOOLEAN
      /\ net_fin' \in BOOLEAN /\ net_shut' \in BOOLEAN /\ net_blocked' \in BOOLEAN
  <2>1. /\ send_fin \in BOOLEAN /\ sent_fin \in BOOLEAN /\ is_closing \in BOOLEAN
        /\ notify \in BOOLEAN /\ ready \in BOOLEAN /\ attached \in BOOLEAN
        /\ trigger \in BOOLEAN /\ early \in BOOLEAN
        /\ net_fin \in BOOLEAN /\ net_shut \in BOOLEAN /\ net_blocked \in BOOLEAN
    BY Zenon DEF TypeOK
  <2> HIDE DEF IndInv
  <2> USE <2>1 DEF flags, net
  <2>2. CASE SendFin
    BY <2>2, Zenon DEF SendFin
  <2>3. CASE Close
    BY <2>3, Zenon DEF Close
  <2>4. CASE FlushSkip
    BY <2>4, Zenon DEF FlushSkip
  <2>5. CASE Unblocked
    BY <2>5, Zenon DEF Unblocked
  <2>6. CASE OpenPending
    BY <2>6, Zenon DEF OpenPending
  <2>7. CASE EarlyAccepted
    BY <2>7, Zenon DEF EarlyAccepted
  <2>8. CASE WriteNothing
    BY <2>8, Zenon DEF WriteNothing
  <2>9. CASE WriteBlocked
    BY <2>9, Zenon DEF WriteBlocked
  <2>10. CASE CallbackReturn \/ AckDone
    BY <2>10 DEF CallbackReturn, AckDone
  <2>11. CASE UNCHANGED vars
    BY <2>11 DEF vars
  <2> QED BY <2>2, <2>3, <2>4, <2>5, <2>6, <2>7, <2>8, <2>9, <2>10, <2>11, Zenon
<1>6. /\ pc' \in {"idle", "pending", "callback", "wrote", "ack"} /\ left' \in Nat
      /\ offer_next' \in Nat /\ offer_total' \in Nat /\ sends' \in Nat
  <2>1. /\ pc \in {"idle", "pending", "callback", "wrote", "ack"} /\ left \in Nat
        /\ offer_next \in Nat /\ offer_total \in Nat /\ sends \in Nat
    BY Zenon DEF TypeOK
  <2> HIDE DEF IndInv
  <2>2. CASE WriteNothing \/ WriteBlocked
    BY <2>1, <2>2 DEF WriteNothing, WriteBlocked, ghosts
  <2>3. CASE CallbackReturn \/ AckDone
    BY <2>1, <2>3, Zenon DEF CallbackReturn, AckDone, offer, ghosts
  <2>4. CASE \/ SendFin \/ Close \/ FlushSkip \/ Unblocked \/ OpenPending
             \/ EarlyAccepted \/ UNCHANGED vars
    <3>1. UNCHANGED <<pc, left, offer, sends>>
      BY <2>4, Zenon DEF SendFin, Close, FlushSkip, Unblocked, OpenPending, EarlyAccepted, vars,
                  ghosts
    <3> QED BY <2>1, <3>1, Zenon DEF offer
  <2> QED BY <2>2, <2>3, <2>4, Zenon
<1>7. TypeOK'
    BY <1>1, <1>2, <1>6, Zenon DEF TypeOK, buffers, marks
<1>3. Contiguous' /\ Ordered' /\ SendPoint' /\ NetInStep' /\ OnlyFrontTrimmed'
    BY <1>1, Frame, Zenon
<1>4. EarlyUnacked' /\ WatermarkExact'
    BY <1>1, Zenon DEF EarlyUnacked, WatermarkExact, buffers, marks
<1>5. OfferReach'
    BY <1>1, Zenon DEF OfferReach, StartOf, Count, Buf, buffers, offer
<1> QED BY <1>3, <1>4, <1>5, <1>7, Zenon

\* Setting, clearing and (by closing) dropping the watermarks.
LEMMA WatermarksInv ==
    ASSUME IndInv,
           \/ \E w \in Marks : enable_watermarks(w)
           \/ disable_watermarks \/ ExecuteClose
    PROVE  IndInv'
<1> USE DEF IndInv
<1>1. /\ UNCHANGED <<buffers, pc, left, offer, net, early, ghosts>>
      /\ send_fin' \in BOOLEAN /\ is_closing' \in BOOLEAN /\ attached' \in BOOLEAN
      /\ UNCHANGED <<sent_fin, notify, ready, trigger>>
    BY Zenon DEF enable_watermarks, disable_watermarks, ExecuteClose, flags, TypeOK
<1>2. /\ watermarking' \in Marks \cup {NoMarks} /\ watermark_alarm' \in BOOLEAN
      /\ WatermarkExact'
  <2>1. ASSUME NEW w \in Marks, enable_watermarks(w)
        PROVE  /\ watermarking' \in Marks \cup {NoMarks} /\ watermark_alarm' \in BOOLEAN
               /\ WatermarkExact'
    BY <2>1, CheckWatermark, CounterTypes, Zenon
    DEF enable_watermarks, WatermarkExact, TypeOK, buffers
  <2>2. CASE disable_watermarks \/ ExecuteClose
    BY <2>2, Zenon DEF disable_watermarks, ExecuteClose, WatermarkExact
  <2> QED BY <2>1, <2>2, Zenon
<1>3. TypeOK'
    BY <1>1, <1>2, SMTT(30) DEF TypeOK, buffers, offer, net, ghosts
<1>4. Contiguous' /\ Ordered' /\ SendPoint' /\ NetInStep' /\ OnlyFrontTrimmed'
    BY <1>1, Frame, Zenon DEF AckLeft, WroteLeft, net, ghosts
<1>5. EarlyUnacked' /\ OfferReach'
    BY <1>1, Zenon DEF EarlyUnacked, OfferReach, StartOf, Count, Buf, buffers, offer, ghosts
<1> QED BY <1>2, <1>3, <1>4, <1>5, Zenon

\* Every step keeps the invariant.
LEMMA NextInv == IndInv /\ [Next]_vars => IndInv'
<1> SUFFICES ASSUME IndInv, [Next]_vars PROVE IndInv'
    BY Zenon
<1> QED BY SendInv, WithdrawInv, FlushBeginInv, PendingNextInv, WriteAcceptedInv,
           WroteNextInv, WroteDoneInv, AcknowledgeInv, AckPopInv, AckTrimInv,
           EarlyRejectedInv, QuietInv, WatermarksInv, Zenon DEF Next

\* The inductive invariant holds in every reachable state of the stream.
THEOREM Inductive == Spec => []IndInv
BY InitInv, NextInv, PTL DEF Spec

\* Every variable keeps its type: no size_t counter of the stream wraps.
THEOREM TypeCorrect == Spec => []TypeOK
BY Inductive, PTL DEF IndInv

\* The byte counters, the queue of spans and the send point agree in every
\* reachable state: after any interleaving of send, write, ack, withdraw and
\* revert_stream, and inside wrote() and acknowledge().
THEOREM Accounting == Spec => [](Contiguous /\ SendPoint /\ NetInStep /\ OnlyFrontTrimmed)
BY Inductive, PTL DEF IndInv

\* pending() never offers ngtcp2 a byte that is not unsent.
THEOREM OffersUnsent == Spec => []OfferIsUnsent
<1>1. IndInv => OfferIsUnsent
    BY OfferUnsent, Zenon DEF OfferIsUnsent
<1> QED BY <1>1, Inductive, PTL

\* The assertions of acknowledge() never fail, and wrote() never runs off the
\* end of the queue with bytes left.
THEOREM AckAssertions == Spec => []AckWithinSent
<1>1. IndInv => AckWithinSent
  <2> SUFFICES ASSUME IndInv PROVE AckWithinSent
    BY Zenon
  <2>1. pc = "wrote" /\ current_buffer_index >= Count => left = 0
    BY CounterTypes, BufferTypes DEF IndInv, SendPoint, WroteLeft
  <2> QED BY <2>1, AckFront DEF AckWithinSent, Buf
<1> QED BY <1>1, Inductive, PTL

\* The watermark alarm state is always within its documented band.
THEOREM WatermarkBand == Spec => []WatermarkExact
BY Inductive, PTL DEF IndInv

\* Without early data to reject, the FIN is only ever sent with or after the last
\* byte, and nothing is queued behind it.
THEOREM FinCarriesLast == ASSUME ~ZeroRtt PROVE Spec => []FinLast
<1>1. Init => FinLast /\ ~early
  BY DEF Init, FinLast
<1>2. IndInv /\ FinLast /\ ~early /\ [Next]_vars => FinLast' /\ ~early'
  <2> SUFFICES ASSUME IndInv, FinLast, ~early, [Next]_vars
               PROVE  FinLast' /\ ~early'
    BY Zenon
  <2>1. CASE UNCHANGED <<unsent_size, sent_fin, early>> /\ (send_fin => send_fin')
    BY <2>1, Zenon DEF FinLast
  <2>2. ASSUME NEW n \in 1 .. MaxSize, Send(n)
        PROVE  FinLast' /\ ~early'
    BY <2>2, Zenon DEF Send, FinLast, flags
  <2>3. ASSUME NEW i \in 0 .. Count - 1, Withdraw(i)
        PROVE  FinLast' /\ ~early'
    <3>1. ~sent_fin
      <4>1. unsent_size' \in Nat
        BY <2>3, WithdrawInv, CounterTypes, Zenon DEF IndInv, TypeOK
      <4>2. unsent_size' = unsent_size - user_buffers[i + 1].len
        BY <2>3, Zenon DEF Withdraw, Buf
      <4> QED BY <4>1, <4>2, CounterTypes, BufferTypes DEF IndInv, FinLast
    <3> QED BY <2>3, <3>1, Zenon DEF Withdraw, FinLast, flags
  <2>4. ASSUME NEW n \in 0 .. offer_total, WriteAccepted(n)
        PROVE  FinLast' /\ ~early'
    <3>1. /\ sent_fin' = (sent_fin \/ (SendingFin /\ n = offer_total))
          /\ unsent_size' = unsent_size - n /\ pc = "pending" /\ ~early'
          /\ send_fin' = send_fin
      BY <2>4, Zenon DEF WriteAccepted, PendingDone
    <3>2. n <= offer_total /\ offer_total <= unsent_size
      BY <3>1, OfferUnsent, CounterTypes DEF IndInv, TypeOK, OfferIsUnsent
    <3>3. CASE sent_fin
      BY <3>1, <3>2, <3>3, CounterTypes DEF FinLast, IndInv, TypeOK
    <3>4. CASE ~sent_fin /\ sent_fin'
      <4>1. send_fin /\ n = offer_total /\ offer_next = Count
        BY <3>1, <3>4, Zenon DEF SendingFin, More
      <4>2. offer_total = unsent_size
        BY <3>1, <4>1, OfferUnsent, Zenon DEF OfferIsUnsent
      <4> QED BY <3>1, <4>1, <4>2, CounterTypes DEF FinLast, IndInv
    <3> QED BY <3>1, <3>3, <3>4, Zenon DEF FinLast
  <2>5. CASE EarlyAccepted \/ EarlyRejected
    BY <2>5, Zenon DEF EarlyAccepted, EarlyRejected
  <2>6. CASE SendFin \/ Close \/ ExecuteClose
    BY <2>1, <2>6, Zenon DEF SendFin, Close, ExecuteClose, buffers
  <2>7. CASE \/ disable_watermarks \/ \E w \in Marks : enable_watermarks(w)
             \/ FlushBegin \/ FlushSkip \/ PendingNext \/ WriteNothing \/ WriteBlocked
             \/ CallbackReturn \/ WroteNext \/ WroteDone \/ Unblocked \/ OpenPending
             \/ (\E n \in 1 .. net_sent - net_acked : Acknowledge(n))
             \/ AckPop \/ AckTrim \/ AckDone \/ UNCHANGED vars
    <3>1. UNCHANGED <<unsent_size, sent_fin, send_fin, early>>
      BY <2>7, Zenon DEF enable_watermarks, disable_watermarks, FlushBegin, FlushSkip,
          PendingNext, WriteNothing, WriteBlocked, CallbackReturn, WroteNext, WroteDone,
          Unblocked, OpenPending, Acknowledge, AckPop, AckTrim, AckDone, vars, buffers,
          flags
    <3> QED BY <2>1, <3>1, Zenon
  <2> QED BY <2>2, <2>3, <2>4, <2>5, <2>6, <2>7, Zenon DEF Next
<1> QED BY <1>1, <1>2, Inductive, PTL DEF Spec

\* No buffer is released while ngtcp2 may still need a byte of it.
THEOREM SafeRelease == Spec => ReleaseOnlyDone
<1>1. IndInv /\ [Next]_vars => [ReleaseStep]_vars
  <2> SUFFICES ASSUME IndInv, Next, NEW k \in 1 .. Count
               PROVE  KeptOrDone(user_buffers[k])
    BY Zenon DEF ReleaseStep
  <2> USE DEF IndInv
  <2>1. CASE UNCHANGED user_buffers
    BY <2>1, BufferTypes, Zenon DEF Count, KeptOrDone
  <2>2. CASE \E n \in 1 .. MaxSize : Send(n)
    <3>1. PICK b : user_buffers' = Append(user_buffers, b)
      BY <2>2, Zenon DEF Send
    <3>2. user_buffers \in Seq(Buffer) /\ k \in 1 .. Len(user_buffers)
      BY Zenon DEF TypeOK, Count
    <3>3. /\ k \in 1 .. Count' /\ user_buffers'[k] = user_buffers[k]
      BY <3>1, <3>2 DEF Count
    <3> QED BY <3>3, Zenon DEF Count, KeptOrDone
  <2>3. ASSUME NEW i \in 0 .. Count - 1, Withdraw(i)
        PROVE  KeptOrDone(user_buffers[k])
    <3>1. user_buffers' = Without(i)
      BY <2>3, Zenon DEF Withdraw
    <3>2. CASE k = i + 1
      <4>1. user_buffers[k].pos >= acked_bytes + unacked_size
        BY <2>3, <3>2, WithdrawBehind, Zenon
      <4> QED BY <4>1, Zenon DEF NetInStep, KeptOrDone
    <3>3. CASE k < i + 1
      <4>1. k \in 1 .. Len(user_buffers') /\ user_buffers'[k] = user_buffers[k]
        BY <3>1, <3>3, WithoutSpec, BufferTypes DEF Count
      <4> QED BY <4>1, Zenon DEF KeptOrDone
    <3>4. CASE k > i + 1
      <4>1. /\ user_buffers[k] \in Buffer /\ k - 1 \in 1 .. Len(user_buffers')
            /\ user_buffers'[k - 1] =
                 [user_buffers[k] EXCEPT !.pos = @ - user_buffers[i + 1].len]
        <5>1. k - 1 \in 1 .. Count - 1 /\ k - 1 > i /\ (k - 1) + 1 = k
          BY <3>4, BufferTypes
        <5>2. Count' = Count - 1 /\ user_buffers'[k - 1] =
                [user_buffers[(k - 1) + 1] EXCEPT !.pos = @ - user_buffers[i + 1].len]
          BY <3>1, <5>1, WithoutSpec, Zenon
        <5> QED BY <5>1, <5>2, BufferTypes, Zenon DEF Count
      <4>2. user_buffers'[k - 1].id = user_buffers[k].id
        BY <4>1, Zenon DEF Buffer
      <4> QED BY <4>1, <4>2, Zenon DEF KeptOrDone
    <3> QED BY <3>2, <3>3, <3>4, BufferTypes
  <2>4. CASE AckPop
    <3>1. CASE k = 1
      <4>1. pc = "ack" /\ left > 0 /\ left >= user_buffers[1].len
        BY <2>4 DEF AckPop, Buf
      <4>2. user_buffers[1].pos + user_buffers[1].len <= acked_bytes
        BY <4>1, AckFront, CounterTypes, BufferTypes
      <4> QED BY <3>1, <4>2, Zenon DEF NetInStep, KeptOrDone
    <3>2. CASE k > 1
      <4>1. k - 1 \in 1 .. Len(user_buffers') /\ user_buffers'[k - 1] = user_buffers[k]
        BY <2>4, <3>2, BufferTypes, SMTT(20) DEF AckPop, TypeOK, Count
      <4> QED BY <4>1, Zenon DEF KeptOrDone
    <3> QED BY <3>1, <3>2, BufferTypes
  <2>5. CASE AckTrim
    <3>1. Trimmed(user_buffers[1], left) \in Buffer /\ Count > 0
      BY <2>5, AckFront, CounterTypes, BufferTypes DEF AckTrim, Trimmed, Buf, Buffer
    <3>2. user_buffers' = [user_buffers EXCEPT ![1] = Trimmed(user_buffers[1], left)]
      BY <2>5, Zenon DEF AckTrim
    <3>3. k \in 1 .. Len(user_buffers') /\ user_buffers'[k].id = user_buffers[k].id
      BY <3>1, <3>2, TrimSpec, BufferTypes DEF Count, Trimmed
    <3> QED BY <3>3, Zenon DEF KeptOrDone
  <2> QED BY <2>1, <2>2, <2>3, <2>4, <2>5, Zenon
      DEF Next, SendFin, Close, enable_watermarks, disable_watermarks, FlushBegin,
          FlushSkip, PendingNext, WriteNothing, WriteBlocked, WriteAccepted,
          CallbackReturn, WroteNext, WroteDone, Unblocked, OpenPending, Acknowledge,
          AckDone, EarlyAccepted, EarlyRejected, ExecuteClose, buffers
<1> QED BY <1>1, Inductive, PTL DEF Spec, ReleaseOnlyDone

-----------------------------------------------------------------------------
(* The refinement of ByteStream.                                           *)


\* What the FIN needs beside IndInv: ngtcp2 has it only when the stream has
\* sent it and nothing is unsent, and no flush offers a stream that has.
FinInStep ==
    /\ net_fin => sent_fin /\ unsent_size = 0
    /\ pc = "pending" => ~sent_fin

\* withdraw() finds nothing to take back once everything is sent.
LEMMA WithdrawUnsent ==
    ASSUME IndInv, NEW i \in 0 .. Count - 1, Withdraw(i)
    PROVE  unsent_size # 0
<1>1. unsent_size' \in Nat
    BY WithdrawInv, CounterTypes, Zenon DEF IndInv, TypeOK
<1>2. unsent_size' = unsent_size - user_buffers[i + 1].len
    BY Zenon DEF Withdraw, Buf
<1> QED BY <1>1, <1>2, CounterTypes, BufferTypes DEF IndInv

\* ngtcp2 takes bytes, and the FIN only with the last of them.
LEMMA WriteFin ==
    ASSUME IndInv, FinInStep, NEW n \in 0 .. offer_total, WriteAccepted(n)
    PROVE  /\ pc = "pending" /\ n \in Nat /\ n <= unsent_size /\ ~net_fin
           /\ unsent_size' = unsent_size - n /\ net_sent' = net_sent + n
           /\ net_fin' = sent_fin' /\ net_fin' \in BOOLEAN
           /\ net_fin' => unsent_size' = 0
<1>1. /\ pc = "pending" /\ unsent_size' = unsent_size - n /\ net_sent' = net_sent + n
      /\ net_fin' = sent_fin' /\ n <= offer_total /\ n \in Nat
      /\ sent_fin' = (sent_fin \/ (SendingFin /\ n = offer_total))
    BY CounterTypes DEF WriteAccepted, PendingDone, IndInv
<1>2. ~sent_fin /\ ~net_fin
    BY <1>1, Zenon DEF FinInStep
<1>3. n <= unsent_size
    BY <1>1, OfferUnsent, CounterTypes, SMTT(30) DEF IndInv, TypeOK, OfferIsUnsent
<1>4. net_fin' \in BOOLEAN
    BY <1>1, Zenon DEF IndInv, TypeOK
<1>5. ASSUME net_fin' PROVE unsent_size' = 0
  <2>1. n = offer_total /\ offer_next = Count
    BY <1>1, <1>2, <1>5, Zenon DEF SendingFin, More
  <2>2. offer_total = unsent_size
    BY <1>1, <2>1, OfferUnsent, Zenon DEF OfferIsUnsent
  <2> QED BY <1>1, <2>1, <2>2, CounterTypes DEF IndInv
<1> QED BY <1>1, <1>2, <1>3, <1>4, <1>5, Zenon

\* Every step keeps the FIN in step.
LEMMA FinStep == IndInv /\ FinInStep /\ [Next]_vars => FinInStep'
<1> SUFFICES ASSUME IndInv, FinInStep, [Next]_vars PROVE FinInStep'
    BY Zenon
<1>1. ASSUME UNCHANGED <<net_fin, sent_fin, unsent_size>>, pc' = "pending" => pc = "pending"
      PROVE  FinInStep'
    BY <1>1, Zenon DEF FinInStep
<1>2. ASSUME NEW n \in 1 .. MaxSize, Send(n)
      PROVE  FinInStep'
    BY <1>2, Zenon DEF Send, FinInStep, flags, net
<1>3. ASSUME NEW i \in 0 .. Count - 1, Withdraw(i)
      PROVE  FinInStep'
  <2>1. ~net_fin
    BY <1>3, WithdrawUnsent, Zenon DEF FinInStep
  <2> QED BY <1>3, <2>1, Zenon DEF Withdraw, FinInStep, flags, net
<1>4. ASSUME NEW n \in 0 .. offer_total, WriteAccepted(n)
      PROVE  FinInStep'
  <2>1. pc' \in {"callback", "wrote"}
    BY <1>4, Zenon DEF WriteAccepted
  <2> QED BY <1>4, <2>1, WriteFin, Zenon DEF FinInStep
<1>5. CASE FlushBegin
    BY <1>5, Zenon DEF FlushBegin, FinInStep, buffers, flags, net
<1>6. CASE EarlyRejected
  <2>1. CASE ready
    BY <1>6, <2>1, Zenon DEF EarlyRejected, FinInStep
  <2>2. CASE ~ready
    BY <1>6, <2>2, Zenon DEF EarlyRejected, FinInStep, net
  <2> QED BY <2>1, <2>2, Zenon
<1>7. CASE \/ SendFin \/ Close \/ disable_watermarks
           \/ \E w \in Marks : enable_watermarks(w)
           \/ FlushSkip \/ PendingNext \/ CallbackReturn \/ OpenPending
           \/ EarlyAccepted \/ ExecuteClose \/ Unblocked \/ UNCHANGED vars
    BY <1>1, <1>7, Zenon DEF SendFin, Close, disable_watermarks, enable_watermarks,
       FlushSkip, PendingNext, CallbackReturn, OpenPending, EarlyAccepted,
       ExecuteClose, Unblocked, vars, buffers, flags, net
<1>8. CASE \/ WriteNothing \/ WriteBlocked \/ WroteNext \/ WroteDone
           \/ AckPop \/ AckTrim \/ AckDone
           \/ \E n \in 1 .. net_sent - net_acked : Acknowledge(n)
  <2>1. UNCHANGED <<net_fin, sent_fin, unsent_size>>
    BY <1>8, Zenon DEF WriteNothing, WriteBlocked, WroteNext, WroteDone, AckPop, AckTrim,
       AckDone, Acknowledge, buffers, flags, net
  <2>2. pc' # "pending"
    BY <1>8, Zenon DEF WriteNothing, WriteBlocked, WroteNext, WroteDone, AckPop, AckTrim,
       AckDone, Acknowledge
  <2> QED BY <1>1, <2>1, <2>2, Zenon
<1> QED BY <1>2, <1>3, <1>4, <1>5, <1>6, <1>7, <1>8, Zenon DEF Next

-----------------------------------------------------------------------------
\* The steps of the abstract stream.

\* A step that leaves the buffers and ngtcp2's counts alone is none of the
\* abstract stream.
LEMMA Stutters ==
    ASSUME UNCHANGED <<user_buffers, fed, net_sent, net_acked, net_fin>>
    PROVE  UNCHANGED Promise!vars
BY Zenon DEF Promise!vars, Held, Count

\* The abstract buffer of a span.
LEMMA HeldSpec ==
    ASSUME TypeOK
    PROVE  /\ Len(Held) = Count
           /\ \A i \in 1 .. Count :
                /\ Held[i].id = user_buffers[i].id /\ Held[i].size = user_buffers[i].size
                /\ Held[i].start = user_buffers[i].pos + user_buffers[i].len
                                     - user_buffers[i].size
<1>1. Count \in Nat
    BY BufferTypes, Zenon
<1> QED BY <1>1, SMTT(20) DEF Held

LEMMA SendFeeds ==
    ASSUME IndInv, FinInStep, NEW n \in 1 .. MaxSize, Send(n)
    PROVE  Promise!Next
<1> DEFINE b == [id |-> sends', size |-> n, len |-> n,
                 pos |-> acked_bytes + unacked_size + unsent_size]
           h == [id |-> sends', start |-> fed, size |-> n]
<1>0. n \in Nat \ {0} /\ sends' \in 1 .. MaxSends /\ ~net_fin
    BY BoundsAssumption, SMTT(30) DEF Send, IndInv, TypeOK, FinInStep
<1>1. /\ user_buffers' = Append(user_buffers, b) /\ fed' = fed + n
      /\ UNCHANGED <<net_sent, net_acked, net_fin>>
    BY Zenon DEF Send, net
<1>2. b.pos = fed
    BY Zenon DEF IndInv, SendPoint
<1>3. /\ Count' = Count + 1 /\ user_buffers'[Count + 1] = b /\ Count \in Nat
      /\ \A i \in 1 .. Count : user_buffers'[i] = user_buffers[i]
  <2>1. user_buffers \in Seq(Buffer)
    BY Zenon DEF IndInv, TypeOK
  <2> HIDE DEF b
  <2> QED BY <1>1, <2>1 DEF Count
<1>4. Held' = Append(Held, h)
  <2>1. Held' = [i \in 1 .. Count + 1 |->
                   IF i = Count + 1 THEN h
                   ELSE [id |-> user_buffers[i].id,
                         start |-> user_buffers[i].pos + user_buffers[i].len
                                     - user_buffers[i].size,
                         size |-> user_buffers[i].size]]
    <3>1. /\ b.id = sends' /\ b.size = n /\ b.len = n /\ b.pos = fed
          /\ fed \in Nat /\ n \in Nat
      BY <1>0, <1>2, CounterTypes, Zenon DEF IndInv
    <3>2. fed + n - n = fed
      BY <3>1
    <3> HIDE DEF b
    <3>3. ASSUME NEW i \in 1 .. Count + 1, i # Count + 1 PROVE user_buffers'[i] = user_buffers[i]
      <4>1. i \in 1 .. Count
        BY <1>3, <3>3
      <4> QED BY <1>3, <4>1, Zenon
    <3> QED BY <1>3, <3>1, <3>2, <3>3, ZenonT(30) DEF Held
  <2>2. Held = [i \in 1 .. Count |->
                   [id |-> user_buffers[i].id,
                    start |-> user_buffers[i].pos + user_buffers[i].len
                                - user_buffers[i].size,
                    size |-> user_buffers[i].size]]
    BY Zenon DEF Held
  <2> QED BY <1>3, <2>1, <2>2, SMTT(30)
<1>5. Promise!Feed(sends', n)
    BY <1>0, <1>1, <1>4, Zenon DEF Promise!Feed
<1> QED BY <1>0, <1>5, Zenon DEF Promise!Next

LEMMA WithdrawTakesBack ==
    ASSUME IndInv, FinInStep, NEW i \in 0 .. Count - 1, Withdraw(i)
    PROVE  Promise!Next
<1> USE DEF IndInv
<1> DEFINE k == i + 1
<1>1. /\ user_buffers' = Without(i) /\ fed' = fed - user_buffers[k].len
      /\ UNCHANGED <<net_sent, net_acked, net_fin>> /\ ~net_fin
    BY WithdrawUnsent, Zenon DEF Withdraw, Buf, net, FinInStep
<1>2. k \in 1 .. Count /\ Count \in Nat /\ user_buffers[k] \in Buffer
    BY BufferTypes
<1>3. /\ WroteLeft = 0 /\ current_buffer_index <= i
      /\ i = current_buffer_index =>
           current_buffer_offset = 0 /\ (i = 0 => front_trimmed = 0)
    BY WithdrawPoint, Zenon
<1>4. user_buffers[k].size = user_buffers[k].len
    BY <1>2, <1>3, CounterTypes, BufferTypes DEF OnlyFrontTrimmed
<1>5. user_buffers[k].pos >= net_sent
  <2>1. user_buffers[k].pos >= acked_bytes + unacked_size
    BY WithdrawBehind, Zenon
  <2> QED BY <2>1, Zenon DEF NetInStep
<1>6. /\ Count' = Count - 1
      /\ \A j \in 1 .. Count - 1 : j < k => user_buffers'[j] = user_buffers[j]
      /\ \A j \in 1 .. Count - 1 : ~(j < k) =>
           user_buffers'[j] = [user_buffers[j + 1] EXCEPT !.pos = @ - user_buffers[k].len]
    BY <1>1, <1>2, WithoutSpec
<1>7. \A j \in 1 .. Count - 1 : ~(j < k) =>
         /\ user_buffers'[j].id = user_buffers[j + 1].id
         /\ user_buffers'[j].size = user_buffers[j + 1].size
         /\ user_buffers'[j].len = user_buffers[j + 1].len
         /\ user_buffers'[j].pos = user_buffers[j + 1].pos - user_buffers[k].size
  <2> SUFFICES ASSUME NEW j \in 1 .. Count - 1, ~(j < k)
               PROVE  /\ user_buffers'[j].id = user_buffers[j + 1].id
                      /\ user_buffers'[j].size = user_buffers[j + 1].size
                      /\ user_buffers'[j].len = user_buffers[j + 1].len
                      /\ user_buffers'[j].pos = user_buffers[j + 1].pos - user_buffers[k].size
    BY Zenon
  <2>1. j + 1 \in 1 .. Count
    BY <1>2
  <2>2. user_buffers[j + 1] \in Buffer
    BY <2>1, BufferTypes, Zenon
  <2>3. user_buffers'[j] = [user_buffers[j + 1] EXCEPT !.pos = @ - user_buffers[k].len]
    BY <1>6, Zenon
  <2> QED BY <1>4, <2>2, <2>3, Zenon DEF Buffer
<1>8. Len(Held) = Count /\ k \in 1 .. Len(Held)
    BY <1>2, HeldSpec, Zenon
<1>9. /\ Held[k].size = user_buffers[k].len /\ Held[k].size = user_buffers[k].size
      /\ Held[k].start = user_buffers[k].pos
  <2> HIDE DEF IndInv, k
  <2>1. /\ Held[k].size = user_buffers[k].size
        /\ Held[k].start = user_buffers[k].pos + user_buffers[k].len - user_buffers[k].size
    BY <1>2, <1>8, HeldSpec, Zenon DEF IndInv
  <2>2. user_buffers[k].pos \in Nat /\ user_buffers[k].len \in Nat
    BY <1>2, BufferTypes, Zenon DEF IndInv
  <2> QED BY <1>4, <2>1, <2>2, SMTT(20)
<1>10. Held' = [j \in 1 .. Len(Held) - 1 |->
                  IF j < k THEN Held[j]
                  ELSE [id |-> Held[j + 1].id, start |-> Held[j + 1].start - Held[k].size,
                        size |-> Held[j + 1].size]]
  <2> DEFINE R(j) == IF j < k THEN Held[j]
                     ELSE [id |-> Held[j + 1].id, start |-> Held[j + 1].start - Held[k].size,
                           size |-> Held[j + 1].size]
             L(j) == [id |-> user_buffers'[j].id,
                      start |-> user_buffers'[j].pos + user_buffers'[j].len
                                  - user_buffers'[j].size,
                      size |-> user_buffers'[j].size]
  <2>1. ASSUME NEW j \in 1 .. Count - 1 PROVE L(j) = R(j)
    <3>1. CASE j < k
      <4>1. j \in 1 .. Count /\ user_buffers'[j] = user_buffers[j]
        BY <1>2, <1>6, <3>1
      <4>2. Held[j] = [id |-> user_buffers[j].id,
                       start |-> user_buffers[j].pos + user_buffers[j].len
                                   - user_buffers[j].size,
                       size |-> user_buffers[j].size]
        BY <4>1, Zenon DEF Held
      <4> QED BY <3>1, <4>1, <4>2, Zenon
    <3>2. CASE ~(j < k)
      <4>1. j + 1 \in 1 .. Count
        BY <1>2
      <4>2. /\ Held[j + 1].id = user_buffers[j + 1].id
            /\ Held[j + 1].size = user_buffers[j + 1].size
            /\ Held[j + 1].start = user_buffers[j + 1].pos + user_buffers[j + 1].len
                                     - user_buffers[j + 1].size
        BY <4>1, HeldSpec, Zenon
      <4>3. /\ user_buffers'[j].id = Held[j + 1].id
            /\ user_buffers'[j].size = Held[j + 1].size
            /\ user_buffers'[j].pos + user_buffers'[j].len - user_buffers'[j].size
                 = Held[j + 1].start - Held[k].size
        <5>1. /\ user_buffers'[j].id = Held[j + 1].id
              /\ user_buffers'[j].size = user_buffers[j + 1].size
              /\ user_buffers'[j].size = Held[j + 1].size
              /\ user_buffers'[j].len = user_buffers[j + 1].len
              /\ user_buffers'[j].pos = user_buffers[j + 1].pos - user_buffers[k].size
              /\ Held[k].size = user_buffers[k].size
          BY <1>7, <1>9, <3>2, <4>2, Zenon
        <5>2. /\ user_buffers[j + 1].pos \in Nat /\ user_buffers[j + 1].len \in Nat
              /\ user_buffers[j + 1].size \in Nat /\ user_buffers[k].size \in Nat
          BY <1>2, <4>1, BufferTypes, Zenon
        <5> HIDE DEF IndInv, k
        <5> QED BY <4>2, <5>1, <5>2, SMTT(20)
      <4> QED BY <3>2, <4>3, Zenon
    <3> QED BY <3>1, <3>2, Zenon
  <2>2. Held' = [j \in 1 .. Count - 1 |-> L(j)]
    BY <1>6, Zenon DEF Held
  <2> HIDE DEF L, R
  <2>3. Held' = [j \in 1 .. Count - 1 |-> R(j)]
    BY <2>1, <2>2, Zenon
  <2> QED BY <1>8, <2>3, Zenon DEF R
<1>11. Promise!TakeBack(k)
    BY <1>1, <1>5, <1>9, <1>10, Zenon DEF Promise!TakeBack
<1> QED BY <1>8, <1>11, Zenon DEF Promise!Next

LEMMA WriteTransmits ==
    ASSUME IndInv, FinInStep, NEW n \in 0 .. offer_total, WriteAccepted(n)
    PROVE  Promise!Next
<1>1. /\ n \in Nat /\ n <= unsent_size /\ ~net_fin /\ unsent_size' = unsent_size - n
      /\ net_sent' = net_sent + n /\ net_fin' \in BOOLEAN
      /\ net_fin' => unsent_size' = 0
    BY WriteFin, Zenon
<1>2. UNCHANGED <<user_buffers, fed, net_acked>>
    BY Zenon DEF WriteAccepted, ghosts
<1>3. net_sent + unsent_size = fed /\ net_sent \in Nat /\ fed \in Nat /\ unsent_size \in Nat
    BY CounterTypes, Zenon DEF IndInv, TypeOK, SendPoint, NetInStep
<1>4. UNCHANGED Held
    BY <1>2, Zenon DEF Held, Count
<1>5. net_sent + n <= fed /\ n \in 0 .. fed - net_sent
    BY <1>1, <1>3
<1>6. net_fin' = FALSE \/ net_fin' = (net_sent' = fed)
  <2>1. net_fin' => net_sent' = fed
    BY <1>1, <1>3
  <2> QED BY <1>1, <2>1, Zenon
<1>7. Promise!Transmit(n)
    BY <1>1, <1>2, <1>4, <1>5, <1>6, Zenon DEF Promise!Transmit
<1> QED BY <1>5, <1>7, Zenon DEF Promise!Next

LEMMA PopReleases ==
    ASSUME IndInv, AckPop
    PROVE  Promise!Next
<1>1. /\ pc = "ack" /\ left > 0 /\ left >= user_buffers[1].len
      /\ user_buffers' = Tail(user_buffers)
      /\ UNCHANGED <<fed, net_sent, net_acked, net_fin>>
  <2>1. /\ pc = "ack" /\ left > 0 /\ left >= Buf(0).len
        /\ user_buffers' = Tail(user_buffers)
        /\ UNCHANGED <<fed, net_sent, net_acked, net_fin>>
    BY Zenon DEF AckPop, net, ghosts
  <2>2. Buf(0) = user_buffers[1]
    BY DEF Buf
  <2> QED BY <2>1, <2>2, Zenon
<1> USE DEF IndInv
<1>2. user_buffers[1].pos + user_buffers[1].len <= net_acked
  <2>1. pc = "ack" /\ left > 0 /\ left >= user_buffers[1].len
    BY <1>1, Zenon
  <2>2. user_buffers[1].pos + user_buffers[1].len <= acked_bytes
    BY <2>1, AckFront, CounterTypes, BufferTypes
  <2> QED BY <2>2, Zenon DEF NetInStep
<1>3. /\ Count > 0 /\ Count' = Count - 1 /\ Count \in Nat
      /\ \A i \in 1 .. Count - 1 : user_buffers'[i] = user_buffers[i + 1]
  <2>1. Count > 0
    BY <1>1, AckFront, Zenon
  <2>2. user_buffers \in Seq(Buffer) /\ user_buffers # <<>>
    BY <2>1 DEF TypeOK, Count
  <2>3. /\ Len(user_buffers') = Len(user_buffers) - 1
        /\ \A i \in 1 .. Len(user_buffers) - 1 : user_buffers'[i] = user_buffers[i + 1]
    BY <1>1, <2>2, TailSeq, Zenon
  <2>4. Count \in Nat
    BY BufferTypes, Zenon
  <2> QED BY <2>1, <2>3, <2>4, Zenon DEF Count
<1>4. Len(Held) = Count /\ Held # <<>>
    BY <1>3, HeldSpec
<1>5. Held' = Tail(Held)
  <2>1. Held' = [i \in 1 .. Count - 1 |->
                   [id |-> user_buffers[i + 1].id,
                    start |-> user_buffers[i + 1].pos + user_buffers[i + 1].len
                                - user_buffers[i + 1].size,
                    size |-> user_buffers[i + 1].size]]
    BY <1>3, Zenon DEF Held
  <2>2. ASSUME NEW i \in 1 .. Count - 1
        PROVE  Held[i + 1] = [id |-> user_buffers[i + 1].id,
                              start |-> user_buffers[i + 1].pos + user_buffers[i + 1].len
                                          - user_buffers[i + 1].size,
                              size |-> user_buffers[i + 1].size]
    BY <1>3 DEF Held
  <2>3. Held' = [i \in 1 .. Len(Held) - 1 |-> Held[i + 1]]
    BY <1>4, <2>1, <2>2, Zenon
  <2>4. Held \in Seq({Held[i] : i \in 1 .. Count})
    BY <1>3 DEF Held
  <2>5. /\ Tail(Held) \in Seq({Held[i] : i \in 1 .. Count})
        /\ Len(Tail(Held)) = Count - 1
        /\ \A i \in 1 .. Count - 1 : Tail(Held)[i] = Held[i + 1]
    BY <1>4, <2>4, TailSeq, Zenon
  <2>6. Tail(Held) = [i \in 1 .. Count - 1 |-> Held[i + 1]]
    <3> DEFINE S == {Held[i] : i \in 1 .. Count}
               t == [i \in 1 .. Count - 1 |-> Held[i + 1]]
    <3>1. \A i \in 1 .. Count - 1 : Held[i + 1] \in S
      BY <1>3
    <3>2. t \in Seq(S) /\ Len(t) = Count - 1
      BY <1>3, <3>1
    <3>3. \A i \in 1 .. Count - 1 : t[i] = Held[i + 1]
      BY Zenon
    <3> HIDE DEF S, t
    <3> QED BY <2>5, <3>2, <3>3, SameSeq, Zenon DEF S, t
  <2> QED BY <1>4, <2>3, <2>6, Zenon
<1>6. Held[1].start + Held[1].size <= net_acked
  <2> DEFINE b == user_buffers[1]
  <2>1. 1 \in 1 .. Count
    BY <1>3
  <2>2. Held[1].size = b.size /\ Held[1].start = b.pos + b.len - b.size
    BY <2>1, HeldSpec, Zenon
  <2>3. b.pos \in Nat /\ b.len \in Nat /\ b.size \in Nat
    BY <2>1, BufferTypes, Zenon
  <2>4. b.pos + b.len <= net_acked
    BY <1>2, Zenon
  <2> HIDE DEF b
  <2>5. (b.pos + b.len - b.size) + b.size = b.pos + b.len
    BY <2>3
  <2> QED BY <2>2, <2>4, <2>5, Zenon
<1>7. Promise!Release
    BY <1>1, <1>4, <1>5, <1>6, Zenon DEF Promise!Release
<1> QED BY <1>7, Zenon DEF Promise!Next

LEMMA TrimStutters ==
    ASSUME IndInv, AckTrim
    PROVE  UNCHANGED Promise!vars
<1> DEFINE b == user_buffers[1]
           c == Trimmed(b, left)
<1> USE DEF IndInv
<1>1. /\ left > 0 /\ left < b.len /\ pc = "ack"
      /\ user_buffers' = [user_buffers EXCEPT ![1] = c]
      /\ UNCHANGED <<fed, net_sent, net_acked, net_fin>>
    BY DEF AckTrim, Buf, net, ghosts
<1>2. Count > 0 /\ b \in Buffer
    BY <1>1, AckFront, BufferTypes
<1>3. /\ c \in Buffer /\ c.size = b.size /\ c.id = b.id
      /\ c.pos + c.len - c.size = b.pos + b.len - b.size
    BY <1>1, <1>2, CounterTypes DEF Buffer, Trimmed
<1> HIDE DEF c
<1>4. /\ Count' = Count /\ user_buffers'[1] = c
      /\ \A i \in 1 .. Count : i # 1 => user_buffers'[i] = user_buffers[i]
    BY <1>1, <1>2, <1>3, TrimSpec, Zenon
<1>5. UNCHANGED Held
  <2>1. \A i \in 1 .. Count :
          /\ user_buffers'[i].id = user_buffers[i].id
          /\ user_buffers'[i].size = user_buffers[i].size
          /\ user_buffers'[i].pos + user_buffers'[i].len - user_buffers'[i].size
               = user_buffers[i].pos + user_buffers[i].len - user_buffers[i].size
    BY <1>3, <1>4, Zenon
  <2> DEFINE H(q, i) == [id |-> q[i].id, start |-> q[i].pos + q[i].len - q[i].size,
                         size |-> q[i].size]
  <2>2. \A i \in 1 .. Count : H(user_buffers', i) = H(user_buffers, i)
    BY <2>1, Zenon
  <2>3. /\ Held' = [i \in 1 .. Count |-> H(user_buffers', i)]
        /\ Held = [i \in 1 .. Count |-> H(user_buffers, i)]
    BY <1>4, Zenon DEF Held
  <2> HIDE DEF H
  <2> QED BY <2>2, <2>3, Zenon
<1> QED BY <1>1, <1>5, Zenon DEF Promise!vars

\* Every step of StreamSend is a step of the abstract stream or leaves it alone.
LEMMA StepRefines == IndInv /\ FinInStep /\ [Next]_vars => [Promise!Next]_(Promise!vars)
<1> SUFFICES ASSUME IndInv, FinInStep, [Next]_vars
             PROVE  Promise!Next \/ UNCHANGED Promise!vars
    BY Zenon
<1>1. ASSUME NEW n \in 1 .. net_sent - net_acked, Acknowledge(n)
      PROVE  Promise!Next
  <2>1. /\ net_acked + n <= net_sent /\ net_acked' = net_acked + n
        /\ UNCHANGED <<user_buffers, fed, net_sent, net_fin>>
    BY <1>1, Zenon DEF Acknowledge, ghosts
  <2>2. UNCHANGED Held
    BY <2>1, Zenon DEF Held, Count
  <2>3. Promise!Acked(n)
    BY <2>1, <2>2, Zenon DEF Promise!Acked
  <2>4. n \in 0 .. net_sent - net_acked
    BY DEF IndInv, TypeOK
  <2> QED BY <2>3, <2>4, Zenon DEF Promise!Next
<1>2. CASE EarlyRejected
  <2>1. UNCHANGED <<user_buffers, fed>>
    BY <1>2, Zenon DEF EarlyRejected, ghosts
  <2>2. CASE ready
    <3>1. net_acked = 0
      BY <1>2, Zenon DEF EarlyRejected, IndInv, EarlyUnacked, NetInStep
    <3>2. net_sent' = 0 /\ net_acked' = 0 /\ net_fin' = FALSE
      BY <1>2, <2>2, Zenon DEF EarlyRejected
    <3>3. UNCHANGED Held
      BY <2>1, Zenon DEF Held, Count
    <3>4. Promise!Void
      BY <2>1, <3>1, <3>2, <3>3, Zenon DEF Promise!Void
    <3> QED BY <3>4, Zenon DEF Promise!Next
  <2>3. CASE ~ready
    BY <1>2, <2>1, <2>3, Stutters, Zenon DEF EarlyRejected, net
  <2> QED BY <2>2, <2>3, Zenon
<1>3. CASE \/ SendFin \/ Close \/ disable_watermarks
           \/ \E w \in Marks : enable_watermarks(w)
           \/ FlushBegin \/ FlushSkip \/ PendingNext \/ WriteNothing \/ WriteBlocked
           \/ CallbackReturn \/ WroteNext \/ WroteDone \/ Unblocked \/ OpenPending
           \/ AckDone \/ EarlyAccepted \/ ExecuteClose \/ UNCHANGED vars
  <2>1. UNCHANGED <<user_buffers, fed, net_sent, net_acked, net_fin>>
    BY <1>3, Zenon DEF SendFin, Close, disable_watermarks, enable_watermarks, FlushBegin,
       FlushSkip, PendingNext, WriteNothing, WriteBlocked, CallbackReturn, WroteNext,
       WroteDone, Unblocked, OpenPending, AckDone, EarlyAccepted, ExecuteClose, vars,
       buffers, net, ghosts
  <2> QED BY <2>1, Stutters, Zenon
<1> QED BY <1>1, <1>2, <1>3, SendFeeds, WithdrawTakesBack, WriteTransmits, PopReleases,
           TrimStutters, Zenon DEF Next

\* The sending half of a stream implements the abstract byte stream, whatever is
\* fed to it, in buffers of any size and number, however ngtcp2 takes the bytes
\* and acknowledges them, with early data rejected or not.
THEOREM Refinement == Spec => Implements
<1>1. Init => Promise!Init /\ FinInStep
    BY DEF Init, Promise!Init, FinInStep, Held, Count
<1> QED BY <1>1, InitInv, NextInv, FinStep, StepRefines, PTL
        DEF Spec, Implements, Promise!Spec
=============================================================================

----------------------------- MODULE StreamSend -----------------------------
(***************************************************************************)
(* The sending half of one Stream (src/src/stream.cpp): the queue of       *)
(* caller-provided buffers, the byte counters, the send point, the FIN, the *)
(* watermarks, and the 0-RTT reversal; together with the part of           *)
(* Connection::flush_packets that drains the stream into ngtcp2 and the    *)
(* ngtcp2 stream (external) that accepts bytes and reports them acked.     *)
(*                                                                         *)
(* The event loop runs one job at a time.  The three loops of the code     *)
(* (pending, wrote, acknowledge) are unrolled into one step per iteration  *)
(* under the program counter pc: no other event runs while pc # "idle",    *)
(* but a watermark callback does run in the middle of wrote(), and the     *)
(* application may call back into the stream from it (pc = "callback").    *)
(*                                                                         *)
(* Indices into user_buffers are 0-based as in the code; Buf(i) is         *)
(* user_buffers[i].                                                        *)
(***************************************************************************)
EXTENDS Integers, Sequences

CONSTANTS
    MaxSends,   \* bound: how many buffers the application feeds the stream
    MaxSize,    \* bound: the largest buffer, in bytes
    MaxOffer,   \* the byte count flush_packets passes to pending()
    Marks,      \* the [alarm, clear] thresholds the application may set
    HadNotify,  \* whether the stream has opt::stream_notify (_had_notify)
    ZeroRtt     \* whether the connection starts out sending early data

ASSUME BoundsAssumption ==
    MaxSends \in Nat /\ MaxSize \in Nat \ {0} /\ MaxOffer \in Nat \ {0}
\* enable_watermarks throws unless clear < alarm.
ASSUME MarksAssumption ==
    Marks \subseteq {m \in [alarm : Nat, clear : Nat] : m.clear < m.alarm}
ASSUME FlagsAssumption == HadNotify \in BOOLEAN /\ ZeroRtt \in BOOLEAN

VARIABLES
    user_buffers,   \* Seq of [id, size, len, pos]: keep-alive, bytes the caller
                    \* gave, bytes left in the span, stream offset of the first
                    \* of those (pos is a history value: the code never reads it)
    unsent_size, unacked_size, acked_bytes,
    current_buffer_index, current_buffer_offset, front_trimmed,
    send_fin, sent_fin, is_closing, notify, ready,
    watermarking, watermark_alarm,
    attached,       \* the stream is in its connection's maps, and _conn is set
    trigger,        \* packet_io_trigger (or the retransmit timer) is active
    pc, left,       \* position inside pending(), wrote(), acknowledge()
    offer_next, offer_total, \* the buffers pending() has collected: i and total
    net_sent, net_acked,    \* the ngtcp2 stream (external): bytes accepted, acked,
    net_fin, net_shut,      \* FIN accepted, shut down for writing,
    net_blocked,            \* waiting for congestion or flow control
    early,          \* the handshake has not yet decided on the early data
    sends,          \* how many buffers have been accepted (also the last id)
    fed             \* bytes accepted by send() and not withdrawn

buffers == <<user_buffers, unsent_size, unacked_size, acked_bytes,
             current_buffer_index, current_buffer_offset, front_trimmed>>
flags   == <<send_fin, sent_fin, is_closing, notify, ready, attached>>
marks   == <<watermarking, watermark_alarm>>
offer   == <<offer_next, offer_total>>
net     == <<net_sent, net_acked, net_fin, net_shut, net_blocked>>
ghosts  == <<sends, fed>>
vars    == <<buffers, flags, marks, trigger, pc, left, offer, net, early, ghosts>>

NoMarks  == [alarm |-> 0, clear |-> 0]  \* _watermarking == nullopt

Buf(i) == user_buffers[i + 1]
Count  == Len(user_buffers)

\* The watermark_alarm that check_watermark leaves when w are the thresholds,
\* a the current alarm state and n bytes are unsent.
check_watermark(w, a, n) ==
    /\ w # NoMarks
    /\ IF a THEN n > w.clear ELSE n >= w.alarm

\* Application calls arrive as jobs of their own, or from inside a callback.
AppTurn == pc \in {"idle", "callback"}

Init ==
    /\ user_buffers = <<>>
    /\ unsent_size = 0 /\ unacked_size = 0 /\ acked_bytes = 0
    /\ current_buffer_index = 0 /\ current_buffer_offset = 0 /\ front_trimmed = 0
    /\ send_fin = FALSE /\ sent_fin = FALSE /\ is_closing = FALSE
    /\ notify = HadNotify
    /\ ready \in BOOLEAN        \* opened at once, or a pending stream
    /\ watermarking = NoMarks /\ watermark_alarm = FALSE
    /\ attached = TRUE
    /\ trigger = (ready /\ HadNotify)
    /\ pc = "idle" /\ left = 0 /\ offer_next = 0 /\ offer_total = 0
    /\ net_sent = 0 /\ net_acked = 0
    /\ net_fin = FALSE /\ net_shut = FALSE /\ net_blocked = FALSE
    /\ early = ZeroRtt
    /\ sends = 0 /\ fed = 0

-----------------------------------------------------------------------------
(* Application calls *)

\* send(): send_impl and append_buffer.  A send on a finished stream, or one
\* whose connection is gone, is dropped and changes nothing.
Send(n) ==
    /\ AppTurn /\ sends < MaxSends
    /\ ~is_closing /\ ~send_fin /\ ~sent_fin /\ attached
    /\ sends' = sends + 1 /\ fed' = fed + n
    /\ unsent_size' = unsent_size + n
    /\ user_buffers' = Append(user_buffers,
           [id |-> sends', size |-> n, len |-> n,
            pos |-> acked_bytes + unacked_size + unsent_size])
    /\ watermark_alarm' = check_watermark(watermarking, watermark_alarm, unsent_size')
    /\ trigger' = (trigger \/ ready)
    /\ UNCHANGED <<unacked_size, acked_bytes, current_buffer_index,
                   current_buffer_offset, front_trimmed, flags, watermarking,
                   pc, left, offer, net, early>>

SendFin ==
    /\ AppTurn
    /\ send_fin' = TRUE
    /\ trigger' = (trigger \/ attached)
    /\ UNCHANGED <<buffers, sent_fin, is_closing, notify, ready, attached, marks,
                   pc, left, offer, net, early, ghosts>>

\* close(): the first one shuts the ngtcp2 stream down, if that is open already.
Close ==
    /\ AppTurn
    /\ send_fin' = TRUE /\ is_closing' = TRUE
    /\ net_shut' = (net_shut \/ (~is_closing /\ attached /\ ready))
    /\ trigger' = (trigger \/ attached)
    /\ UNCHANGED <<buffers, sent_fin, notify, ready, attached, marks, pc, left,
                   offer, net_sent, net_acked, net_fin, net_blocked, early, ghosts>>

enable_watermarks(w) ==
    /\ AppTurn /\ ~is_closing /\ ~send_fin
    /\ watermarking' = w
    /\ watermark_alarm' = check_watermark(w, watermark_alarm, unsent_size)
    /\ UNCHANGED <<buffers, flags, trigger, pc, left, offer, net, early, ghosts>>

disable_watermarks ==
    /\ AppTurn /\ watermarking # NoMarks
    /\ watermarking' = NoMarks /\ watermark_alarm' = FALSE
    /\ UNCHANGED <<buffers, flags, trigger, pc, left, offer, net, early, ghosts>>

\* withdraw(): a timed-out request takes back its buffer if none of it has been
\* written into a packet.  The spans behind it move up in the stream.
FirstUnsentMutant == current_buffer_index   \* takes the started buffer as well
FirstUnsent ==
    current_buffer_index
      + IF \/ current_buffer_offset > 0
           \/ current_buffer_index = 0 /\ front_trimmed > 0 THEN 1 ELSE 0

Without(i) ==
    [j \in 1 .. Count - 1 |->
        IF j <= i THEN user_buffers[j]
        ELSE [user_buffers[j + 1] EXCEPT !.pos = @ - Buf(i).len]]

Withdraw(i) ==
    /\ pc = "idle"
    /\ FirstUnsent <= i /\ i < Count
    /\ unsent_size' = unsent_size - Buf(i).len
    /\ user_buffers' = Without(i)
    /\ fed' = fed - Buf(i).len
    /\ watermark_alarm' = check_watermark(watermarking, watermark_alarm, unsent_size')
    /\ UNCHANGED <<unacked_size, acked_bytes, current_buffer_index,
                   current_buffer_offset, front_trimmed, flags, watermarking,
                   trigger, pc, left, offer, net, early, sends>>

-----------------------------------------------------------------------------
(* flush_packets: pending(), ngtcp2_conn_writev_stream, wrote() *)

\* The stream is picked up by a flush only while it is in _streams and its FIN
\* has not gone out.  pending() offers nothing when nothing is unsent.
FlushBegin ==
    /\ pc = "idle" /\ trigger /\ ready /\ attached /\ ~sent_fin
    /\ pc' = "pending"
    /\ offer_next' = (IF unsent_size = 0 THEN Count ELSE current_buffer_index)
    /\ offer_total' = 0
    /\ UNCHANGED <<buffers, flags, marks, trigger, left, net, early, ghosts>>

\* A flush that has nothing to ask of this stream.
FlushSkip ==
    /\ pc = "idle" /\ trigger
    /\ ~ready \/ ~attached \/ sent_fin
    /\ trigger' = FALSE
    /\ UNCHANGED <<buffers, flags, marks, pc, left, offer, net, early, ghosts>>

\* What is left of buffer i past the send point.
RemainingMutant(i) == Buf(i).len
Remaining(i) ==
    Buf(i).len - IF i = current_buffer_index THEN current_buffer_offset ELSE 0

PendingNext ==
    /\ pc = "pending"
    /\ offer_next < Count /\ offer_total < MaxOffer
    /\ offer_next' = offer_next + 1
    /\ offer_total' = offer_total + Remaining(offer_next)
    /\ UNCHANGED <<buffers, flags, marks, trigger, pc, left, net, early, ghosts>>

PendingDone == pc = "pending" /\ ~(offer_next < Count /\ offer_total < MaxOffer)
MoreMutant  == FALSE            \* the FIN does not wait for the rest
More        == offer_next # Count
SendingFin  == send_fin /\ ~More

\* Nothing to write: no bytes, no FIN due, no notify frame due.
WriteNothing ==
    /\ PendingDone
    /\ ~SendingFin /\ offer_total = 0 /\ ~notify
    /\ trigger' = FALSE /\ pc' = "idle" /\ offer_next' = 0 /\ offer_total' = 0
    /\ UNCHANGED <<buffers, flags, marks, left, net, early, ghosts>>

\* ngtcp2 takes none of it: congestion (0), NGTCP2_ERR_STREAM_DATA_BLOCKED, or
\* NGTCP2_ERR_STREAM_SHUT_WR once the stream was shut down.
WriteBlocked ==
    /\ PendingDone
    /\ SendingFin \/ offer_total > 0 \/ notify
    /\ net_blocked' = ~net_shut
    /\ trigger' = FALSE /\ pc' = "idle" /\ offer_next' = 0 /\ offer_total' = 0
    /\ UNCHANGED <<buffers, flags, marks, left, net_sent, net_acked, net_fin,
                   net_shut, early, ghosts>>

\* ngtcp2 takes n of the offered bytes, and the FIN with the last of them; then
\* wrote() moves the counters and checks the watermark before it advances the
\* send point.  With bytes left over the flush comes back to the stream, now or
\* on the pacing timer, or waits for ngtcp2 to be unblocked.
WriteAccepted(n) ==
    /\ PendingDone /\ ~net_shut
    /\ SendingFin \/ offer_total > 0 \/ notify
    /\ n <= offer_total /\ (n = 0 => offer_total = 0)
    /\ sent_fin' = (sent_fin \/ (SendingFin /\ n = offer_total))
    /\ \E again \in BOOLEAN :
         /\ again => (n < offer_total \/ More)
         /\ trigger' = again
         /\ net_blocked' = (~again /\ (n < offer_total \/ More))
    /\ net_sent' = net_sent + n /\ net_fin' = sent_fin'
    /\ unacked_size' = unacked_size + n
    /\ unsent_size' = unsent_size - n
    /\ notify' = FALSE
    /\ watermark_alarm' = check_watermark(watermarking, watermark_alarm, unsent_size')
    /\ pc' = IF watermark_alarm' # watermark_alarm THEN "callback" ELSE "wrote"
    /\ left' = n /\ offer_next' = 0 /\ offer_total' = 0
    /\ UNCHANGED <<user_buffers, acked_bytes, current_buffer_index,
                   current_buffer_offset, front_trimmed, send_fin, is_closing,
                   ready, attached, watermarking, net_acked, net_shut, early, ghosts>>

CallbackReturn ==
    /\ pc = "callback"
    /\ pc' = "wrote"
    /\ UNCHANGED <<buffers, flags, marks, trigger, left, offer, net, early, ghosts>>

\* One iteration of the loop of wrote(), and its exit.
WroteNext ==
    /\ pc = "wrote" /\ current_buffer_index < Count /\ left > 0
    /\ LET remaining == Remaining(current_buffer_index)
       IN  IF left < remaining
             THEN /\ current_buffer_offset' = current_buffer_offset + left
                  /\ left' = 0
                  /\ UNCHANGED current_buffer_index
             ELSE /\ left' = left - remaining
                  /\ current_buffer_index' = current_buffer_index + 1
                  /\ current_buffer_offset' = 0
    /\ UNCHANGED <<user_buffers, unsent_size, unacked_size, acked_bytes,
                   front_trimmed, flags, marks, trigger, pc, offer, net, early, ghosts>>

WroteDone ==
    /\ pc = "wrote" /\ ~(current_buffer_index < Count /\ left > 0)
    /\ pc' = "idle" /\ left' = 0
    /\ UNCHANGED <<buffers, flags, marks, trigger, offer, net, early, ghosts>>

-----------------------------------------------------------------------------
(* Connection events *)

\* ngtcp2 (external) gets to send again: an ack, a MAX_STREAM_DATA or
\* MAX_STREAMS arrived, or a timer fired; read_packet calls packet_io_ready.
Unblocked ==
    /\ pc = "idle" /\ net_blocked
    /\ net_blocked' = FALSE
    /\ trigger' = attached
    /\ UNCHANGED <<buffers, flags, marks, pc, left, offer, net_sent,
                   net_acked, net_fin, net_shut, early, ghosts>>

\* check_pending_streams: a pending stream gets its ID.
OpenPending ==
    /\ pc = "idle" /\ ~ready /\ attached
    /\ ready' = TRUE /\ trigger' = TRUE
    /\ UNCHANGED <<buffers, send_fin, sent_fin, is_closing, notify, attached, marks,
                   pc, left, offer, net, early, ghosts>>

\* stream_ack -> acknowledge(bytes): ngtcp2 reports acks in stream order; early
\* data cannot be acked before the handshake completes.
Acknowledge(bytes) ==
    /\ pc = "idle" /\ attached /\ ready /\ ~early
    /\ net_acked + bytes <= net_sent
    /\ net_acked' = net_acked + bytes
    /\ unacked_size' = unacked_size - bytes
    /\ acked_bytes' = acked_bytes + bytes
    /\ pc' = "ack" /\ left' = bytes /\ trigger' = TRUE
    /\ UNCHANGED <<user_buffers, unsent_size, current_buffer_index,
                   current_buffer_offset, front_trimmed, flags, marks, offer,
                   net_sent, net_fin, net_shut, net_blocked, early, ghosts>>

\* The front buffer is fully acked: released.
AckPop ==
    /\ pc = "ack" /\ left > 0 /\ left >= Buf(0).len
    /\ left' = left - Buf(0).len
    /\ user_buffers' = Tail(user_buffers)
    /\ front_trimmed' = 0
    /\ current_buffer_index' = current_buffer_index - 1
    /\ UNCHANGED <<unsent_size, unacked_size, acked_bytes, current_buffer_offset,
                   flags, marks, trigger, pc, offer, net, early, ghosts>>

\* The rest are leading bytes of the front buffer: trimmed off its span.
TrimmedMutant(b, n) == [b EXCEPT !.pos = @ + n]     \* the span keeps its length
Trimmed(b, n) == [id |-> b.id, size |-> b.size, len |-> b.len - n, pos |-> b.pos + n]

AckTrim ==
    /\ pc = "ack" /\ left > 0 /\ left < Buf(0).len
    /\ user_buffers' = [user_buffers EXCEPT ![1] = Trimmed(@, left)]
    /\ front_trimmed' = front_trimmed + left
    /\ current_buffer_offset' =
         current_buffer_offset - IF current_buffer_index = 0 THEN left ELSE 0
    /\ pc' = "idle" /\ left' = 0
    /\ UNCHANGED <<unsent_size, unacked_size, acked_bytes, current_buffer_index,
                   flags, marks, trigger, offer, net, early, ghosts>>

AckDone ==
    /\ pc = "ack" /\ left = 0
    /\ pc' = "idle"
    /\ UNCHANGED <<buffers, flags, marks, trigger, left, offer, net, early, ghosts>>

EarlyAccepted ==
    /\ pc = "idle" /\ early
    /\ early' = FALSE
    /\ UNCHANGED <<buffers, flags, marks, trigger, pc, left, offer, net, ghosts>>

\* revert_stream: all that was sent is unsent again, from the first byte on.
revert_stream ==
    /\ unsent_size' = unsent_size + unacked_size
    /\ unacked_size' = 0
    /\ current_buffer_index' = 0 /\ current_buffer_offset' = 0
    /\ notify' = (notify \/ HadNotify)

\* revert_early_channels for this stream: revert_stream, back to pending, maybe
\* reopened at once by check_pending_streams, and a watermark check at the end.
\* ngtcp2 forgets everything it knew of the stream.
EarlyRejected ==
    /\ pc = "idle" /\ early /\ attached
    /\ early' = FALSE
    /\ ready' \in BOOLEAN
    /\ trigger' = TRUE
    /\ IF ready
         THEN /\ revert_stream
              /\ net_sent' = 0 /\ net_acked' = 0
              /\ net_fin' = FALSE /\ net_shut' = FALSE /\ net_blocked' = FALSE
              /\ watermark_alarm' =
                   check_watermark(watermarking, watermark_alarm, unsent_size')
         ELSE UNCHANGED <<unsent_size, unacked_size, current_buffer_index,
                          current_buffer_offset, notify, net, watermark_alarm>>
    /\ UNCHANGED <<user_buffers, acked_bytes, front_trimmed, send_fin, sent_fin,
                   is_closing, attached, watermarking, pc, left, offer, ghosts>>

\* stream_execute_close -> disable_watermarks, closed(): the stream ended, or
\* its connection did.  Either way no flush or ack
\* reaches the stream any more.
ExecuteClose ==
    /\ pc = "idle" /\ attached
    /\ is_closing' = TRUE /\ send_fin' = TRUE
    /\ attached' = FALSE
    /\ watermarking' = NoMarks /\ watermark_alarm' = FALSE
    /\ UNCHANGED <<buffers, sent_fin, notify, ready, trigger, pc, left, offer,
                   net, early, ghosts>>

Next ==
    \/ \E n \in 1 .. MaxSize : Send(n)
    \/ SendFin \/ Close
    \/ \E w \in Marks : enable_watermarks(w)
    \/ disable_watermarks
    \/ \E i \in 0 .. Count - 1 : Withdraw(i)
    \/ FlushBegin \/ FlushSkip \/ PendingNext \/ WriteNothing \/ WriteBlocked
    \/ \E n \in 0 .. offer_total : WriteAccepted(n)
    \/ CallbackReturn \/ WroteNext \/ WroteDone
    \/ Unblocked \/ OpenPending
    \/ \E n \in 1 .. net_sent - net_acked : Acknowledge(n)
    \/ AckPop \/ AckTrim \/ AckDone
    \/ EarlyAccepted \/ EarlyRejected \/ ExecuteClose

Spec == Init /\ [][Next]_vars

\* The event loop keeps running, and the peer keeps acking and granting credit
\* (otherwise the connection's idle timeout ends it): a blocked stream is
\* unblocked, and one that is offered again and again is eventually accepted.
EventLoop ==
    \/ FlushBegin \/ FlushSkip \/ PendingNext \/ WriteNothing
    \/ CallbackReturn \/ WroteNext \/ WroteDone
    \/ AckPop \/ AckTrim \/ AckDone

Fairness ==
    /\ WF_vars(EventLoop)
    /\ WF_vars(Unblocked)
    /\ SF_vars(\E n \in 0 .. offer_total : WriteAccepted(n))

FairSpec == Spec /\ Fairness

-----------------------------------------------------------------------------
(* Properties *)

Buffer == [id : Nat, size : Nat, len : Nat \ {0}, pos : Nat]

\* Every variable has the type of its C++ counterpart; in particular no size_t
\* counter of the stream ever wraps below zero.
TypeOK ==
    /\ user_buffers \in Seq(Buffer)
    /\ unsent_size \in Nat /\ unacked_size \in Nat /\ acked_bytes \in Nat
    /\ current_buffer_index \in Nat /\ current_buffer_offset \in Nat
    /\ front_trimmed \in Nat
    /\ send_fin \in BOOLEAN /\ sent_fin \in BOOLEAN /\ is_closing \in BOOLEAN
    /\ notify \in BOOLEAN /\ ready \in BOOLEAN /\ attached \in BOOLEAN
    /\ watermarking \in Marks \cup {NoMarks} /\ watermark_alarm \in BOOLEAN
    /\ trigger \in BOOLEAN /\ early \in BOOLEAN
    /\ pc \in {"idle", "pending", "callback", "wrote", "ack"} /\ left \in Nat
    /\ offer_next \in Nat /\ offer_total \in Nat
    /\ net_sent \in Nat /\ net_acked \in Nat
    /\ net_fin \in BOOLEAN /\ net_shut \in BOOLEAN /\ net_blocked \in BOOLEAN
    /\ sends \in Nat /\ fed \in Nat

\* Bytes acked but not yet taken off the buffers, and bytes handed to ngtcp2
\* that the send point has not yet moved past.
AckLeft   == IF pc = "ack" THEN left ELSE 0
WroteLeft == IF pc \in {"callback", "wrote"} THEN left ELSE 0

\* The spans lie end to end and cover exactly the bytes of the stream from the
\* first unacked one to the last one fed.
Contiguous ==
    /\ \A i \in 1 .. Count - 1 :
          user_buffers[i + 1].pos = user_buffers[i].pos + user_buffers[i].len
    /\ Count > 0 => /\ user_buffers[1].pos = acked_bytes - AckLeft
                    /\ user_buffers[Count].pos + user_buffers[Count].len = fed
    /\ Count = 0 => fed = acked_bytes - AckLeft

\* current_buffer_index and current_buffer_offset name the byte that follows the
\* sent ones: the counters and the send point, which wrote, acknowledge,
\* withdraw and revert_stream update separately, never drift apart.
SendPoint ==
    /\ acked_bytes + unacked_size + unsent_size = fed
    /\ IF current_buffer_index < Count
         THEN /\ current_buffer_offset < Buf(current_buffer_index).len
              /\ Buf(current_buffer_index).pos + current_buffer_offset
                   = acked_bytes + unacked_size - WroteLeft
         ELSE /\ current_buffer_index = Count /\ current_buffer_offset = 0
              /\ unsent_size + WroteLeft = 0

\* The stream and ngtcp2 agree on which bytes are sent and which are acked, so
\* the bytes pending() offers next are the ones ngtcp2 numbers next.
NetInStep == net_sent = acked_bytes + unacked_size /\ net_acked = acked_bytes

\* Only the front buffer is ever trimmed, and retained_impl (unacked + unsent +
\* front_trimmed) is the size of the caller's buffers still held.
OnlyFrontTrimmed ==
    /\ \A i \in 1 .. Count :
          user_buffers[i].size =
            user_buffers[i].len + IF i = 1 THEN front_trimmed ELSE 0
    /\ Count = 0 => front_trimmed = 0

\* The bytes pending() gathers are unsent ones, all of them unless it says more.
OfferIsUnsent ==
    pc = "pending" =>
      /\ offer_next <= Count /\ offer_total <= unsent_size
      /\ offer_next = Count => offer_total = unsent_size

\* The assertions of acknowledge(): the bytes acked are in the queue, a released
\* buffer lies before the send point, and a trim stays before the offset; and
\* wrote() leaves its loop only with every byte accounted for.
AckWithinSent ==
    /\ pc = "ack" /\ left > 0 =>
         /\ Count > 0
         /\ left >= Buf(0).len => current_buffer_index > 0
         /\ left < Buf(0).len /\ current_buffer_index = 0 =>
               current_buffer_offset >= left
    /\ pc = "wrote" /\ current_buffer_index >= Count => left = 0

\* The documented hysteresis: an enabled watermark is in alarm only above clear
\* and out of it only below alarm, whatever moved unsent_size (sends, writes,
\* withdrawals, a 0-RTT reversal) and whatever a callback did meanwhile.
WatermarkExact ==
    watermarking # NoMarks =>
      IF watermark_alarm THEN unsent_size > watermarking.clear
                         ELSE unsent_size < watermarking.alarm

\* The FIN goes out with the last byte: once sent_fin is set nothing is unsent.
FinLast == sent_fin => send_fin /\ unsent_size = 0

\* A buffer leaves the queue only once ngtcp2 has all of it acked, or if ngtcp2
\* has never seen any of it (withdraw).
KeptOrDone(b) ==
    \/ \E j \in 1 .. Len(user_buffers') : user_buffers'[j].id = b.id
    \/ b.pos + b.len <= net_acked
    \/ b.pos >= net_sent
ReleaseStep == \A k \in 1 .. Count : KeptOrDone(user_buffers[k])
ReleaseOnlyDone == [][ReleaseStep]_vars

\* Bytes queued on an open stream are all handed to ngtcp2 in the end, and so is
\* a FIN asked for, unless the stream is shut down or ends first.
Ended == ~attached \/ ~ready \/ net_shut
DataGetsSent == (unsent_size > 0 /\ ready) ~> (unsent_size = 0 \/ Ended)
FinGetsSent  == (send_fin /\ ready) ~> (net_fin \/ Ended)

-----------------------------------------------------------------------------
(* The inductive invariant *)

\* What Contiguous implies of any two spans, and of any span and the end.
Ordered ==
    /\ \A i, j \in 1 .. Count :
          i < j => user_buffers[i].pos + user_buffers[i].len <= user_buffers[j].pos
    /\ \A i \in 1 .. Count : user_buffers[i].pos + user_buffers[i].len <= fed

\* No early data is acked before the handshake decides on it.
EarlyUnacked == early => acked_bytes = 0

\* Stream offset of user_buffers[i], or of the end of the queue.
StartOf(i) == IF i < Count THEN Buf(i).pos ELSE fed

\* How far the loop of pending() has got.
OfferReach ==
    pc = "pending" =>
      /\ current_buffer_index <= offer_next /\ offer_next <= Count
      /\ offer_total = IF offer_next = current_buffer_index THEN 0
                       ELSE StartOf(offer_next) - acked_bytes - unacked_size
      /\ unsent_size = 0 => offer_next = Count

IndInv ==
    /\ TypeOK /\ Contiguous /\ Ordered /\ SendPoint /\ NetInStep
    /\ OnlyFrontTrimmed /\ EarlyUnacked /\ OfferReach /\ WatermarkExact

-----------------------------------------------------------------------------
(* What the stream promises *)

\* The buffers as the application knows them: with the bytes trimmed off the
\* front one, and where each starts in the stream.
Held ==
    [i \in 1 .. Count |->
       [id |-> user_buffers[i].id,
        start |-> user_buffers[i].pos + user_buffers[i].len - user_buffers[i].size,
        size |-> user_buffers[i].size]]

Promise == INSTANCE ByteStream WITH
             Ids <- 1 .. MaxSends, Sizes <- 1 .. MaxSize,
             queue <- Held, sent <- net_sent, acked <- net_acked, fin <- net_fin

\* The bookkeeping of spans, counters and send point implements the byte stream:
\* bytes go out in order and once, the FIN with the last of them and nothing is
\* fed after it, a buffer is let go only when acked or never sent, and only a
\* rejected early attempt starts again from the first byte.
Implements == Promise!Spec
=============================================================================

----------------------------- MODULE DgramQueue -----------------------------
(***************************************************************************)
(* The sending half of a connection's datagram channel: Datagrams::send,   *)
(* the queue dgram::queue that splits a datagram in two when it exceeds    *)
(* the path's size, the datagram block of Connection::flush_packets that   *)
(* feeds ngtcp2 from it, and the retransmission of 0-RTT datagrams.        *)
(*                                                                         *)
(* fetch() and the confirm_sent() that follows an accepted write run in    *)
(* one job with nothing in between, so together they are one action; the   *)
(* fields last_i, last_sent and last_size only live inside it.  Positions  *)
(* in buf are 1-based.                                                     *)
(***************************************************************************)
EXTENDS Integers, Sequences, FiniteSets, SequencesExt

CONSTANTS
    MaxSends,    \* bound: datagrams the application queues
    MaxRetries,  \* bound: Retry packets the server sends
    MaxChanges,  \* bound: changes of the path's datagram size
    Sizes,       \* the payload sizes the application uses
    Pieces,      \* the values get_max_datagram_piece() may take
    Lookaheads,  \* the values the application sets split_lookahead to
    Splitting,   \* packet_splitting
    ZeroRtt,     \* the connection starts out sending early data
    QueueLimit,  \* dgram_queue_limit
    U16          \* 2^16, the width of storage::unsent_size()

VARIABLES
    buf,             \* Seq of [id, size, status, split_pos]
    early,           \* early_data_head has a value,
    early_data_head, \* namely this one (0 once it has none)
    unsent_bytes,
    split_lookahead,
    max_piece,       \* what get_max_datagram_piece() returns now
    attached,        \* _conn is set
    \* History: ids count up from 1; the code's 14-bit counter is id modulo 2^14.
    sends, retries, changes,
    wire,            \* the [id, from, to] byte ranges sent that count: all those
                     \* sent since the last time early data was lost
    arrived,         \* ids in the order wire completed them
    discarded        \* ids that fetch() gave up as unsendable

queue   == <<buf, early, early_data_head, unsent_bytes>>
history == <<sends, retries, changes, wire, arrived, discarded>>
vars    == <<queue, split_lookahead, max_piece, attached, history>>

Statuses == {"Unsent", "SentFirst", "SentSecond", "Sent"}

\* SendStatus's operator|= for two parts that are not both sent yet.
Or(a, b) == IF a = "Unsent" THEN b ELSE IF a = b THEN a ELSE "Sent"

sent_second(d) == d.status \in {"SentSecond", "Sent"}

unsent_size(d) ==
    (CASE d.status = "Sent"       -> 0
       [] d.status = "SentFirst"  -> d.size - d.split_pos
       [] d.status = "SentSecond" -> d.split_pos
       [] d.status = "Unsent"     -> d.size) % U16

unsendable(d) ==
    CASE d.status = "Sent"       -> FALSE
      [] d.status = "Unsent"     -> d.size > max_piece * (IF Splitting THEN 2 ELSE 1)
      [] d.status = "SentFirst"  -> d.size - d.split_pos > max_piece
      [] d.status = "SentSecond" -> d.split_pos > max_piece

HeadPos == early_data_head + 1    \* early_data_head.value_or(0), as a position

SumOver(q, F(_)) == FoldLeft(LAMBDA acc, d : acc + F(d), 0, q)

Init ==
    /\ buf = <<>> /\ unsent_bytes = 0
    /\ early = ZeroRtt /\ early_data_head = 0
    /\ split_lookahead \in Lookaheads
    /\ max_piece \in Pieces
    /\ attached = TRUE
    /\ sends = 0 /\ retries = 0 /\ changes = 0
    /\ wire = {} /\ arrived = <<>> /\ discarded = {}

-----------------------------------------------------------------------------
(* The application's calls, and the path.                                  *)

\* send_impl drops the datagram when more than the limit is already pending.
Send(n) ==
    /\ attached /\ sends < MaxSends
    /\ unsent_bytes <= QueueLimit
    /\ sends' = sends + 1
    /\ buf' = Append(buf, [id |-> sends', size |-> n, status |-> "Unsent", split_pos |-> 0])
    /\ unsent_bytes' = unsent_bytes + n
    /\ UNCHANGED <<early, early_data_head, split_lookahead, max_piece, attached,
                   retries, changes, wire, arrived, discarded>>

SetLookahead(n) ==
    /\ split_lookahead' = n
    /\ UNCHANGED <<queue, max_piece, attached, history>>

\* Path discovery, a migration, or the end of early data changes the size.
PathChange(p) ==
    /\ changes < MaxChanges /\ changes' = changes + 1
    /\ max_piece' = p
    /\ UNCHANGED <<queue, split_lookahead, attached,
                   sends, retries, wire, arrived, discarded>>

\* The connection goes away: drop_streams clears the channel's _conn.
Detach ==
    /\ attached /\ attached' = FALSE
    /\ UNCHANGED <<queue, split_lookahead, max_piece, history>>

-----------------------------------------------------------------------------
(* fetch() and confirm_sent().                                             *)

\* fetch() first discards the leading datagrams that can no longer be sent.
LeadingMutant(k) == k = 0   \* discards nothing
Leading(k) ==
    /\ \A i \in 1..k : unsendable(buf[i])
    /\ k < Len(buf) => ~unsendable(buf[k + 1])

\* What the discard of the first k subtracts from unsent_bytes.
DroppedBytes(k) == SumOver(SubSeq(buf, 1, k), unsent_size)

\* The positions that a lookahead may take a small second part from.
Lookahead(q) == {i \in HeadPos..HeadPos + split_lookahead : i <= Len(q)}

HasSmall(d) ==
    /\ ~sent_second(d)
    /\ d.status = "SentFirst" \/ d.size > max_piece

HeadPart(d) ==
    CASE Splitting /\ d.status = "SentFirst"  -> "SentSecond"
      [] Splitting /\ d.status = "SentSecond" -> "SentFirst"
      [] Splitting /\ d.status = "Unsent" /\ d.size > max_piece -> "SentFirst"
      [] OTHER -> "Sent"

\* fetch(prefer_small) picks the given part of the datagram at position i of q.
PickMutant(q, prefer_small, i, part) ==   \* sends whole lookahead datagrams early
    LET small == {j \in Lookahead(q) : prefer_small /\ Splitting /\ ~sent_second(q[j])}
    IN  IF small # {} THEN i \in small /\ part = HeadPart(q[i]) /\ \A j \in small : j <= i
                      ELSE i = HeadPos /\ part = HeadPart(q[i])
Pick(q, prefer_small, i, part) ==
    LET small == {j \in Lookahead(q) : prefer_small /\ Splitting /\ HasSmall(q[j])}
    IN  IF small # {} THEN i \in small /\ part = "SentSecond" /\ \A j \in small : i <= j
                      ELSE i = HeadPos /\ part = HeadPart(q[i])

\* The datagram with its split position set: chosen while no part is sent, and
\* set in stone afterwards.
SplitMutant(d, part) ==   \* moves the split of a datagram that is half sent
    IF part = "Sent" THEN d ELSE [d EXCEPT !.split_pos = IF max_piece < d.size THEN max_piece ELSE @]
Split(d, part) ==
    IF d.status = "Unsent" /\ part # "Sent" THEN [d EXCEPT !.split_pos = max_piece] ELSE d

PieceOf(d, part) ==
    [id   |-> d.id,
     from |-> IF part = "SentSecond" THEN d.split_pos ELSE 0,
     to   |-> IF part = "SentFirst" THEN d.split_pos ELSE d.size]

Covers(w, id, n) == \A x \in 0..n - 1 : \E p \in w : p.id = id /\ p.from <= x /\ x < p.to

\* confirm_sent() for the part of q[i]: the new queue.
confirm_sent(q, i, part) ==
    LET b  == [q[i] EXCEPT !.status = Or(@, part)]
        q1 == [q EXCEPT ![i] = b]
    IN  /\ buf' = IF b.status = "Sent" /\ ~early THEN Tail(q1) ELSE q1
        /\ early_data_head' = IF b.status = "Sent" /\ early THEN early_data_head + 1
                                                            ELSE early_data_head

\* fetch() discards k datagrams and chooses the given part of the one at i ...
Fetch(prefer_small, k, i, part) ==
    LET rest == SubSeq(buf, k + 1, Len(buf))
    IN  /\ attached
        /\ Leading(k)
        /\ HeadPos <= Len(rest) /\ i \in 1..Len(rest)
        /\ Pick(rest, prefer_small, i, part)
        /\ discarded' = discarded \cup {buf[j].id : j \in 1..k}

\* ... and leaves this queue.
Fetched(k, i, part) == [SubSeq(buf, k + 1, Len(buf)) EXCEPT ![i] = Split(@, part)]

\* One round of the datagram block: ngtcp2 (external) takes the piece, which it
\* can only do when it fits a packet.
FlushAccepted(prefer_small) ==
    \E k \in 0..Len(buf), i \in 1..Len(buf), part \in Statuses \ {"Unsent"} :
      LET q == Fetched(k, i, part)
          p == PieceOf(q[i], part)
      IN  /\ Fetch(prefer_small, k, i, part)
          /\ p.to - p.from <= max_piece
          /\ confirm_sent(q, i, part)
          /\ unsent_bytes' = unsent_bytes - DroppedBytes(k) - (p.to - p.from)
          /\ wire' = wire \cup {p}
          /\ arrived' = IF Covers(wire', p.id, q[i].size) THEN Append(arrived, p.id) ELSE arrived
          /\ UNCHANGED <<early, split_lookahead, max_piece, attached, sends, retries, changes>>

\* ... or refuses it: congestion, no room left in the packet, or it is too large.
FlushRefused(prefer_small) ==
    \E k \in 0..Len(buf), i \in 1..Len(buf), part \in Statuses \ {"Unsent"} :
      /\ Fetch(prefer_small, k, i, part)
      /\ buf' = Fetched(k, i, part)
      /\ unsent_bytes' = unsent_bytes - DroppedBytes(k)
      /\ UNCHANGED <<early, early_data_head, split_lookahead, max_piece, attached,
                     sends, retries, changes, wire, arrived>>

\* fetch() finds nothing to send after the discard.
FlushNothing ==
    \E k \in 0..Len(buf) :
      /\ attached
      /\ Leading(k)
      /\ HeadPos > Len(buf) - k
      /\ buf' = SubSeq(buf, k + 1, Len(buf))
      /\ unsent_bytes' = unsent_bytes - DroppedBytes(k)
      /\ discarded' = discarded \cup {buf[j].id : j \in 1..k}
      /\ UNCHANGED <<early, early_data_head, split_lookahead, max_piece, attached,
                     sends, retries, changes, wire, arrived>>

-----------------------------------------------------------------------------
(* Early data.                                                             *)

\* early_data_retry() marks the datagrams up to this position as unsent: the
\* furthest one it takes to have been (partially) sent.
Reach ==
    LET max_i == early_data_head + (IF Splitting THEN split_lookahead ELSE 0)
    IN  IF max_i < Len(buf) THEN max_i + 1 ELSE Len(buf)

early_data_retry ==
    /\ buf' = [i \in DOMAIN buf |-> IF i <= Reach THEN [buf[i] EXCEPT !.status = "Unsent"]
                                                  ELSE buf[i]]
    /\ unsent_bytes' = unsent_bytes
                       + SumOver(SubSeq(buf, 1, Reach), LAMBDA d : d.size - unsent_size(d))
    /\ early_data_head' = 0
    /\ wire' = {} /\ arrived' = <<>>

\* on_recv_retry: a Retry packet, so that all early datagrams are lost.
Retry ==
    /\ attached /\ early /\ retries < MaxRetries
    /\ early_data_retry
    /\ retries' = retries + 1
    /\ UNCHANGED <<early, split_lookahead, max_piece, attached, sends, changes, discarded>>

\* early_data_end(false), from on_early_data_rejected.
EarlyRejected ==
    /\ attached /\ early
    /\ early_data_retry
    /\ early' = FALSE
    /\ UNCHANGED <<split_lookahead, max_piece, attached, sends, retries, changes, discarded>>

\* early_data_end(true), from client_handshake_completed.
EarlyAccepted ==
    /\ attached /\ early
    /\ buf' = SubSeq(buf, early_data_head + 1, Len(buf))
    /\ early' = FALSE /\ early_data_head' = 0
    /\ UNCHANGED <<unsent_bytes, split_lookahead, max_piece, attached, history>>

Next ==
    \/ \E n \in Sizes : Send(n)
    \/ \E n \in Lookaheads : SetLookahead(n)
    \/ \E p \in Pieces : PathChange(p)
    \/ Detach
    \/ \E small \in BOOLEAN : FlushAccepted(small) \/ FlushRefused(small)
    \/ FlushNothing
    \/ Retry \/ EarlyRejected \/ EarlyAccepted

Spec == Init /\ [][Next]_vars

\* The loop keeps flushing while there is something to send and ngtcp2 keeps
\* taking what fits into a fresh packet (prefer_small is false there); the
\* handshake ends; a path does not change for ever (MaxChanges).
FairSpec ==
    /\ Spec
    /\ WF_vars(FlushAccepted(FALSE)) /\ WF_vars(FlushNothing)
    /\ WF_vars(EarlyRejected \/ EarlyAccepted)

-----------------------------------------------------------------------------
(* Properties.                                                             *)

Queued == {buf[i].id : i \in DOMAIN buf}
Pieces_of(id) == {p \in wire : p.id = id}

TypeOK ==
    /\ buf \in Seq([id : 1..sends, size : Sizes, status : Statuses, split_pos : Nat])
    /\ early \in BOOLEAN /\ early_data_head \in 0..Len(buf)
    /\ ~early => early_data_head = 0
    /\ unsent_bytes \in Int
    /\ split_lookahead \in Lookaheads /\ max_piece \in Pieces /\ attached \in BOOLEAN
    /\ sends \in 0..MaxSends /\ retries \in 0..MaxRetries /\ changes \in 0..MaxChanges

\* Completed datagrams sit before early_data_head and nowhere else, and behind
\* the head at most the small second part of a datagram is gone: so fetch's
\* assert(!head.sent()) and assert(off == 0 || status == Unsent), and
\* confirm_sent's assert(last_i == early_data_head) ("otherwise it means we
\* messed up and sent datagrams out of order") all hold.
AssertsHold ==
    \A i \in DOMAIN buf :
      /\ i < HeadPos => buf[i].status = "Sent"
      /\ i >= HeadPos => buf[i].status # "Sent"
      /\ i > HeadPos => buf[i].status # "SentFirst"

\* Datagrams become complete at a peer that loses nothing in the order the
\* application queued them, whatever the lookahead sends ahead of schedule.
CompleteInOrder ==
    \A i, j \in DOMAIN arrived : i < j => arrived[i] < arrived[j]

\* The status of a queued datagram says exactly which of its bytes have been
\* sent and not been lost with rejected early data, and no byte is sent twice.
StatusIsTruth ==
    \A i \in DOMAIN buf :
      LET d == buf[i]
      IN  Pieces_of(d.id) =
            CASE d.status = "Unsent"     -> {}
              [] d.status = "SentFirst"  -> {PieceOf(d, "SentFirst")}
              [] d.status = "SentSecond" -> {PieceOf(d, "SentSecond")}
              [] d.status = "Sent"       -> IF Cardinality(Pieces_of(d.id)) = 1
                                            THEN {PieceOf(d, "Sent")}
                                            ELSE {PieceOf(d, "SentFirst"), PieceOf(d, "SentSecond")}

\* No datagram vanishes: each is complete on the wire, still queued, or was
\* discarded by fetch() as too large for the path.
NothingForgotten ==
    \A id \in 1..sends :
      id \in Queued \/ id \in discarded \/ \E j \in DOMAIN arrived : arrived[j] = id

\* pending_bytes() is the number of bytes of queued datagrams that still have to
\* be sent; the queue limit and has_unsent rely on it.
PendingExact ==
    unsent_bytes = SumOver(buf, LAMBDA d :
        d.size - SumOver(SetToSeq(Pieces_of(d.id)), LAMBDA p : p.to - p.from))

\* The backlog exceeds the queue limit by at most the datagram that crossed it.
LimitHolds == \A n \in Sizes : (\A k \in Sizes : k <= n) => unsent_bytes <= QueueLimit + n

\* While one half of a datagram waits for the other, what is sent in between
\* belongs to datagrams at most the lookahead further on.
HalvesClose ==
    \A i \in DOMAIN buf : buf[i].status \in {"SentFirst", "SentSecond"} =>
      \A p \in wire : \E n \in Lookaheads : p.id <= buf[i].id + n

\* A queue that nobody adds to any more empties.
Drains == <>[](attached => HeadPos > Len(buf))
=============================================================================

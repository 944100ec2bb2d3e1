----------------------------- MODULE ByteStream -----------------------------
(***************************************************************************)
(* What the sending half of a stream promises, without how it keeps its    *)
(* books (stream.hpp: send, send_fin, retained; connection.hpp: 0-RTT).    *)
(* The application feeds buffers, which occupy consecutive bytes of the    *)
(* stream.  Bytes are transmitted in order, each once, unless the whole    *)
(* early attempt is void; they are acknowledged in order; the end of the   *)
(* stream is announced with the last byte fed.  A buffer stays in the      *)
(* library's hands until all of it is acknowledged, or until it is taken   *)
(* back before any of it was transmitted.                                  *)
(***************************************************************************)
EXTENDS Integers, Sequences

CONSTANTS
    Ids, Sizes   \* names and sizes of the buffers

VARIABLES
    queue,   \* the buffers held: [id, start, size]
    fed,     \* bytes of the stream so far
    sent, acked,
    fin      \* the end of the stream has been transmitted

vars == <<queue, fed, sent, acked, fin>>

Init == queue = <<>> /\ fed = 0 /\ sent = 0 /\ acked = 0 /\ fin = FALSE

Feed(id, n) ==
    /\ ~fin
    /\ queue' = Append(queue, [id |-> id, start |-> fed, size |-> n])
    /\ fed' = fed + n
    /\ UNCHANGED <<sent, acked, fin>>

\* The buffers behind the one taken back move up.
TakeBack(i) ==
    /\ ~fin /\ sent <= queue[i].start
    /\ queue' = [j \in 1 .. Len(queue) - 1 |->
                   IF j < i THEN queue[j]
                   ELSE [id |-> queue[j + 1].id, start |-> queue[j + 1].start - queue[i].size,
                         size |-> queue[j + 1].size]]
    /\ fed' = fed - queue[i].size
    /\ UNCHANGED <<sent, acked, fin>>

Transmit(n) ==
    /\ ~fin /\ sent + n <= fed
    /\ sent' = sent + n
    /\ fin' \in {FALSE, sent' = fed}
    /\ UNCHANGED <<queue, fed, acked>>

Acked(n) ==
    /\ acked + n <= sent
    /\ acked' = acked + n
    /\ UNCHANGED <<queue, fed, sent, fin>>

Release ==
    /\ queue # <<>> /\ queue[1].start + queue[1].size <= acked
    /\ queue' = Tail(queue)
    /\ UNCHANGED <<fed, sent, acked, fin>>

\* The early attempt was rejected: nothing of it was acknowledged, and all of it
\* is to be transmitted again.
Void ==
    /\ acked = 0
    /\ sent' = 0 /\ fin' = FALSE
    /\ UNCHANGED <<queue, fed, acked>>

Next ==
    \/ \E id \in Ids, n \in Sizes : Feed(id, n)
    \/ \E i \in 1 .. Len(queue) : TakeBack(i)
    \/ \E n \in 0 .. fed - sent : Transmit(n)
    \/ \E n \in 0 .. sent - acked : Acked(n)
    \/ Release \/ Void

Spec == Init /\ [][Next]_vars
=============================================================================

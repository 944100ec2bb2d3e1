------------------------------ MODULE UdpSend ------------------------------
(***************************************************************************)
(* Endpoint::send_packets (endpoint.cpp) over UDPSocket::send (udp.cpp): a *)
(* batch of packets for one path goes to the kernel in as few system calls *)
(* as possible, as runs of segmented (GSO) messages where the socket still *)
(* uses them, and what the kernel did not take stays at the front of the   *)
(* buffer.                                                                 *)
(*                                                                         *)
(* The kernel is external: sendmmsg takes its messages in order, each      *)
(* whole or not at all, up to the first that fails, and reports an error   *)
(* only if that is the first.  A segmented message fails with EIO or       *)
(* EINVAL on a route that cannot segment and with EINVAL when its segments *)
(* are larger than the route's MTU; a single packet fails with EMSGSIZE.   *)
(* The socket can also be full (EAGAIN), and sends can fail for reasons of *)
(* their own.                                                              *)
(***************************************************************************)
EXTENDS Naturals, Sequences, FiniteSets, SequencesExt

CONSTANTS
    MaxSize,     \* bound: size of a packet, in bytes
    MaxPkts,     \* MAX_BATCH
    Ecns,        \* ECN marks
    Routes,      \* routes the path may take: [mtu, gso], gso one of "ok", "EIO", "EINVAL"
    Transient    \* errors a send may meet at any moment

ASSUME UdpSendAssumption ==
    /\ MaxSize \in Nat \ {0} /\ MaxPkts \in Nat \ {0}
    /\ \A r \in Routes : r.mtu \in Nat /\ r.gso \in {"ok", "EIO", "EINVAL"}
    /\ Transient \subseteq {"EAGAIN", "ENOBUFS", "UNREACHABLE", "FAILED"}

VARIABLES
    gso,         \* gso_: the socket sends segmented messages
    route,       \* the route packets of the path take
    offered,     \* the batch, as it was handed to send_packets first
    buf,         \* buf, bufsize and ecn: the packets not yet sent
    wire,        \* the packets that left, each with its bytes and mark
    reported,    \* the packets send() reported as sent, in order
    lost,        \* the packets send_packets dropped as too big
    retried,     \* send_packets' flag
    phase,       \* "idle", "sending", "blocked" (packets left), "done" (none left)
    broken       \* a route that cannot segment has been used

vars == <<gso, route, offered, buf, wire, reported, lost, retried, phase, broken>>

Packets == [id : 1..MaxPkts, size : 1..MaxSize, ecn : Ecns]

\* A packet's content: its k-th byte is <<id, k>>.
BytesOf(pkt) == [k \in 1..pkt.size |-> <<pkt.id, k>>]
Frame(pkt) == [bytes |-> BytesOf(pkt), ecn |-> pkt.ecn]
Frames(pkts) == [i \in 1..Len(pkts) |-> Frame(pkts[i])]
\* The send buffer: the packets' bytes, one after the other.
Bytes(pkts) == FlattenSeq([i \in 1..Len(pkts) |-> BytesOf(pkts[i])])

TypeOK ==
    /\ gso \in BOOLEAN /\ retried \in BOOLEAN /\ broken \in BOOLEAN
    /\ route \in Routes /\ phase \in {"idle", "sending", "blocked", "done"}
    /\ \A s \in {offered, buf, reported} : Len(s) <= MaxPkts /\ Range(s) \subseteq Packets
    /\ lost \subseteq Packets
    /\ \A i \in 1..Len(wire) : wire[i].ecn \in Ecns /\ Len(wire[i].bytes) \in 1..MaxSize
    /\ (phase \in {"idle", "done"}) = (buf = <<>>)

Init ==
    /\ gso \in BOOLEAN /\ route \in Routes
    /\ offered = <<>> /\ buf = <<>> /\ wire = <<>> /\ reported = <<>> /\ lost = {}
    /\ retried = FALSE /\ phase = "idle"
    /\ broken = FALSE

-----------------------------------------------------------------------------
\* The kernel.  A message is [bytes, size, count, ecn]: count packets of size bytes each, the
\* last of which may be shorter.

Reject(m) ==
    IF m.count > 1 /\ route.gso # "ok" THEN route.gso
    ELSE IF m.count > 1 /\ m.size > route.mtu THEN "EINVAL"
    ELSE IF m.count = 1 /\ Len(m.bytes) > route.mtu THEN "EMSGSIZE"
    ELSE "ok"

\* The messages before the first that the route rejects; sendmmsg may stop earlier for a
\* transient reason.
sendmmsg(msgs) ==
    LET bad   == {i \in 1..Len(msgs) : Reject(msgs[i]) # "ok"}
        limit == IF bad = {} THEN Len(msgs) ELSE Min(bad) - 1
    IN  {[n |-> limit, err |-> IF limit = 0 THEN Reject(msgs[1]) ELSE "ok"]}
        \cup {[n |-> k, err |-> "ok"] : k \in IF Transient = {} THEN {} ELSE 1..(limit - 1)}
        \cup {[n |-> 0, err |-> e] : e \in IF limit = 0 THEN {} ELSE Transient}

\* What a message puts on the wire.
Segments(m) ==
    LET n == (Len(m.bytes) + m.size - 1) \div m.size
    IN  [k \in 1..n |-> [bytes |-> SubSeq(m.bytes, (k - 1) * m.size + 1,
                                          IF k = n THEN Len(m.bytes) ELSE k * m.size),
                         ecn |-> m.ecn]]

Out(msgs, n) == FlattenSeq([i \in 1..n |-> Segments(msgs[i])])

-----------------------------------------------------------------------------
\* UDPSocket::send.

\* Mutant: a shorter packet need not be the last.
JoinsNextAnyway(b, i, size, count) ==
    /\ i < Len(b) /\ b[i + 1].ecn = b[i].ecn
    /\ b[i + 1].size = size \/ (b[i + 1].size < size /\ count >= 2)

\* The next packet joins the run that packet i ends: it has the same mark and size, or is
\* shorter and there are two full-size packets already.
JoinsNext(b, i, size, count) ==
    /\ i < Len(b) /\ b[i].size = size /\ b[i + 1].ecn = b[i].ecn
    /\ b[i + 1].size = size \/ (b[i + 1].size < size /\ count >= 2)

\* One message for each run of packets, cut from the buffer from left to right.
GsoMessages(b) ==
    LET run[i \in 0..Len(b)] ==
            IF i = 0 THEN [msgs |-> <<>>, size |-> 0, count |-> 0, from |-> 0, len |-> 0]
            ELSE LET r     == run[i - 1]
                     size  == IF r.size = 0 THEN b[i].size ELSE r.size
                     count == r.count + 1
                     len   == r.len + b[i].size
                 IN  IF JoinsNext(b, i, size, count)
                     THEN [r EXCEPT !.size = size, !.count = count, !.len = len]
                     ELSE [msgs |-> Append(r.msgs, [bytes |-> SubSeq(Bytes(b), r.from + 1, r.from + len),
                                                    size |-> size, count |-> count, ecn |-> b[i].ecn]),
                           size |-> 0, count |-> 0, from |-> r.from + len, len |-> 0]
    IN  run[Len(b)].msgs

PlainMessages(b) ==
    [i \in 1..Len(b) |-> [bytes |-> BytesOf(b[i]), size |-> b[i].size, count |-> 1, ecn |-> b[i].ecn]]

\* The packets in the messages the kernel took.
GsoCount(msgs, n) == FoldLeft(LAMBDA acc, m : acc + m.count, 0, SubSeq(msgs, 1, n))

\* A segmented send failed and the plain resend had `sent' of n packets taken: segmenting was
\* the problem if the route said so, or if the packets went through without it.
GivesUpGso(err, sent, n) == err = "EIO" \/ (err = "EINVAL" /\ sent = n)

\* The results of sending b without segmentation after a segmented send failed with err.
PlainSend(b, err) ==
    LET msgs == PlainMessages(b)
    IN  {[ret |-> r.err, sent |-> r.n, out |-> Out(msgs, r.n),
          gso |-> gso /\ ~GivesUpGso(err, r.n, Len(b))] : r \in sendmmsg(msgs)}

send(b) ==
    IF ~gso THEN PlainSend(b, "ok")
    ELSE LET msgs == GsoMessages(b)
         IN  UNION {IF r.err \in {"EIO", "EINVAL"} THEN PlainSend(b, r.err)
                    ELSE {[ret |-> r.err, sent |-> GsoCount(msgs, r.n), out |-> Out(msgs, r.n),
                           gso |-> gso]} : r \in sendmmsg(msgs)}

-----------------------------------------------------------------------------
\* Endpoint::send_packets.

Offer ==
    /\ phase = "idle"
    /\ \E n \in 1..MaxPkts : \E sizes \in [1..n -> 1..MaxSize], marks \in [1..n -> Ecns] :
          buf' = [i \in 1..n |-> [id |-> i, size |-> sizes[i], ecn |-> marks[i]]]
    /\ offered' = buf'
    /\ phase' = "sending"
    /\ UNCHANGED <<gso, route, wire, reported, lost, retried, broken>>

\* The connection starts another batch.
Finish ==
    /\ phase = "done"
    /\ offered' = <<>> /\ wire' = <<>> /\ reported' = <<>> /\ lost' = {}
    /\ retried' = FALSE /\ phase' = "idle"
    /\ UNCHANGED <<gso, route, buf, broken>>

\* The host's network changed between two calls.
Reroute ==
    /\ phase \in {"idle", "blocked"}
    /\ \E r \in Routes : route' = r
    /\ UNCHANGED <<gso, offered, buf, wire, reported, lost, retried, phase, broken>>

\* Mutant: only packets larger than the one refused go.
drop_packets_above(b, size) == SelectSeq(b, LAMBDA pkt : pkt.size <= size)

\* The packets at least as large as the one the kernel refused go; the rest move up.
drop_packets_from(b, size) == SelectSeq(b, LAMBDA pkt : pkt.size < size)

\* The unsent packets, moved to the front of the buffer.
Unsent(b, sent) == SubSeq(b, sent + 1, Len(b))

\* send_packets returns with rest in the buffer; it empties it unless the socket is blocked.
Leave(rest) ==
    /\ buf' = rest
    /\ phase' = IF rest = <<>> THEN "done" ELSE "blocked"
    /\ UNCHANGED <<lost, retried>>

TooBig(rest) ==
    LET kept == drop_packets_from(rest, rest[1].size) IN
    /\ lost' = lost \cup (Range(rest) \ Range(kept))
    /\ buf' = kept
    /\ phase' = IF kept = <<>> THEN "done" ELSE "sending"
    /\ retried' = FALSE

\* Fewer packets than asked and no error: try once more to find out why.
Short(rest) ==
    IF retried THEN Leave(rest)
    ELSE /\ buf' = rest
         /\ retried' = TRUE
         /\ UNCHANGED <<phase, lost>>

\* One turn of send_packets' loop.
send_packets ==
    /\ phase = "sending"
    /\ \E r \in send(buf) :
          LET rest == Unsent(buf, r.sent) IN
          /\ wire' = wire \o r.out
          /\ reported' = reported \o SubSeq(buf, 1, r.sent)
          /\ gso' = r.gso
          /\ broken' = (broken \/ route.gso # "ok")
          /\ CASE rest = <<>>           -> Leave(<<>>)
               [] rest # <<>> /\ r.ret = "EAGAIN"   -> Leave(rest)
               [] rest # <<>> /\ r.ret = "EMSGSIZE" -> TooBig(rest)
               [] rest # <<>> /\ r.ret \in {"ENOBUFS", "UNREACHABLE", "FAILED"} -> Leave(<<>>)
               [] rest # <<>> /\ r.ret = "ok"       -> Short(rest)
    /\ UNCHANGED <<route, offered>>

\* The socket is writable again and the endpoint sends what is left.
Resend ==
    /\ phase = "blocked"
    /\ phase' = "sending"
    /\ retried' = FALSE
    /\ UNCHANGED <<gso, route, offered, buf, wire, reported, lost, broken>>

Next == Offer \/ Reroute \/ send_packets \/ Resend \/ Finish

Spec == Init /\ [][Next]_vars

-----------------------------------------------------------------------------
\* What send() reports as sent is what left the host: the same packets with the same boundaries
\* and marks, in order, whether or not they travelled in segmented messages, were resent without
\* segmentation, or followed packets that were dropped from the middle of the buffer.
WireIsReported == wire = Frames(reported)

\* Until a send fails for good nothing of a batch is lost without trace and nothing is sent
\* twice: in the order they were offered, packets are reported sent, dropped as too big, or
\* still in the buffer.
Accounted ==
    phase \in {"sending", "blocked"} =>
        reported \o buf = SelectSeq(offered, LAMBDA pkt : pkt \notin lost)

\* A packet is dropped as too big only if it is larger than the MTU of the route, although the
\* kernel refuses whole messages and send_packets drops by size.
DroppedTooBig == [][\A pkt \in lost' \ lost : pkt.size > route.mtu]_vars

\* The socket stops using segmented messages only if it met a route that cannot segment: an
\* EINVAL that came from a run of too large packets does not count.
GsoOffOnlyIfBroken == [][gso /\ ~gso' => broken']_vars

\* send_packets' loop ends: every turn that does not leave it sends or drops a packet.
TurnsShrink == [][phase = "sending" /\ phase' = "sending" => Len(buf') < Len(buf)]_vars

=============================================================================

----------------------------- MODULE UdpReceive -----------------------------
(***************************************************************************)
(* UDPSocket::receive and process_received (udp.cpp): reading the socket   *)
(* in batches with recvmmsg, and cutting the packets that the kernel's GRO *)
(* merged into one message apart again.                                    *)
(*                                                                         *)
(* The kernel is external: it queues a datagram as a message of its own or *)
(* merges it into the last message of the queue, when that is of the same  *)
(* flow and holds packets of one size, no smaller than the new one; a      *)
(* shorter packet closes the message.  A message's data is its length; its *)
(* segment is what the UDP_GRO control message reports (0: none).          *)
(***************************************************************************)
EXTENDS Integers, Sequences, SequencesExt

CONSTANTS
    Gro,        \* whether GRO is on (gro_)
    Slots,      \* messages a recvmmsg call can return
    Limit,      \* MAX_RECEIVE_PER_LOOP
    PerSlot,    \* bound: packets GRO merges into a message
    Sizes,      \* packet sizes
    TooLong,    \* a size that no slot holds
    Flows,      \* remote addresses
    MaxPackets  \* bound: packets that arrive

VARIABLES
    queue,      \* messages in the socket's receive queue
    arrived,    \* packets that arrived, in order
    delivered,  \* packets given to receive_callback_
    reading,    \* receive() is running
    count,      \* its count
    call        \* history: messages read by the latest call, the empty ones
                \* among them, and the packets handed on

vars == <<queue, arrived, delivered, reading, count, call>>

Packets == [flow : Flows, size : Sizes \cup {TooLong}]
Messages == [flow : Flows, len : Nat, segment : Nat]

TypeOK ==
    /\ queue \in Seq(Messages) /\ arrived \in Seq(Packets)
    /\ delivered \in Seq([flow : Flows, size : Sizes \ {0}])
    /\ reading \in BOOLEAN /\ count \in Nat
    /\ ~reading => count = 0
    /\ count <= Len(arrived)
    /\ call \in [messages : Nat, empty : Nat, packets : Nat]

Nothing == [messages |-> 0, empty |-> 0, packets |-> 0]
Init ==
    /\ queue = <<>> /\ arrived = <<>> /\ delivered = <<>> /\ reading = FALSE /\ count = 0
    /\ call = Nothing

-----------------------------------------------------------------------------
\* A packet arrives: in a message of its own, ...
Arrive(p) ==
    /\ Len(arrived) < MaxPackets
    /\ arrived' = Append(arrived, p)
    /\ queue' = Append(queue, [flow |-> p.flow, len |-> p.size, segment |-> 0])
    /\ UNCHANGED <<delivered, reading, count, call>>

\* ... or merged by GRO.
Merge(p) ==
    /\ Gro /\ Len(arrived) < MaxPackets /\ queue # <<>>
    /\ p.size \in Sizes \ {0}
    /\ LET last == queue[Len(queue)]
           seg  == IF last.segment = 0 THEN last.len ELSE last.segment
       IN  /\ last.flow = p.flow /\ last.len \notin {0, TooLong}
           /\ last.len % seg = 0 /\ p.size <= seg /\ last.len < PerSlot * seg
           /\ queue' = [queue EXCEPT ![Len(queue)] = [@ EXCEPT !.len = @ + p.size, !.segment = seg]]
    /\ arrived' = Append(arrived, p)
    /\ UNCHANGED <<delivered, reading, count, call>>

-----------------------------------------------------------------------------
\* Mutant: a short packet at the end of a merged message is lost.
Cut_short(len, segment) == [i \in 1..(len \div segment) |-> segment]

\* The lengths into which process_received cuts a merged message.
Cut(len, segment) ==
    [i \in 1..((len + segment - 1) \div segment) |->
        IF i * segment <= len THEN segment ELSE len - (i - 1) * segment]

\* The packets process_received hands on: none of an empty or a truncated message.
process_received(msg) ==
    IF msg.len \in {0, TooLong} THEN <<>>
    ELSE IF msg.segment = 0 \/ msg.len <= msg.segment THEN <<[flow |-> msg.flow, size |-> msg.len]>>
    ELSE LET lens == Cut(msg.len, msg.segment)
         IN  [i \in DOMAIN lens |-> [flow |-> msg.flow, size |-> lens[i]]]

\* The number it returns: a truncated message counts, an empty one does not.
Counted(msg) == IF msg.len = TooLong THEN 1 ELSE Len(process_received(msg))

\* The socket becomes readable and the loop calls receive().
Start ==
    /\ ~reading /\ queue # <<>>
    /\ reading' = TRUE /\ call' = Nothing
    /\ UNCHANGED <<queue, arrived, delivered, count>>

\* receive()'s loop condition, after a call that returned nread messages.
Goes_on(nread, total) == nread = Slots /\ total < Limit

\* One call of recvmmsg and the processing of its messages.
Recvmmsg ==
    /\ reading
    /\ LET nread == IF Len(queue) < Slots THEN Len(queue) ELSE Slots
           batch == SubSeq(queue, 1, nread)
           got   == FlattenSeq([i \in 1..nread |-> process_received(batch[i])])
           total == count + FoldLeft(LAMBDA n, msg : n + Counted(msg), 0, batch)
       IN  /\ queue' = SubSeq(queue, nread + 1, Len(queue))
           /\ delivered' = delivered \o got
           /\ reading' = Goes_on(nread, total)
           /\ count' = IF reading' THEN total ELSE 0
           /\ call' = [messages |-> call.messages + nread,
                       empty |-> call.empty + Len(SelectSeq(batch, LAMBDA msg : msg.len = 0)),
                       packets |-> call.packets + Len(got)]
    /\ UNCHANGED arrived

\* recvmmsg reports an error (other than an interruption, after which it is called again).
RecvFails ==
    /\ reading
    /\ reading' = FALSE /\ count' = 0
    /\ UNCHANGED <<queue, arrived, delivered, call>>

Next ==
    \/ Start \/ Recvmmsg \/ RecvFails
    \/ \E p \in Packets : Arrive(p) \/ Merge(p)

Spec == Init /\ [][Next]_vars

-----------------------------------------------------------------------------
\* The packets worth handing on, of a sequence of packets.
Kept(s) == SelectSeq(s, LAMBDA p : p.size \notin {0, TooLong})

\* What the application has been given is exactly what arrived, packet for packet and in order, up
\* to what is still in the socket: however GRO merged them, no packet is lost, joined or cut.
SamePackets ==
    /\ IsPrefix(delivered, Kept(arrived))
    /\ queue = <<>> => delivered = Kept(arrived)

\* However fast packets arrive while it runs, a call of receive() reads at most one batch of
\* messages beyond its limit and hands on at most one batch of packets beyond it, empty messages
\* apart: they are not counted, and a call whose batches they fill goes on reading.
Yields ==
    /\ call.messages - call.empty <= (Limit - 1) + Slots
    /\ call.packets <= (Limit - 1) + Slots * PerSlot

=============================================================================

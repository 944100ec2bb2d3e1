------------------------------- MODULE MCUdp -------------------------------
(* The UDP socket for model checking: batches over routes that can and cannot *)
(* segment or carry them, and the receive queue with merged packets, wide     *)
(* enough for several messages or with a limit that is soon reached.  The two *)
(* directions share no variables, so each is explored with the other at rest: *)
(* `focus` says which.                                                        *)
EXTENDS UdpSend

VARIABLES focus, queue, arrived, delivered, reading, count, call

rvars == <<queue, arrived, delivered, reading, count, call>>

AllRoutes == [mtu : {2, 3}, gso : {"ok", "EIO", "EINVAL"}]

Several == INSTANCE UdpReceive WITH
             Gro <- TRUE, Slots <- 2, Limit <- 3, PerSlot <- 3, Sizes <- {1, 3}, TooLong <- 99,
             Flows <- {"f1", "f2"}, MaxPackets <- 5
Limited == INSTANCE UdpReceive WITH
             Gro <- TRUE, Slots <- 1, Limit <- 2, PerSlot <- 2, Sizes <- {0, 1, 2}, TooLong <- 99,
             Flows <- {"f1"}, MaxPackets <- 6

MCInit ==
    /\ focus \in {"send", "receive", "limit"}
    /\ Init /\ Several!Init
    /\ focus # "send" => ~gso /\ route = [mtu |-> 2, gso |-> "ok"]

\* Every packet that is to arrive has been read.
AllRead == focus # "send" /\ queue = <<>> /\ ~reading /\ UNCHANGED <<vars, rvars>>

MCNext ==
    /\ UNCHANGED focus
    /\ \/ focus = "send" /\ Next /\ UNCHANGED rvars
       \/ focus = "receive" /\ Several!Next /\ UNCHANGED vars
       \/ focus = "limit" /\ Limited!Next /\ UNCHANGED vars
       \/ AllRead

MCSpec == MCInit /\ [][MCNext]_<<focus, vars, rvars>>

-----------------------------------------------------------------------------
\* What send() reports as sent is what left the host, packet for packet, and until a
\* send fails for good every packet of a batch is reported, dropped as too big, or
\* still in the buffer.
SentAsReported == TypeOK /\ WireIsReported /\ Accounted

\* What the application has been given is exactly what arrived, packet for packet
\* and in order, however the kernel merged them; and a call of receive() reads at
\* most one batch of messages beyond its limit, empty ones apart.
ReceivedAsSent ==
    /\ focus = "receive" => Several!TypeOK /\ Several!SamePackets /\ Several!Yields
    /\ focus = "limit" => Limited!TypeOK /\ Limited!SamePackets /\ Limited!Yields

\* Every turn of send_packets' loop sends or drops a packet, drops only what is too
\* big for the route, and gives segmentation up only on a route that cannot.
TurnsAreSound == TurnsShrink /\ DroppedTooBig /\ GsoOffOnlyIfBroken
=============================================================================

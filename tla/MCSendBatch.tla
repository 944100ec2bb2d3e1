---------------------------- MODULE MCSendBatch ----------------------------
(* Writing packets, for model checking: two connections over a socket that     *)
(* takes some of a batch, three that wait on one another, and two whose packets *)
(* the application's manual router sends; and the loop of one flush over the    *)
(* channels of its connection.  The batch and the loop share no variables, so   *)
(* each is explored with the other at rest: `focus` says which.                 *)
EXTENDS SendBatch, TLC

VARIABLES focus,
    pc, how, channels, end_valid, astray, unsent, unacked, send_fin, sent_fin, notify, shut,
    dgrams, kept, partial, n_packets, stream_packets, cwnd, control, refused, f_io_trigger,
    calls

fvars == <<pc, how, channels, end_valid, astray, unsent, unacked, send_fin, sent_fin,
           notify, shut, dgrams, kept, partial, n_packets, stream_packets, cwnd, control,
           refused, f_io_trigger, calls>>

Router == INSTANCE SendBatch WITH
            Sizes <- {1}, Quantum <- 2, MaxPackets <- 2, manual_routing <- TRUE

\* The connections that have had something to send, or end.
Crowd == {c \in Conns : written[c] + backlog[c] > 0} \cup ending

\* Two streams and early datagrams that fill up to two packets; the second stream
\* starts with at most half a packet and without a FIN.
OneFlush == INSTANCE FlushLoop WITH
           NStreams <- 2, Offer <- 2, Early <- TRUE, MaxData <- 2, MaxCwnd <- 3,
           MaxControl <- 1, MaxCalls <- 1, io_trigger <- f_io_trigger

MCInit ==
    /\ OneFlush!Init
    /\ Init
    /\ \/ focus \in {"two", "router"} /\ Cardinality(io_trigger) = 2
       \/ focus = "three" /\ io_trigger = Conns
       \/ focus = "flush" /\ io_trigger = {}
    /\ unsent[2] <= 1 /\ send_fin \subseteq {1} /\ (notify # {} => unsent[1] = 0)
    /\ cwnd # 1 /\ (cwnd = 0 => unsent[2] = 0)
    /\ focus # "flush" => /\ unsent = [s \in 1..2 |-> 0] /\ send_fin = {} /\ notify = {}
                          /\ dgrams = 0 /\ cwnd = 0 /\ control = 0

MCNext ==
    /\ UNCHANGED focus
    /\ \/ /\ \/ focus = "two" /\ Next /\ Cardinality(Crowd') = 2
             \/ focus = "three" /\ Next /\ \A c \in Conns : written'[c] + backlog'[c] = 1
             \/ focus = "router" /\ Router!Next /\ Cardinality(Crowd') = 2
          /\ UNCHANGED fvars
       \/ focus = "flush" /\ OneFlush!Next /\ UNCHANGED vars

MCSpec == MCInit /\ [][MCNext]_<<focus, vars, fvars>>

Symmetry == Permutations(Conns)

-----------------------------------------------------------------------------
\* A flush serves its channels soundly: its list holds each of them once, with the
\* pseudo stream last; it leaves the batch empty or stalled and no packet half
\* written; it passes over no data that ngtcp2 would have taken; and it ends.
FlushSound == [][focus = "flush" => OneFlush!Sound' /\ OneFlush!Progress]_fvars
=============================================================================

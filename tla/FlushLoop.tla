------------------------------ MODULE FlushLoop ------------------------------
(***************************************************************************)
(* Connection::flush_packets: the loop that offers the streams and the     *)
(* datagrams of a connection to ngtcp2 in turn and ends with the pseudo    *)
(* stream, which finishes the last packet.                                 *)
(*                                                                         *)
(* A turn of the loop is one action: only the watermark callbacks of       *)
(* wrote() come in between, and what they call is part of the turn.  Of    *)
(* ngtcp2 the model knows whether a packet is partly filled, how many the  *)
(* congestion window admits and how many frames of its own wait; data is   *)
(* counted, Offer units of it filling a packet.                            *)
(***************************************************************************)
EXTENDS Integers, Sequences, SequencesExt

CONSTANTS
    NStreams,     \* the streams of the connection are 1..NStreams, in the order of their ids
    Offer,        \* MAX_PMTUD_UDP_PAYLOAD: what pending() is asked for and a packet holds
    MAX_BATCH,
    Quantum,      \* max_stream_packets
    Early,        \* early data: datagrams sent stay in the queue
    MaxData,      \* bound: what a stream has unsent, and the datagrams queued
    MaxCwnd,      \* bound: packets the congestion window admits
    MaxControl,   \* bound: packets filled with frames of ngtcp2's own
    MaxCalls      \* bound: calls made by watermark callbacks

VARIABLES
    pc,             \* "idle", in the "loop", or at the "final" send
    how,            \* how the last flush ended: "none", "ended", "quantum", "stalled",
                    \* "unreachable", or "over" with the connection
    channels,       \* the list; streams are numbers
    end_valid,      \* the element streams_end_it refers to is in the list
    astray,         \* history: streams_end_it was used when it was not
    unsent, unacked,                  \* of each stream; those with unacknowledged data
    send_fin, sent_fin, notify, shut, \* sets of streams
    dgrams,         \* datagrams not sent yet
    kept,           \* datagrams that were sent are still in the queue
    partial,        \* partially_filled
    n_packets, stream_packets,
    cwnd, control,  \* of ngtcp2
    refused,        \* history: channels whose data ngtcp2 has refused in this flush
    io_trigger, calls

data == <<unsent, unacked, send_fin, sent_fin, notify, shut, dgrams, kept, io_trigger, calls>>
net  == <<partial, cwnd, control, refused>>
vars == <<pc, how, channels, end_valid, astray, data, net, n_packets, stream_packets>>

Streams == 1..NStreams
Pseudo  == 0
Dgrams  == NStreams + 1

Init ==
    /\ pc = "idle" /\ how = "none" /\ channels = <<>> /\ end_valid = FALSE /\ astray = FALSE
    /\ unsent \in [Streams -> 0..MaxData] /\ unacked = {}
    /\ send_fin \in SUBSET Streams /\ sent_fin = {} /\ notify \in {{}, {1}} /\ shut = {}
    /\ dgrams \in 0..MaxData /\ kept = FALSE
    /\ partial = FALSE /\ n_packets = 0 /\ stream_packets = 0
    /\ cwnd \in 0..MaxCwnd /\ control \in 0..MaxControl /\ refused = {}
    /\ io_trigger = TRUE /\ calls = 0

\* Stream::has_unsent and Datagrams::has_unsent: that the buffers are not empty.
has_unsent(c) ==
    CASE c = Dgrams -> dgrams > 0 \/ kept
      [] c = Pseudo -> FALSE
      [] OTHER      -> unsent[c] > 0 \/ c \in unacked

\* The list: from a random stream on, the datagrams, the streams before it.
From(mid) ==
    [i \in Streams |-> IF i <= NStreams - mid + 1 THEN mid + i - 1 ELSE i - (NStreams - mid + 1)]
Listed(mid) ==
    SelectSeq(InsertAt(From(mid), NStreams - mid + 2, Dgrams),
              LAMBDA c : IF c = Dgrams THEN has_unsent(Dgrams) ELSE c \notin sent_fin)
      \o <<Pseudo>>

flush_packets ==
    /\ pc = "idle" /\ io_trigger /\ how \notin {"stalled", "over"}
    /\ pc' = "loop" /\ io_trigger' = FALSE
    /\ \E mid \in Streams : channels' = Listed(mid)
    /\ end_valid' = TRUE /\ refused' = {} /\ stream_packets' = 0 /\ how' = "none"
    /\ UNCHANGED <<astray, unsent, unacked, send_fin, sent_fin, notify, shut, dgrams, kept, calls,
                   partial, n_packets, cwnd, control>>

-----------------------------------------------------------------------------
(* What happens to the list and to the batch.                              *)

source == Head(channels)
rest   == Tail(channels)

\* The loop goes on with the given list, if it has not been exhausted.
GoOn(list) ==
    /\ channels' = list /\ pc' = IF list = <<>> THEN "final" ELSE "loop"
    /\ UNCHANGED how

\* send() fails: the flush is over.
SendFails ==
    /\ \/ how' = "stalled" /\ n_packets' \in 1..n_packets + (IF pc = "loop" THEN 1 ELSE 0)
       \/ how' \in {"unreachable", "over"} /\ n_packets' = 0
    /\ pc' = "idle" /\ channels' = <<>>

\* A packet is complete: it is added to the batch, the batch sent if it is full, and the
\* loop left at the quantum.
Completed(list) ==
    /\ stream_packets' = stream_packets + 1
    /\ \/ /\ n_packets' = IF n_packets + 1 = MAX_BATCH THEN 0 ELSE n_packets + 1
          /\ \/ stream_packets + 1 = Quantum /\ pc' = "final" /\ how' = "quantum" /\ channels' = <<>>
             \/ stream_packets + 1 # Quantum /\ GoOn(list)
       \/ n_packets + 1 = MAX_BATCH /\ SendFails

\* Mutant: listed at the very end.
CompletedByMutant(c) ==
    /\ astray' = astray
    /\ Completed(IF has_unsent(c)' THEN Append(rest, c) ELSE rest)

\* ... the channel that was served being listed once more, just before the end, if its
\* buffers are not empty now.  (stream_id, which the code compares with -1 first, has no
\* value if that is the datagrams; the list not being empty decides.)
CompletedBy(c) ==
    /\ astray' = (astray \/ (has_unsent(c)' /\ ~end_valid))
    /\ Completed(IF has_unsent(c)' THEN Front(rest) \o <<c, Last(rest)>> ELSE rest)

\* After the loop: what is left in the batch is sent.
FinalSend ==
    /\ pc = "final"
    /\ \/ /\ n_packets' = 0 /\ pc' = "idle" /\ how' = IF how = "none" THEN "ended" ELSE how
          /\ UNCHANGED channels
       \/ n_packets > 0 /\ SendFails
    /\ UNCHANGED <<end_valid, astray, data, net, stream_packets>>

\* The socket is writable again: the batch goes out and its owner is woken.
Writable ==
    /\ pc = "idle" /\ how = "stalled"
    /\ how' = "none" /\ n_packets' = 0 /\ io_trigger' = TRUE
    /\ UNCHANGED <<pc, channels, end_valid, astray, unsent, unacked, send_fin, sent_fin, notify, shut,
                   dgrams, kept, calls, net, stream_packets>>

-----------------------------------------------------------------------------
(* A stream's turn.                                                        *)

\* What one write can take of what pending() offers, which are whole buffers, and whether
\* the FIN can go with it: ngtcp2 sends that only if it has taken all that is unsent.
offered(s) == IF unsent[s] < Offer THEN unsent[s] ELSE Offer
fin(s)     == s \in send_fin /\ unsent[s] <= Offer

\* wrote(k), and what a watermark callback may do: send on a stream, finish or close one,
\* send a datagram.
Wrote(s, k) ==
    LET sent == [unsent EXCEPT ![s] = @ - k]
    IN  /\ unacked' = IF k > 0 THEN unacked \cup {s} ELSE unacked
        /\ sent_fin' = IF fin(s) /\ k = offered(s) THEN sent_fin \cup {s} ELSE sent_fin
        /\ notify' = notify \ {s}
        /\ UNCHANGED kept
        /\ \/ unsent' = sent /\ UNCHANGED <<send_fin, shut, dgrams, io_trigger, calls>>
           \/ /\ calls < MaxCalls /\ calls' = calls + 1 /\ io_trigger' = TRUE
              /\ \/ \E t \in Streams \ send_fin :
                       unsent' = [sent EXCEPT ![t] = @ + 1] /\ UNCHANGED <<send_fin, shut, dgrams>>
                 \/ \E t \in Streams :
                       /\ send_fin' = send_fin \cup {t} /\ shut' \in {shut, shut \cup {t}}
                       /\ unsent' = sent /\ UNCHANGED dgrams
                 \/ dgrams' = dgrams + 1 /\ unsent' = sent /\ UNCHANGED <<send_fin, shut>>

StreamTurn(s) ==
    /\ pc = "loop" /\ source = s
    /\ UNCHANGED end_valid
    /\ \/ \* pending() is empty and there is no FIN to be sent
          /\ offered(s) = 0 /\ ~fin(s) /\ s \notin notify
          /\ GoOn(rest) /\ UNCHANGED <<astray, data, net, n_packets, stream_packets>>
       \/ \* STREAM_SHUT_WR, STREAM_DATA_BLOCKED, STREAM_NOT_FOUND
          /\ offered(s) > 0 \/ (s \in shut \cup sent_fin /\ (fin(s) \/ s \in notify))
          /\ refused' = refused \cup {s}
          /\ GoOn(rest) /\ UNCHANGED <<astray, data, partial, cwnd, control, n_packets, stream_packets>>
       \/ /\ offered(s) > 0 \/ fin(s) \/ s \in notify
          /\ s \notin shut \cup sent_fin
          /\ \/ \* congested: on to the pseudo stream
                /\ cwnd = 0 /\ ~partial
                /\ astray' = (astray \/ ~end_valid) /\ GoOn(<<Last(rest)>>)
                /\ UNCHANGED <<data, net, n_packets, stream_packets>>
             \/ \* WRITE_MORE: all that was offered, or all that flow control admits
                /\ cwnd > 0 \/ partial
                /\ \E k \in 0..offered(s) :
                     /\ (k = offered(s) /\ k < Offer) \/ (0 < k /\ k < offered(s))
                     /\ refused' = IF k < offered(s) THEN refused \cup {s} ELSE refused
                     /\ Wrote(s, k)
                /\ partial' = TRUE /\ GoOn(rest)
                /\ UNCHANGED <<astray, cwnd, control, n_packets, stream_packets>>
             \/ \* a packet with some of the data
                /\ cwnd > 0 \/ partial
                /\ \E k \in 0..offered(s) : (k > 0 \/ offered(s) = 0) /\ Wrote(s, k)
                /\ partial' = FALSE /\ cwnd' = cwnd - 1
                /\ CompletedBy(s)
                /\ UNCHANGED <<control, refused>>
             \/ \* a packet without any, full of what else was to be sent
                /\ \/ partial /\ cwnd' = cwnd - 1 /\ UNCHANGED control
                   \/ ~partial /\ cwnd > 0 /\ control > 0 /\ cwnd' = cwnd - 1 /\ control' = control - 1
                /\ partial' = FALSE /\ UNCHANGED <<data, refused>>
                /\ CompletedBy(s)

-----------------------------------------------------------------------------
(* The datagrams' turn: j of them are accepted with WRITE_MORE before the  *)
(* write that ends it.                                                     *)

Confirmed(n) ==
    /\ dgrams' = dgrams - n /\ kept' = (kept \/ (Early /\ n > 0))
    /\ UNCHANGED <<unsent, unacked, send_fin, sent_fin, notify, shut, io_trigger, calls>>

DgramTurn ==
    /\ pc = "loop" /\ source = Dgrams
    /\ UNCHANGED end_valid
    /\ \E j \in 0..dgrams :
         /\ j > 0 => cwnd > 0 \/ partial
         /\ \/ \* there is no other
               /\ j = dgrams /\ Confirmed(j)
               /\ partial' = (partial \/ j > 0)
               /\ GoOn(IF j > 0 /\ has_unsent(Dgrams)' THEN <<Dgrams>> \o rest ELSE rest)
               /\ UNCHANGED <<astray, cwnd, control, refused, n_packets, stream_packets>>
            \/ \* INVALID_STATE, INVALID_ARGUMENT
               /\ j < dgrams /\ Confirmed(j)
               /\ partial' = (partial \/ j > 0) /\ refused' = refused \cup {Dgrams}
               /\ GoOn(rest)
               /\ UNCHANGED <<astray, cwnd, control, n_packets, stream_packets>>
            \/ \* congested
               /\ j = 0 /\ dgrams > 0 /\ cwnd = 0 /\ ~partial
               /\ GoOn(rest)
               /\ UNCHANGED <<astray, data, net, n_packets, stream_packets>>
            \/ \* a packet that ends with the next one
               /\ j < dgrams /\ (cwnd > 0 \/ partial) /\ Confirmed(j + 1)
               /\ partial' = FALSE /\ cwnd' = cwnd - 1
               /\ CompletedBy(Dgrams)
               /\ UNCHANGED <<control, refused>>
            \/ \* a packet that has no room for the next one
               /\ j < dgrams /\ Confirmed(j)
               /\ \/ (partial \/ j > 0) /\ UNCHANGED control
                  \/ ~partial /\ j = 0 /\ cwnd > 0 /\ control > 0 /\ control' = control - 1
               /\ partial' = FALSE /\ cwnd' = cwnd - 1
               /\ IF j = 0 THEN Completed(<<Dgrams>> \o rest) /\ UNCHANGED astray ELSE CompletedBy(Dgrams)
               /\ UNCHANGED refused

-----------------------------------------------------------------------------
\* The pseudo stream's turn: popping it ends the life of streams_end_it.
PseudoTurn ==
    /\ pc = "loop" /\ source = Pseudo
    /\ end_valid' = FALSE /\ partial' = FALSE
    /\ UNCHANGED <<astray, data, refused>>
    /\ \/ /\ partial /\ cwnd' = cwnd - 1 /\ UNCHANGED control
          /\ Completed(IF rest = <<>> THEN <<Pseudo>> ELSE rest)
       \/ /\ ~partial /\ control > 0 /\ control' = control - 1 /\ UNCHANGED cwnd
          /\ Completed(IF rest = <<>> THEN <<Pseudo>> ELSE rest)
       \/ /\ ~partial /\ control = 0
          /\ GoOn(rest) /\ UNCHANGED <<cwnd, control, n_packets, stream_packets>>

\* A write fails for good, or the connection is closing or draining: what is in the batch
\* is forgotten.
WriteFails ==
    /\ pc = "loop"
    /\ pc' = "idle" /\ how' = "over" /\ channels' = <<>> /\ n_packets' = 0
    /\ UNCHANGED <<end_valid, astray, data, net, stream_packets>>

Turn == (\E s \in Streams : StreamTurn(s)) \/ DgramTurn \/ PseudoTurn \/ WriteFails
Next == flush_packets \/ Turn \/ FinalSend \/ Writable

Spec == Init /\ [][Next]_vars

-----------------------------------------------------------------------------
(* Properties.                                                             *)

TypeOK ==
    /\ pc \in {"idle", "loop", "final"}
    /\ how \in {"none", "ended", "quantum", "stalled", "unreachable", "over"}
    /\ channels \in Seq({Pseudo, Dgrams} \cup Streams) /\ (pc = "loop") = (channels # <<>>)
    /\ unsent \in [Streams -> Nat] /\ dgrams \in Nat /\ {cwnd, control} \subseteq Nat
    /\ unacked \cup send_fin \cup sent_fin \cup notify \cup shut \subseteq Streams
    /\ refused \subseteq Streams \cup {Dgrams}
    /\ n_packets \in 0..MAX_BATCH /\ stream_packets \in 0..Quantum

\* The list holds each channel once and the pseudo stream at its end, and
\* streams_end_it is never used after that has been taken off the list.
ListSound ==
    /\ pc = "loop" => Last(channels) = Pseudo /\ IsInjective(channels)
    /\ ~astray

\* A flush leaves the batch empty or stalled, and no packet begun with WRITE_MORE
\* unfinished: the data in it counts as sent.
NothingHalfDone ==
    /\ pc = "idle" => n_packets = 0 \/ how = "stalled"
    /\ pc # "loop" /\ how # "over" => ~partial

\* A flush that has gone through all its channels leaves data behind only where ngtcp2
\* refused it, while congested, or with another flush to come.
NonePassedOver ==
    how = "ended" /\ pc = "idle" /\ cwnd > 0 /\ ~io_trigger =>
      \A c \in Streams \cup {Dgrams} :
        (IF c = Dgrams THEN dgrams > 0 ELSE unsent[c] > 0) => c \in refused

Sound == TypeOK /\ ListSound /\ NothingHalfDone /\ NonePassedOver

\* Every turn of the loop completes a packet, of which the quantum allows so many, or
\* shortens the list, or has taken datagrams out of their queue: every flush ends.
Progress ==
    pc = "loop" /\ pc' = "loop" =>
      \/ stream_packets' > stream_packets
      \/ Len(channels') < Len(channels)
      \/ Len(channels') = Len(channels) /\ dgrams' < dgrams
=============================================================================

------------------------------ MODULE MCData ------------------------------
(* Data in transit, for model checking: what the application gives a stream, a *)
(* chunk sender or the datagram channel is sent; what the peer sends on        *)
(* streams is received whatever is paused, and credited exactly; datagrams are *)
(* queued and split rightly.  The parts share no variables, so each is         *)
(* explored with the others at rest: `focus` says which.                       *)
EXTENDS RecvFlow

\* Those of DgramQueue.
CONSTANTS MaxSends, MaxRetries, MaxChanges, Sizes, Pieces, Lookaheads, Splitting, ZeroRtt, QueueLimit, U16

VARIABLES focus,
    user_buffers, unsent_size, unacked_size, acked_bytes, current_buffer_index,
    current_buffer_offset, front_trimmed, send_fin, sent_fin, is_closing, notify, s_ready,
    watermarking, watermark_alarm, s_attached, trigger, s_pc, s_left, offer_next, offer_total,
    net_sent, net_acked, net_fin, net_shut, net_blocked, s_early, s_sends, fed,
    on_loop, to_start, chunk_pc, held, next_chunk, produced, dones, jobs, buffer, c_wire, acked, finished, stream,
    buf, early, early_data_head, unsent_bytes, split_lookahead, max_piece, attached, sends,
    retries, changes, wire, arrived, discarded

svars == <<user_buffers, unsent_size, unacked_size, acked_bytes, current_buffer_index,
           current_buffer_offset, front_trimmed, send_fin, sent_fin, is_closing, notify, s_ready,
           watermarking, watermark_alarm, s_attached, trigger, s_pc, s_left, offer_next, offer_total,
           net_sent, net_acked, net_fin, net_shut, net_blocked, s_early, s_sends, fed>>
cvars == <<on_loop, to_start, chunk_pc, held, next_chunk, produced, dones, jobs, buffer, c_wire, acked, finished, stream>>
dvars == <<buf, early, early_data_head, unsent_bytes, split_lookahead, max_piece, attached, sends,
           retries, changes, wire, arrived, discarded>>

Stream == INSTANCE StreamSend WITH
            MaxSends <- 2, MaxSize <- 2, MaxOffer <- 2, HadNotify <- TRUE, ZeroRtt <- FALSE,
            Marks <- {[alarm |-> 3, clear |-> 1], [alarm |-> 2, clear |-> 0]},
            ready <- s_ready, attached <- s_attached, pc <- s_pc, left <- s_left,
            early <- s_early, sends <- s_sends

Chunks == INSTANCE ChunkSend WITH Simultaneous <- 3, Total <- 7, wire <- c_wire

Dgrams == INSTANCE DgramQueue

\* The sending side of a client that starts out with early data, the server of
\* which may send a Retry.
Early == INSTANCE DgramQueue WITH ZeroRtt <- TRUE, MaxSends <- 3, Sizes <- {1, 5}, Lookaheads <- {2}

MCInit ==
    /\ focus \in {"receive", "stream", "chunks", "datagrams", "early"}
    /\ Init /\ Stream!Init /\ Chunks!ChunksInit
    /\ focus # "stream" => s_ready
    /\ focus # "chunks" => on_loop
    /\ CASE focus = "datagrams" -> Dgrams!Init
         [] focus = "early"     -> Early!Init
         [] OTHER               -> Dgrams!Init /\ split_lookahead = 0 /\ max_piece = 2

MCNext ==
    /\ UNCHANGED focus
    /\ \/ focus = "receive" /\ Next /\ UNCHANGED <<svars, cvars, dvars>>
       \/ focus = "stream" /\ Stream!Next /\ UNCHANGED <<vars, cvars, dvars>>
       \/ focus = "chunks" /\ Chunks!ChunksNext /\ UNCHANGED <<vars, svars, dvars>>
       \/ focus = "datagrams" /\ Dgrams!Next /\ UNCHANGED <<vars, svars, cvars>>
       \/ focus = "early" /\ Early!Next /\ UNCHANGED <<vars, svars, cvars>>

\* The fairness of the FairSpecs, each while its part is explored.
MCSpec ==
    /\ MCInit /\ [][MCNext]_<<focus, vars, svars, cvars, dvars>>
    /\ WF_vars(focus = "receive" /\ Write)
    /\ \A s \in Streams :
          /\ WF_vars(focus = "receive" /\ set_ready(s)) /\ WF_vars(focus = "receive" /\ Receive(s))
          /\ WF_vars(focus = "receive" /\ resume(s)) /\ WF_vars(focus = "receive" /\ stream_receive_fin(s))
          /\ WF_vars(focus = "receive" /\ \E n \in 1..MaxBytes : PeerSend(s, n, FALSE))
    /\ WF_svars(focus = "stream" /\ Stream!EventLoop)
    /\ WF_svars(focus = "stream" /\ Stream!Unblocked)
    /\ SF_svars(focus = "stream" /\ \E n \in 0..offer_total : Stream!WriteAccepted(n))
    /\ WF_cvars(focus = "chunks" /\ Chunks!Make) /\ WF_cvars(focus = "chunks" /\ Chunks!RunJob)
    /\ WF_cvars(focus = "chunks" /\ Chunks!Acked)
    /\ \A t \in Chunks!Threads : WF_cvars(focus = "chunks" /\ Chunks!Step(t))
    /\ WF_dvars(focus = "early" /\ Early!FlushAccepted(FALSE))
    /\ WF_dvars(focus = "early" /\ Early!FlushNothing)
    /\ WF_dvars(focus = "early" /\ (Early!EarlyRejected \/ Early!EarlyAccepted))

-----------------------------------------------------------------------------
\* Pauses that are resumed stall no stream: all the peer has to send arrives, or
\* the peer ends the stream first, or the bytes that came with FINs, which are
\* never credited, have used the connection's window up, or a callback that threw
\* has ended the connection.
FlowsPaused == focus = "receive" => FlowsWhileCredit

\* Data handed to an open stream, and its FIN, are sent, and a transfer in chunks
\* on a stream that stays open reaches done.
AllGetsSent ==
    /\ focus = "stream" => Stream!DataGetsSent /\ Stream!FinGetsSent
    /\ focus = "chunks" => Chunks!Completes

\* A datagram queue that nobody adds to any more empties.
Drains == focus = "early" => Early!Drains

\* Datagrams become complete at a peer that loses nothing in the order they were
\* queued, none vanishes, the halves of one are sent within the lookahead, and the
\* assertions of fetch() and confirm_sent() hold.
InOrderNoneLost ==
    focus \in {"datagrams", "early"} =>
        Dgrams!CompleteInOrder /\ Dgrams!NothingForgotten /\ Dgrams!HalvesClose /\ Dgrams!AssertsHold

\* The status of each queued datagram says which of its bytes have been sent, and
\* pending_bytes() how many have not; without early data the backlog exceeds the
\* queue limit by at most the datagram that crossed it.
QueueIsTrue ==
    /\ focus \in {"datagrams", "early"} => Dgrams!TypeOK /\ Dgrams!StatusIsTruth /\ Dgrams!PendingExact
    /\ focus = "datagrams" => Dgrams!LimitHolds
=============================================================================

----------------------------- MODULE ChunkSend -----------------------------
(***************************************************************************)
(* Stream::send_chunks and its chunk_sender (stream.hpp).  The application *)
(* hands over a next_chunk callback; `simultaneous` chunks are put into    *)
(* the stream, and the destructor of each, run when the chunk is fully     *)
(* acknowledged or dropped, asks for the next.  An empty chunk ends the    *)
(* transfer and calls done.                                                *)
(*                                                                         *)
(* Nothing in send_chunks moves to the event loop, so the first chunks are *)
(* asked for on the caller's thread while acknowledgements of the earlier  *)
(* of them ask for more on the loop's.  on_loop says whether the caller is *)
(* the loop; it never changes.  Chunks are numbered in the order the       *)
(* application returns them.                                               *)
(***************************************************************************)
EXTENDS Naturals, Sequences

CONSTANTS
    Simultaneous,  \* the argument of send_chunks
    Total          \* chunks the application has before it returns an empty one

ASSUME ChunksAssumption == Simultaneous \in Nat /\ Total \in Nat

VARIABLES
    on_loop,    \* whether send_chunks is called on the event loop
    to_start,   \* calls of queue_next_chunk that `make` has yet to start
    chunk_pc,   \* where each thread is in queue_next_chunk
    held,       \* the chunk each thread has obtained and not yet sent
    next_chunk, \* whether the chunk_sender still has its callback
    produced,   \* chunks the application has returned
    dones,      \* calls of done
    jobs,       \* sends posted to the loop by the other thread
    buffer,     \* the stream's user_buffers: chunks not yet acknowledged
    wire,       \* the chunks in the order they entered the stream
    acked,      \* chunks acknowledged
    finished,   \* _send_fin
    stream      \* "open", "closing" (_is_closing) or "gone" (destroyed)

chunkVars == <<on_loop, to_start, chunk_pc, held, next_chunk, produced, dones, jobs, buffer, wire, acked, finished, stream>>

Threads == {"caller", "loop"}
Chunks == 1..Total

ChunksType ==
    /\ on_loop \in BOOLEAN
    /\ to_start \in 0..Simultaneous /\ chunk_pc \in [Threads -> {"idle", "check", "call", "have", "empty"}]
    /\ held \in [Threads -> Chunks \cup {0}] /\ next_chunk \in BOOLEAN
    /\ produced \in 0..Total /\ dones \in 0..2 /\ acked \in 0..Total
    /\ jobs \in Seq(Chunks) /\ buffer \in Seq(Chunks) /\ wire \in Seq(Chunks)
    /\ finished \in BOOLEAN /\ stream \in {"open", "closing", "gone"}

ChunksInit ==
    /\ on_loop \in BOOLEAN
    /\ to_start = Simultaneous /\ chunk_pc = [t \in Threads |-> "idle"] /\ held = [t \in Threads |-> 0]
    /\ next_chunk = TRUE /\ produced = 0 /\ dones = 0 /\ jobs = <<>> /\ buffer = <<>>
    /\ wire = <<>> /\ acked = 0 /\ finished = FALSE /\ stream = "open"

\* The loop is free to run a job or a callback: it is not inside queue_next_chunk, nor, when it
\* is the caller, inside send_chunks.
LoopFree == chunk_pc["loop"] = "idle" /\ (on_loop => to_start = 0 /\ chunk_pc["caller"] = "idle")

\* JobQueue::call's question: is this thread the loop's?
IsLoop(t) == t = "loop" \/ on_loop

-----------------------------------------------------------------------------
\* chunk_sender::make: `simultaneous` calls, one after the other.
Make ==
    /\ to_start > 0 /\ chunk_pc["caller"] = "idle"
    /\ to_start' = to_start - 1
    /\ chunk_pc' = [chunk_pc EXCEPT !["caller"] = "check"]
    /\ UNCHANGED <<on_loop, held, next_chunk, produced, dones, jobs, buffer, wire, acked, finished, stream>>

\* queue_next_chunk, up to the callback: finished already, stream gone or closing, or carry on.
Check(t) ==
    /\ chunk_pc[t] = "check"
    /\ IF ~next_chunk THEN /\ chunk_pc' = [chunk_pc EXCEPT ![t] = "idle"] /\ UNCHANGED next_chunk
       ELSE IF stream # "open" THEN /\ chunk_pc' = [chunk_pc EXCEPT ![t] = "idle"] /\ next_chunk' = FALSE
       ELSE /\ chunk_pc' = [chunk_pc EXCEPT ![t] = "call"] /\ UNCHANGED next_chunk
    /\ UNCHANGED <<on_loop, to_start, held, produced, dones, jobs, buffer, wire, acked, finished, stream>>

\* The application's callback: the next chunk, or an empty one.
Call(t) ==
    /\ chunk_pc[t] = "call"
    /\ IF produced < Total
       THEN /\ produced' = produced + 1
            /\ held' = [held EXCEPT ![t] = produced + 1]
            /\ chunk_pc' = [chunk_pc EXCEPT ![t] = "have"]
       ELSE /\ chunk_pc' = [chunk_pc EXCEPT ![t] = "empty"] /\ UNCHANGED <<produced, held>>
    /\ UNCHANGED <<on_loop, to_start, next_chunk, dones, jobs, buffer, wire, acked, finished, stream>>

\* Mutant: the callback is kept.
Finish_keeps(t) ==
    /\ chunk_pc[t] = "empty"
    /\ dones' = dones + 1
    /\ chunk_pc' = [chunk_pc EXCEPT ![t] = "idle"]
    /\ UNCHANGED <<on_loop, to_start, held, next_chunk, produced, jobs, buffer, wire, acked, finished, stream>>

\* An empty chunk: the callback is dropped and done is called.
Finish(t) ==
    /\ chunk_pc[t] = "empty"
    /\ next_chunk' = FALSE
    /\ dones' = dones + 1
    /\ chunk_pc' = [chunk_pc EXCEPT ![t] = "idle"]
    /\ UNCHANGED <<on_loop, to_start, held, produced, jobs, buffer, wire, acked, finished, stream>>

\* Stream::send_impl's job: the chunk joins the buffers, or, on a stream that takes no more data,
\* is dropped, and its destructor asks for the next chunk on this thread.
send_impl(t, c) ==
    IF finished \/ stream # "open"
    THEN /\ chunk_pc' = [chunk_pc EXCEPT ![t] = "check"]
         /\ UNCHANGED <<buffer, wire>>
    ELSE /\ buffer' = Append(buffer, c)
         /\ wire' = Append(wire, c)
         /\ chunk_pc' = [chunk_pc EXCEPT ![t] = "idle"]

\* The end of queue_next_chunk: the send is done at once on the loop, posted to it otherwise.
SendChunk(t) ==
    /\ chunk_pc[t] = "have"
    /\ held' = [held EXCEPT ![t] = 0]
    /\ IF IsLoop(t)
       THEN send_impl(t, held[t]) /\ UNCHANGED jobs
       ELSE /\ jobs' = Append(jobs, held[t])
            /\ chunk_pc' = [chunk_pc EXCEPT ![t] = "idle"]
            /\ UNCHANGED <<buffer, wire>>
    /\ UNCHANGED <<on_loop, to_start, next_chunk, produced, dones, acked, finished, stream>>

\* The loop runs a posted send.
RunJob ==
    /\ LoopFree /\ jobs # <<>>
    /\ jobs' = Tail(jobs)
    /\ send_impl("loop", Head(jobs))
    /\ UNCHANGED <<on_loop, to_start, held, next_chunk, produced, dones, acked, finished, stream>>

\* The oldest chunk is fully acknowledged: ~single_chunk asks for the next.
Acked ==
    /\ LoopFree /\ buffer # <<>> /\ stream # "gone"
    /\ buffer' = Tail(buffer)
    /\ acked' = acked + 1
    /\ chunk_pc' = [chunk_pc EXCEPT !["loop"] = "check"]
    /\ UNCHANGED <<on_loop, to_start, held, next_chunk, produced, dones, jobs, wire, finished, stream>>

\* Stream::send_fin.
EndStream ==
    /\ LoopFree /\ stream = "open" /\ ~finished
    /\ finished' = TRUE
    /\ UNCHANGED <<on_loop, to_start, chunk_pc, held, next_chunk, produced, dones, jobs, buffer, wire, acked, stream>>

close ==
    /\ LoopFree /\ stream = "open"
    /\ stream' = "closing" /\ finished' = TRUE
    /\ UNCHANGED <<on_loop, to_start, chunk_pc, held, next_chunk, produced, dones, jobs, buffer, wire, acked>>

\* ~Stream: its buffers and posted sends go; the chunks in them find no stream.
Destroy ==
    /\ LoopFree /\ stream = "closing" /\ chunk_pc["caller"] = "idle" /\ to_start = 0
    /\ stream' = "gone"
    /\ next_chunk' = (next_chunk /\ jobs = <<>> /\ buffer = <<>>)
    /\ jobs' = <<>> /\ buffer' = <<>>
    /\ UNCHANGED <<on_loop, to_start, chunk_pc, held, produced, dones, wire, acked, finished>>

Step(t) == Check(t) \/ Call(t) \/ Finish(t) \/ SendChunk(t)
ChunksNext == Make \/ RunJob \/ Acked \/ EndStream \/ close \/ Destroy \/ \E t \in Threads : Step(t)

ChunksSpec == ChunksInit /\ [][ChunksNext]_chunkVars

\* Threads run, the loop runs its jobs, and the peer acknowledges what it is sent.
ChunksFair ==
    /\ ChunksSpec
    /\ WF_chunkVars(Make) /\ WF_chunkVars(RunJob) /\ WF_chunkVars(Acked)
    /\ \A t \in Threads : WF_chunkVars(Step(t))

-----------------------------------------------------------------------------
InHand(t) == IF held[t] # 0 THEN 1 ELSE 0

\* No more than `simultaneous` chunks are with the library at a time, so that the application may
\* return pointers into a ring of that many: whatever threads and drops do.
InFlight == Len(jobs) + Len(buffer) + InHand("caller") + InHand("loop") <= Simultaneous

\* done is called once, and only when every chunk has been asked for.
DoneOnce == dones <= 1 /\ (dones = 1 => produced = Total)

\* The chunks enter the stream in the order the application returned them.
InOrder == \A i, j \in DOMAIN wire : i < j => wire[i] < wire[j]

\* send_chunks keeps its promises.  On any thread, no more than `simultaneous` chunks are with the
\* library at a time.  On the event loop the chunks also enter the stream in the order the
\* application returned them, and done is called once, when all have been asked for.
ChunksKept == ChunksType /\ InFlight /\ (on_loop => InOrder /\ DoneOnce)

\* A transfer on a stream that stays open reaches done: no acknowledgement or dropped chunk leaves
\* it without anyone to ask for the next.
Completes == <>(dones > 0 \/ stream # "open")
=============================================================================

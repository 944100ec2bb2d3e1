----------------------------- MODULE MCStreams -----------------------------
(* Streams for model checking: the send queue of a stream, and the chunk      *)
(* sender that feeds one from the event loop or from another thread.  The two *)
(* share no variables, so each is explored with the other at rest: `focus`    *)
(* says which.                                                                *)
EXTENDS StreamSend, ChunkSend

VARIABLE focus

\* A threshold reached by one or two buffers, and the tightest possible one.
MCMarks == {[alarm |-> 3, clear |-> 1], [alarm |-> 2, clear |-> 0]}

\* At rest the send queue is that of a stream opened at once.
MCInit ==
    /\ focus \in {"send", "chunks"}
    /\ Init /\ (focus # "send" => ready)
    /\ ChunksInit /\ (focus # "chunks" => on_loop)

MCNext ==
    /\ UNCHANGED focus
    /\ \/ focus = "send" /\ Next /\ UNCHANGED chunkVars
       \/ focus = "chunks" /\ ChunksNext /\ UNCHANGED vars

MCSpec == MCInit /\ [][MCNext]_<<focus, vars, chunkVars>>
=============================================================================

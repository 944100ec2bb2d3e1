----------------------------- MODULE MCBTStream -----------------------------
(* Requests and what comes in, for model checking: three requests of a         *)
(* BTRequestStream, the last of which is to be sent even after its timeout;    *)
(* the framing of its incoming bytes; and the reassembly of split datagrams    *)
(* under the reordering and the bursts of losses it is documented to survive.  *)
(* The three share no variables, so each is explored with the others at rest:  *)
(* `focus` says which.                                                         *)
EXTENDS BTRequest

VARIABLES focus, size_buf, buf, current_len, closed, frames, received,
    newest, held, slots, pieces, free, high, waiting, delivered

fvars == <<size_buf, buf, current_len, closed, frames, received>>
bvars == <<newest, held, slots, pieces, free, high, waiting, delivered>>

\* Streams of up to seven bytes, with lengths of one digit and of two and a limit
\* that some of them exceed.
Framing == INSTANCE BTFraming WITH
             Bytes <- {"0", "1", "2", ":", "x"}, MaxBytes <- 7, MaxChunk <- 3,
             max_req_len <- 10, MAX_REQ_LEN_ENCODED <- 2, Empties <- {}

\* No loss, a short one, or the longest burst of losses below the limit; the counter
\* wraps around, and reordering goes as far as the buffer tolerates.
Dgrams == INSTANCE Reassembly WITH
            Counters <- 12, bufsize <- 4, reorder_limit <- 6, MaxLate <- 4, MaxSeq <- 13,
            Jumps <- {1, 2, 6}

MCInit ==
    /\ focus \in {"requests", "framing", "datagrams"}
    /\ Init /\ Framing!Init /\ Dgrams!Init

MCNext ==
    /\ UNCHANGED focus
    /\ \/ focus = "requests" /\ Next /\ UNCHANGED <<fvars, bvars>>
       \/ focus = "framing" /\ Framing!Next /\ UNCHANGED <<vars, bvars>>
       \/ focus = "datagrams" /\ Dgrams!Next /\ UNCHANGED <<vars, fvars>>

MCSpec == MCInit /\ [][MCNext]_<<focus, vars, fvars, bvars>>

-----------------------------------------------------------------------------
\* The frames handled are those of the stream, wherever its chunks were cut, and
\* between chunks the parser is either in a prefix or in a frame's data.
FramesAreTrue ==
    focus = "framing" => Framing!TypeOK /\ Framing!ChunksDoNotMatter /\ Framing!OneOrTheOther

\* A reassembled datagram consists of two halves of the same datagram, and every
\* piece of the pool is in exactly one slot or on the free list once.
PairsAreTrue == focus = "datagrams" => Dgrams!TypeOK /\ Dgrams!TruePairs /\ Dgrams!PoolExact

\* The receiver holds a half of a datagram until bufsize/2 newer datagrams have been
\* seen, and does not take a late one for a jump forward of the counter.
HalvesMeet == focus = "datagrams" => Dgrams!HeldWhileNeeded /\ Dgrams!LateIsLate
=============================================================================

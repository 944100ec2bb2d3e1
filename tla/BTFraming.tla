------------------------------ MODULE BTFraming ------------------------------
(***************************************************************************)
(* How a BTRequestStream cuts the received stream into frames "N:DATA"     *)
(* (src/src/btstream.cpp): prefix_accumulator, data_accumulator and        *)
(* process_incoming, fed with chunks that QUIC may cut anywhere.  Checked  *)
(* against Frames, which reads the whole stream at once.                   *)
(*                                                                         *)
(* A byte is a digit 0..9, Colon, or Other (anything else).                *)
(***************************************************************************)
EXTENDS Integers, Sequences, SequencesExt

CONSTANTS
    Bytes,               \* the bytes the peer uses
    MaxBytes,            \* bound: the length of the stream
    MaxChunk,            \* bound: the length of one chunk
    max_req_len,         \* opt::max_request_size
    MAX_REQ_LEN_ENCODED, \* the limit on the prefix
    Empties              \* the empty frames the peer sends: "zero" (0:), "blank" (:)

Colon == ":"
Other == "x"
Digits == Bytes \ {Colon, Other}
Digit == [d \in {"0", "1", "2", "3"} |-> CASE d = "0" -> 0 [] d = "1" -> 1 [] d = "2" -> 2 [] d = "3" -> 3]

VARIABLES
    size_buf, buf, current_len,
    closed,      \* an exception closed the stream
    frames,      \* the frames handed to handle_input
    received     \* history: all bytes received

vars == <<size_buf, buf, current_len, closed, frames, received>>

Number(ds) == FoldLeft(LAMBDA n, d : 10 * n + Digit[d], 0, ds)

Init ==
    /\ size_buf = <<>> /\ buf = <<>> /\ current_len = 0
    /\ closed = FALSE /\ frames = <<>> /\ received = <<>>

-----------------------------------------------------------------------------
(* The parser.  st carries the state above through one chunk.              *)

\* prefix_accumulator: the digits of req up to a colon join size_buf.  The result
\* s is -1 when the prefix is still incomplete.
prefix_accumulatorMutant(st, req) ==   \* starts a new prefix with every chunk
    LET stop == SelectInSeq(req, LAMBDA b : b \notin Digits)
    IN  IF stop = 0
        THEN [s |-> -1, st |-> [st EXCEPT !.size_buf = req], rest |-> <<>>]
        ELSE [s    |-> Number(SubSeq(req, 1, stop - 1)),
              st   |-> [st EXCEPT !.size_buf = <<>>, !.closed = req[stop] # Colon],
              rest |-> SubSeq(req, stop + 1, Len(req))]
prefix_accumulator(st, req) ==
    LET stop    == SelectInSeq(req, LAMBDA b : b \notin Digits)
        n       == IF stop = 0 THEN Len(req) ELSE stop - 1
        partial == st.size_buf \o SubSeq(req, 1, n)
        throw   == [s |-> -1, st |-> [st EXCEPT !.closed = TRUE], rest |-> <<>>]
    IN  CASE Len(partial) > MAX_REQ_LEN_ENCODED -> throw
          [] Len(partial) <= MAX_REQ_LEN_ENCODED /\ stop = 0 ->
               [s |-> -1, st |-> [st EXCEPT !.size_buf = partial], rest |-> <<>>]
          [] Len(partial) <= MAX_REQ_LEN_ENCODED /\ stop # 0 ->
               IF req[stop] # Colon \/ (Len(partial) > 1 /\ partial[1] = "0") THEN throw
               ELSE [s    |-> Number(partial),
                     st   |-> [st EXCEPT !.size_buf = <<>>],
                     rest |-> SubSeq(req, stop + 1, Len(req))]

\* data_accumulator: as much of req as the frame still needs joins buf.
data_accumulator(st, req) ==
    LET need == st.current_len - Len(st.buf)
        n    == IF Len(req) < need THEN Len(req) ELSE need
    IN  [st |-> [st EXCEPT !.buf = @ \o SubSeq(req, 1, n)], rest |-> SubSeq(req, n + 1, Len(req))]

\* The part of process_incoming's loop that follows a known length.
TakeData(st, req) ==
    LET d == data_accumulator(st, req)
    IN  IF Len(d.st.buf) < st.current_len THEN d
        ELSE [st   |-> [d.st EXCEPT !.frames = Append(@, d.st.buf), !.buf = <<>>, !.current_len = 0],
              rest |-> d.rest]

\* One turn of process_incoming's loop.
Turn(st, req) ==
    IF st.current_len # 0 THEN TakeData(st, req)
    ELSE LET p == prefix_accumulator(st, req)
         IN  CASE p.s <= 0 -> [st |-> p.st, rest |-> <<>>]      \* 0: the rest is ignored
               [] p.s > max_req_len -> [st |-> [p.st EXCEPT !.closed = TRUE], rest |-> <<>>]
               [] 0 < p.s /\ p.s <= max_req_len ->
                    TakeData([p.st EXCEPT !.current_len = p.s], p.rest)

RECURSIVE process_incoming(_, _)
process_incoming(st, req) ==
    IF req = <<>> THEN st
    ELSE LET t == Turn(st, req) IN process_incoming(t.st, t.rest)

\* receive(): a chunk arrives.
Receive(chunk) ==
    /\ ~closed
    /\ LET st == process_incoming([size_buf |-> size_buf, buf |-> buf, current_len |-> current_len,
                                   closed |-> FALSE, frames |-> frames], chunk)
       IN  /\ size_buf' = st.size_buf /\ buf' = st.buf /\ current_len' = st.current_len
           /\ closed' = st.closed /\ frames' = st.frames
    /\ received' = received \o chunk

-----------------------------------------------------------------------------
(* The reference: the frames of a whole stream, whatever its chunks.       *)

Malformed == <<"malformed">>

\* The frames of s; the last one is Malformed if s then stops being "N:DATA"...
RECURSIVE Frames(_)
Frames(s) ==
    LET colon == SelectInSeq(s, LAMBDA b : b \notin Digits)
        ds    == SubSeq(s, 1, colon - 1)
        n     == Number(ds)
    IN  CASE colon = 0 -> IF Len(s) > MAX_REQ_LEN_ENCODED THEN <<Malformed>> ELSE <<>>
          [] colon # 0 /\ (\/ s[colon] # Colon \/ Len(ds) > MAX_REQ_LEN_ENCODED
                           \/ (Len(ds) > 1 /\ ds[1] = "0") \/ n > max_req_len) -> <<Malformed>>
          [] OTHER -> IF Len(s) < colon + n THEN <<>>
                      ELSE (IF n = 0 THEN <<>> ELSE <<SubSeq(s, colon + 1, colon + n)>>)
                           \o Frames(SubSeq(s, colon + n + 1, Len(s)))

\* The kinds of empty frames in s.
RECURSIVE EmptyFrames(_)
EmptyFrames(s) ==
    LET colon == SelectInSeq(s, LAMBDA b : b \notin Digits)
        ds    == SubSeq(s, 1, colon - 1)
        n     == Number(ds)
    IN  IF colon = 0 \/ s[colon] # Colon \/ n > max_req_len THEN {}
        ELSE (IF n > 0 THEN {} ELSE {IF ds = <<>> THEN "blank" ELSE "zero"})
             \cup EmptyFrames(SubSeq(s, colon + n + 1, Len(s)))

Chunks == UNION {[1..n -> Bytes] : n \in 1..MaxChunk}

Next ==
    \E chunk \in Chunks :
      /\ Len(received) + Len(chunk) <= MaxBytes
      /\ EmptyFrames(received \o chunk) \subseteq Empties
      /\ Receive(chunk)

Spec == Init /\ [][Next]_vars

-----------------------------------------------------------------------------
(* Properties.                                                             *)

TypeOK ==
    /\ size_buf \in Seq(Digits) /\ Len(size_buf) <= MAX_REQ_LEN_ENCODED
    /\ buf \in Seq(Bytes) /\ current_len \in 0..max_req_len
    /\ closed \in BOOLEAN

\* The frames handled are those of the stream, wherever its chunks were cut: none
\* is lost, split, joined or shifted, and a malformed stream closes the stream
\* after the frames before the fault.
ChunksDoNotMatter ==
    frames \o (IF closed THEN <<Malformed>> ELSE <<>>) = Frames(received)

\* Between chunks the parser is either in a prefix or in a frame's data, with less
\* than the frame collected: data_accumulator's assert(buf.size() < size).
OneOrTheOther ==
    ~closed => /\ current_len = 0 => buf = <<>>
               /\ current_len # 0 => size_buf = <<>> /\ Len(buf) < current_len
=============================================================================

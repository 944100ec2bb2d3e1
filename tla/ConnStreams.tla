----------------------------- MODULE ConnStreams -----------------------------
(***************************************************************************)
(* The streams of one connection (src/src/connection.cpp): opened here or  *)
(* by the peer, queued for a stream the peer has yet to open, pending for  *)
(* a free slot, closed by either side, reverted when 0-RTT is rejected,    *)
(* and closed or dropped with the connection.                              *)
(*                                                                         *)
(* Every step runs on the loop's thread.  close_all_streams is several     *)
(* steps, because each runs application callbacks that may use streams and *)
(* the connection.                                                         *)
(*                                                                         *)
(* Stream ids: 0..MaxRemote-1 are the peer's, the next MaxLocal ours (the  *)
(* code numbers either side's in steps of four).                           *)
(***************************************************************************)
EXTENDS Integers, Sequences, FiniteSets, FiniteSetsExt, SequencesExt

CONSTANTS
    Strms,        \* stream objects
    BT,           \* those of type BTRequestStream
    None,
    MaxRemote, MaxLocal,   \* bounds: how many ids either side gets to use
    Slots,        \* how many streams the peer may have open at first
    Client,       \* an outbound connection, which may use 0-RTT
    InOrder,      \* the peer's streams are first seen in the order of their ids
    Rejects,      \* the stream open callback refuses streams
    InDrop        \* the application opens streams from close callbacks of a drop

ASSUME StreamsAssumption ==
    /\ BT \subseteq Strms /\ None \notin Strms
    /\ MaxRemote \in Nat /\ MaxLocal \in Nat /\ Slots \in 0..MaxRemote
    /\ {Client, InOrder, Rejects, InDrop} \subseteq BOOLEAN

Ids == 0..(MaxRemote + MaxLocal - 1)
RemoteIds == 0..(MaxRemote - 1)
NoId == -1

VARIABLES
    \* the connection's maps
    streams, stream_queue, pending_streams, next_incoming,
    \* the stream objects: which exist, their ids, and which have the flag or pointer
    made, stream_id, ready, is_closing, attached,
    closed_cb,     \* history: how often each close callback ran
    self_closed,   \* history: closed by Stream::close
    \* the connection: "up", or on its way out by "close", "drain" or "drop"; "gone"
    \* once deleted, "destroyed" when the object no longer exists
    state, quiet, stage, early,
    visit,         \* how many pending streams the loop of close_all_streams goes over
    \* ngtcp2: its streams, those we shut down, those the peer reset, the ids the peer
    \* has opened, the next id and limit of our own, and how many the peer may open
    live, shut, reset, seen, local_next, local_max, granted

maps == <<streams, stream_queue, pending_streams, next_incoming>>
objects == <<made, stream_id, ready, is_closing, attached, closed_cb, self_closed>>
conn == <<state, quiet, stage, early, visit>>
ngtcp2 == <<live, shut, reset, seen, local_next, local_max, granted>>
vars == <<maps, objects, conn, ngtcp2>>

Empty == [id \in Ids |-> None]
Keys(map) == {id \in Ids : map[id] # None}
Held(map) == {map[id] : id \in Keys(map)}
Pending == ToSet(pending_streams)
InMaps == Held(streams) \cup Held(stream_queue) \cup Pending

Init ==
    /\ streams = Empty /\ stream_queue = Empty /\ pending_streams = <<>> /\ next_incoming = 0
    /\ made = {} /\ stream_id = [s \in Strms |-> NoId] /\ ready = {} /\ is_closing = {} /\ attached = {}
    /\ closed_cb = [s \in Strms |-> 0] /\ self_closed = {}
    /\ state = "up" /\ quiet = FALSE /\ stage = "none" /\ visit = 0 /\ early \in {FALSE, Client}
    /\ live = {} /\ shut = {} /\ reset = {} /\ seen = {} /\ local_next = 0 /\ local_max \in 0..MaxLocal
    /\ granted = Slots

closingMutant == state \in {"close", "gone"}   \* forgets draining
closing == state \in {"close", "drain", "gone"}

\* The loop runs something other than application callbacks of a close.
Free == state = "up" /\ stage = "none"

\* The application may run: on its own, or in a callback of the close.  (A job of
\* its own cannot run in the middle of a close.)
AppRuns == state # "destroyed" /\ (state = "drop" => InDrop)

-----------------------------------------------------------------------------
(* Closing stream objects.                                                 *)

\* stream_execute_close on the streams of S, whose flags are c and whose pointers
\* are a.  Stream::closed runs the callback and clears _conn;
\* BTRequestStream::closed only calls Stream::close, which does neither.
stream_execute_close(S, c, a) ==
    LET closed == (S \ c) \ BT IN
    /\ is_closing' = c \cup S
    /\ attached' = a \ closed
    /\ closed_cb' = [s \in Strms |-> closed_cb[s] + IF s \in closed THEN 1 ELSE 0]

\* stream_closed
stream_closedMutant(id) ==   \* gives the peer a slot for our streams, too
    /\ streams[id] # None
    /\ streams' = [streams EXCEPT ![id] = None]
    /\ stream_execute_close({streams[id]}, is_closing, attached)
    /\ granted' = granted + 1
stream_closed(id) ==
    IF streams[id] = None
    THEN UNCHANGED <<streams, is_closing, attached, closed_cb, granted>>
    ELSE /\ streams' = [streams EXCEPT ![id] = None]
         /\ stream_execute_close({streams[id]}, is_closing, attached)
         /\ granted' = IF id \in RemoteIds THEN granted + 1 ELSE granted

-----------------------------------------------------------------------------
(* Opening.                                                                *)

\* The new objects' fields, and what else construct_stream does to them.
Make(s, id) ==
    /\ s \in Strms \ made
    /\ made' = made \cup {s}
    /\ stream_id' = [stream_id EXCEPT ![s] = id]

LocalId(n) == MaxRemote + n

\* open_stream_impl
open_stream(s) ==
    /\ AppRuns
    /\ IF closing
       THEN /\ Make(s, NoId)
            /\ stream_execute_close({s}, is_closing, attached \cup {s})
            /\ UNCHANGED <<streams, pending_streams, ready, live, local_next>>
       ELSE /\ UNCHANGED <<is_closing, closed_cb>>
            /\ attached' = attached \cup {s}
            /\ IF local_next < local_max
               THEN /\ Make(s, LocalId(local_next))
                    /\ streams' = [streams EXCEPT ![LocalId(local_next)] = s]
                    /\ ready' = ready \cup {s}
                    /\ live' = live \cup {LocalId(local_next)}
                    /\ local_next' = local_next + 1
                    /\ UNCHANGED pending_streams
               ELSE /\ Make(s, NoId)
                    /\ pending_streams' = Append(pending_streams, s)
                    /\ UNCHANGED <<streams, ready, live, local_next>>
    /\ UNCHANGED <<stream_queue, next_incoming, self_closed, conn, shut, reset, seen, local_max, granted>>

\* queue_incoming_stream_impl
queue_incoming_stream(s) ==
    /\ AppRuns
    /\ next_incoming < MaxRemote
    /\ Make(s, next_incoming)
    /\ next_incoming' = next_incoming + 1
    /\ IF closing
       THEN /\ stream_execute_close({s}, is_closing, attached \cup {s})
            /\ UNCHANGED stream_queue
       ELSE /\ stream_queue' = [stream_queue EXCEPT ![next_incoming] = s]
            /\ attached' = attached \cup {s}
            /\ UNCHANGED <<is_closing, closed_cb>>
    /\ UNCHANGED <<streams, pending_streams, ready, self_closed, conn, ngtcp2>>

\* stream_opened: the first frame of a stream of the peer.
OpenQueued(id) ==
    /\ stream_queue[id] # None
    /\ streams' = [streams EXCEPT ![id] = stream_queue[id]]
    /\ stream_queue' = [stream_queue EXCEPT ![id] = None]
    /\ ready' = ready \cup {stream_queue[id]}
    /\ UNCHANGED <<pending_streams, next_incoming, made, stream_id, is_closing, attached, closed_cb,
                   self_closed, shut>>

CountId(id) == next_incoming' = IF id = next_incoming THEN next_incoming + 1 ELSE next_incoming

OpenAccepted(id, s) ==
    /\ stream_queue[id] = None
    /\ CountId(id)
    /\ Make(s, id)
    /\ ready' = ready \cup {s}
    /\ attached' = attached \cup {s}
    /\ streams' = [streams EXCEPT ![id] = s]
    /\ UNCHANGED <<stream_queue, pending_streams, is_closing, closed_cb, self_closed, shut>>

\* The open callback returned an error: Stream::close, and the object is let go.
OpenRefused(id, s) ==
    /\ Rejects
    /\ stream_queue[id] = None
    /\ CountId(id)
    /\ Make(s, id)
    /\ ready' = ready \cup {s}
    /\ attached' = attached \cup {s}
    /\ is_closing' = is_closing \cup {s} /\ self_closed' = self_closed \cup {s}
    /\ shut' = shut \cup {id}
    /\ UNCHANGED <<streams, stream_queue, pending_streams, closed_cb>>

stream_opened(id) ==
    \/ OpenQueued(id)
    \/ \E s \in Strms : OpenAccepted(id, s) \/ OpenRefused(id, s)

PeerOpens(id) ==
    /\ Free /\ ~early
    /\ id < granted /\ id \notin seen
    /\ InOrder => seen = 0..(id - 1)
    /\ seen' = seen \cup {id} /\ live' = live \cup {id}
    /\ stream_opened(id)
    /\ UNCHANGED <<conn, reset, local_next, local_max, granted>>

\* check_pending_streams: as many of the pending streams p as there are slots below
\* max are opened, from id n on, added to the map m.
check_pending_streamsMutant(p, m, n, max) ==   \* opens one stream at most, and leaves it unready
    LET k == Min({Len(p), max - n, 1}) IN
    /\ pending_streams' = SubSeq(p, k + 1, Len(p))
    /\ streams' = IF k = 1 THEN [m EXCEPT ![LocalId(n)] = p[1]] ELSE m
    /\ stream_id' = IF k = 1 THEN [stream_id EXCEPT ![p[1]] = LocalId(n)] ELSE stream_id
    /\ ready' = ready \ ToSet(p)
    /\ local_next' = n + k
check_pending_streams(p, m, n, max) ==
    LET k      == Min({Len(p), max - n})
        opened == LocalId(n)..LocalId(n + k - 1)
        Str(id) == p[id - LocalId(n) + 1]
    IN  /\ pending_streams' = SubSeq(p, k + 1, Len(p))
        /\ streams' = [id \in Ids |-> IF id \in opened THEN Str(id) ELSE m[id]]
        /\ stream_id' = [s \in Strms |-> IF \E id \in opened : Str(id) = s
                                         THEN CHOOSE id \in opened : Str(id) = s ELSE stream_id[s]]
        /\ ready' = (ready \ ToSet(p)) \cup {Str(id) : id \in opened}
        /\ local_next' = n + k

\* extend_max_local_streams_bidi: the peer allows us more streams.
ExtendMaxStreams(max) ==
    /\ Free /\ ~early
    /\ max \in (local_max + 1)..MaxLocal
    /\ local_max' = max
    /\ check_pending_streams(pending_streams, streams, local_next, max)
    /\ live' = live \cup (LocalId(local_next)..LocalId(local_next' - 1))
    /\ UNCHANGED <<stream_queue, next_incoming, made, is_closing, attached, closed_cb, self_closed, conn,
                   shut, reset, seen, granted>>

\* The handshake completes: 0-RTT was accepted, or it was not and
\* revert_early_channels reopens what was open with the limit max.
EarlyAccepted ==
    /\ Free /\ early
    /\ early' = FALSE
    /\ UNCHANGED <<maps, objects, state, quiet, stage, visit, ngtcp2>>

revert_early_channels(max) ==
    /\ Free /\ early
    /\ early' = FALSE
    /\ LET back == [i \in 1..local_next |-> streams[LocalId(i - 1)]] \o pending_streams
           open == SelectSeq(back, LAMBDA s : s # None)
       IN  check_pending_streams(open, Empty, 0, max)
    /\ local_max' = max
    /\ live' = LocalId(0)..LocalId(local_next' - 1)
    /\ shut' = {} /\ reset' = {}
    /\ UNCHANGED <<stream_queue, next_incoming, made, is_closing, attached, closed_cb, self_closed,
                   state, quiet, stage, visit, seen, granted>>

-----------------------------------------------------------------------------
(* Closing streams.                                                        *)

\* Stream::close
close(s) ==
    /\ AppRuns
    /\ s \in made \ is_closing
    /\ is_closing' = is_closing \cup {s} /\ self_closed' = self_closed \cup {s}
    /\ shut' = IF s \in attached /\ stream_id[s] \in live THEN shut \cup {stream_id[s]} ELSE shut
    /\ UNCHANGED <<maps, made, stream_id, ready, attached, closed_cb, conn, live, reset, seen,
                   local_next, local_max, granted>>

\* on_stream_close: both directions are finished.
on_stream_close(id) ==
    /\ Free /\ ~early
    /\ id \in live
    /\ live' = live \ {id} /\ shut' = shut \ {id} /\ reset' = reset \ {id}
    /\ stream_closed(id)
    /\ UNCHANGED <<stream_queue, pending_streams, next_incoming, made, stream_id, ready, self_closed, conn,
                   seen, local_next, local_max>>

\* on_stream_reset: the peer abandoned its direction; ngtcp2 keeps the stream.
on_stream_reset(id) ==
    /\ Free /\ ~early
    /\ id \in live \ reset
    /\ reset' = reset \cup {id}
    /\ stream_closed(id)
    /\ UNCHANGED <<stream_queue, pending_streams, next_incoming, made, stream_id, ready, self_closed, conn,
                   live, shut, seen, local_next, local_max>>

-----------------------------------------------------------------------------
(* The end of the connection.                                              *)

set_close_quietly ==
    /\ state = "up"
    /\ quiet' = TRUE
    /\ UNCHANGED <<maps, objects, state, stage, visit, early, ngtcp2>>

\* _close_connection, drain_connection and _drop_connection up to
\* _execute_close_hooks.  Only the last leaves the connection's flags alone.
BeginClose(how) ==
    /\ Free
    /\ how \in {"close", "drain", "drop"}
    /\ state' = how
    /\ stage' = IF quiet THEN "done" ELSE "queue"
    /\ UNCHANGED <<maps, objects, quiet, early, visit, ngtcp2>>

\* close_all_streams, one stream at a time: the queued streams, which are erased at
\* the end of the loop, ...
CloseQueued ==
    LET open == {id \in Keys(stream_queue) : stream_queue[id] \notin is_closing} IN
    /\ stage = "queue"
    /\ IF open # {}
       THEN /\ stream_execute_close({stream_queue[Min(open)]}, is_closing, attached)
            /\ UNCHANGED <<stream_queue, stage, visit>>
       ELSE /\ stream_queue' = Empty
            /\ stage' = "pending" /\ visit' = Len(pending_streams)
            /\ UNCHANGED <<is_closing, attached, closed_cb>>
    /\ UNCHANGED <<streams, pending_streams, next_incoming, made, stream_id, ready, self_closed,
                   state, quiet, early, ngtcp2>>

\* ... the pending ones (a stream added meanwhile is past the end the loop took) ...
ClosePending ==
    LET open == {i \in 1..visit : pending_streams[i] \notin is_closing} IN
    /\ stage = "pending"
    /\ IF open # {}
       THEN /\ stream_execute_close({pending_streams[Min(open)]}, is_closing, attached)
            /\ UNCHANGED <<pending_streams, stage, visit>>
       ELSE /\ pending_streams' = <<>>
            /\ stage' = "open" /\ visit' = 0
            /\ UNCHANGED <<is_closing, attached, closed_cb>>
    /\ UNCHANGED <<streams, stream_queue, next_incoming, made, stream_id, ready, self_closed,
                   state, quiet, early, ngtcp2>>

\* ... and the open ones, each erased as it is closed; then the connection's own
\* close callback runs.
CloseOpen ==
    /\ stage = "open"
    /\ IF Keys(streams) # {}
       THEN stream_closed(Min(Keys(streams))) /\ UNCHANGED stage
       ELSE stage' = "done" /\ UNCHANGED <<streams, is_closing, attached, closed_cb, granted>>
    /\ UNCHANGED <<stream_queue, pending_streams, next_incoming, made, stream_id, ready, self_closed,
                   state, quiet, early, visit, live, shut, reset, seen, local_next, local_max>>

\* delete_connection with drop_streams.
drop_streams ==
    /\ attached' = attached \ InMaps
    /\ streams' = Empty /\ stream_queue' = Empty /\ pending_streams' = <<>>

delete_connection ==
    /\ stage = "done" /\ state \in {"close", "drain", "drop"}
    /\ state' = "gone"
    /\ drop_streams
    /\ UNCHANGED <<next_incoming, made, stream_id, ready, is_closing, closed_cb, self_closed, quiet, stage,
                   early, visit, ngtcp2>>

\* The last reference to the connection goes; the application may still hold streams.
Destroy ==
    /\ state = "gone"
    /\ state' = "destroyed"
    /\ UNCHANGED <<maps, objects, quiet, stage, early, visit, ngtcp2>>

Next ==
    \/ \E s \in Strms : open_stream(s) \/ queue_incoming_stream(s) \/ close(s)
    \/ \E id \in RemoteIds : PeerOpens(id)
    \/ \E max \in 1..MaxLocal : ExtendMaxStreams(max)
    \/ EarlyAccepted
    \/ \E max \in 0..MaxLocal : revert_early_channels(max)
    \/ \E id \in Ids : on_stream_close(id) \/ on_stream_reset(id)
    \/ set_close_quietly
    \/ \E how \in {"close", "drain", "drop"} : BeginClose(how)
    \/ CloseQueued \/ ClosePending \/ CloseOpen
    \/ delete_connection
    \/ Destroy

Spec == Init /\ [][Next]_vars

-----------------------------------------------------------------------------
(* Properties.                                                             *)

TypeOK ==
    /\ {streams, stream_queue} \subseteq [Ids -> Strms \cup {None}]
    /\ pending_streams \in Seq(Strms) /\ next_incoming \in 0..MaxRemote
    /\ made \subseteq Strms /\ stream_id \in [Strms -> Ids \cup {NoId}]
    /\ ready \cup is_closing \cup attached \cup self_closed \subseteq made
    /\ closed_cb \in [Strms -> Nat]
    /\ state \in {"up", "close", "drain", "drop", "gone", "destroyed"}
    /\ stage \in {"none", "queue", "pending", "open", "done"}
    /\ {quiet, early} \subseteq BOOLEAN /\ visit \in 0..Len(pending_streams)
    /\ live \cup shut \cup reset \subseteq Ids /\ seen \subseteq RemoteIds
    /\ local_next \in 0..local_max /\ local_max \in 0..MaxLocal /\ granted \in Slots..(Slots + MaxRemote)

\* While the connection is up, the maps, the stream objects and ngtcp2 agree: an
\* open stream is one ngtcp2 has under the stream's own id, is ready and can reach
\* its connection; a queued or pending one is not ready; no stream is in two places.
MapsMatch ==
    Free =>
      /\ \A id \in Keys(streams) :
           LET s == streams[id] IN
           stream_id[s] = id /\ s \in ready /\ s \in attached /\ id \in live
      /\ \A id \in Keys(stream_queue) :
           stream_id[stream_queue[id]] = id /\ stream_queue[id] \in attached \ ready
      /\ Pending \subseteq attached \ ready
      /\ Cardinality(InMaps) =
           Cardinality(Keys(streams)) + Cardinality(Keys(stream_queue)) + Len(pending_streams)

\* stream_receive finds the stream of any data ngtcp2 may still deliver: it calls
\* get_stream, which throws, out of a C callback, for an id that is not there.
Deliverable == Free => live \ (shut \cup reset) \subseteq Keys(streams)

\* A stream is pending only while the peer's limit is used up, so open_stream never
\* overtakes it.
NoIdleSlot == Free /\ pending_streams # <<>> => local_next = local_max

\* The close callback runs at most once, and never for a stream the application
\* has closed itself: stream_execute_close's was_closing.
ClosedOnce ==
    \A s \in Strms : closed_cb[s] <= 1 /\ (closed_cb[s] = 1 => s \in is_closing \ self_closed)

\* When the connection has gone (and was not told to go quietly), every stream ever
\* made on it is closed, and its close callback has run unless it was closed by
\* Stream::close or is a BTRequestStream.
NoneLeftOpen ==
    state \in {"gone", "destroyed"} /\ ~quiet =>
      /\ made \subseteq is_closing
      /\ \A s \in made \ (BT \cup self_closed) : closed_cb[s] = 1

\* A queued stream waits for an id the peer has not opened yet.
QueuedUnseen == Keys(stream_queue) \cap seen = {}

\* Each stream of the peer that has closed for good has given its slot back, none
\* has done so twice or while still open.
SlotsReturned ==
    Free => /\ granted - Slots >= Cardinality(seen \ live)
            /\ granted - Slots <= Cardinality(seen \ Keys(streams))

=============================================================================

--------------------------- MODULE MCConnStreams ---------------------------
(* ConnStreams for model checking: a peer whose streams are first seen in the *)
(* order of their ids and an application that takes them all, and a peer and  *)
(* an application that do as they like.  `focus` says which.                  *)
EXTENDS ConnStreams, TLC

CONSTANTS p1, p2, bt

VARIABLE focus

\* Packets of later streams overtake those of earlier ones, the stream open
\* callback refuses streams, and close callbacks open streams.
Wild == INSTANCE ConnStreams WITH Slots <- 2, InOrder <- FALSE, Rejects <- TRUE, InDrop <- TRUE

MCInit ==
    \/ focus = "orderly" /\ Init
    \/ focus = "wild" /\ Wild!Init

MCNext ==
    /\ UNCHANGED focus
    /\ \/ focus = "orderly" /\ Next
       \/ focus = "wild" /\ Wild!Next

MCSpec == MCInit /\ [][MCNext]_<<focus, vars>>

\* Stream objects of one type are interchangeable.
Symmetry == Permutations(Strms \ BT) \cup Permutations(BT)

-----------------------------------------------------------------------------
\* The maps, the stream objects and ngtcp2 agree while the connection is up; data
\* that may still arrive finds its stream; nothing is pending while a slot is free.
StreamsInStep ==
    /\ IF focus = "wild" THEN Wild!TypeOK ELSE TypeOK
    /\ MapsMatch /\ Deliverable /\ NoIdleSlot

\* No stream is told twice that it closed, and a connection that has gone leaves
\* none open or untold, given that no close callback of a drop opens another.
ClosedExactlyOnce == ClosedOnce /\ (focus = "orderly" => NoneLeftOpen)

\* Streams of the peer give their slots back once each when they have closed for
\* good, and a queued stream waits for an id the peer has not opened yet, given
\* that the application refuses none and that they are first seen in order.
SlotsAndIdsKept == focus = "orderly" => SlotsReturned /\ QueuedUnseen
=============================================================================

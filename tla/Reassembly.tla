----------------------------- MODULE Reassembly -----------------------------
(***************************************************************************)
(* The receiving half of a datagram channel: Connection::recv_datagram and *)
(* dgram::rotating_buffer, which pairs the halves of split datagrams by    *)
(* the 14-bit counter in their ids.                                        *)
(*                                                                         *)
(* A datagram is named by the number of datagrams its sender queued before *)
(* it, which never repeats; the counter that travels is that number modulo *)
(* Counters.  The network may lose, delay and repeat what was sent, within *)
(* the limits MaxLate and Jumps.                                           *)
(***************************************************************************)
EXTENDS Integers, Sequences, FiniteSets, SequencesExt

CONSTANTS
    Counters,       \* 2^14, the number of datagram counters
    bufsize,        \* the slots of the buffer
    reorder_limit,  \* opt::enable_datagrams::reorder_limit
    MaxLate,        \* how far behind the newest datagram one may arrive
    Jumps,          \* how far ahead of the newest datagram one may arrive
    MaxSeq          \* bound: datagrams the sender queues

VARIABLES
    newest,     \* the newest block, NoBlock before any datagram has arrived
    held,       \* pieces held in each half of the slots
    slots,      \* per counter % bufsize: 0, or the position of its piece
    pieces,     \* Seq of [first, seq]; seq stands for the piece's data, NoData
                \* (and first is not read again) once it is released
    free,       \* the free list of positions in pieces, its head first
    high,       \* history: the newest datagram that has arrived, -1 if none
    waiting,    \* history: [first, seq] of halves whose other half is missing
    delivered   \* history: whose two halves the last step joined, if it did

vars == <<newest, held, slots, pieces, free, high, waiting, delivered>>

NoBlock        == -1
NoData         == [first |-> FALSE, seq |-> -1]
block_size     == bufsize \div 2
nblocks        == Counters \div block_size
reorder_blocks == (reorder_limit + block_size - 1) \div block_size

Counter(seq) == seq % Counters
BlockOf(seq) == Counter(seq) \div block_size
Slot(seq)    == Counter(seq) % bufsize
Half(block)  == block % 2
Slots        == 0..bufsize - 1

Init ==
    /\ newest = NoBlock
    /\ held = [h \in 0..1 |-> 0]
    /\ slots = [c \in Slots |-> 0]
    /\ pieces = <<>> /\ free = <<>>
    /\ high = -1 /\ waiting = {} /\ delivered = <<>>

-----------------------------------------------------------------------------

\* How far a block is behind the newest one, around the wrap of the counter.
Behind(block) == (newest - block) % nblocks

held_block(block) == Behind(block) <= 1

\* The three ways advance() takes a datagram of the given block.
Current(block) == newest = NoBlock \/ held_block(block)
Late(block) == ~Current(block) /\ Behind(block) < reorder_blocks
Jump(block) == ~Current(block) /\ ~Late(block)


\* The halves advance() clears, in order, when it moves on to a newer block.
StaleMutant(block) == IF Jump(block) THEN <<Half(block)>> ELSE <<>>  \* forgets skipped blocks
StaleBothMutant(block) == IF Jump(block) THEN <<0, 1>> ELSE <<>>   \* always clears everything
Stale(block) ==
    IF ~Jump(block) THEN <<>>
    ELSE <<Half(block)>> \o IF (block - newest) % nblocks > 1 THEN <<Half(block - 1)>> ELSE <<>>

\* The occupied slots of the halves hs, as clear_half goes through them.
Occupied(hs) ==
    SelectSeq([i \in 1..block_size * Len(hs) |->
                 block_size * hs[(i - 1) \div block_size + 1] + ((i - 1) % block_size)],
              LAMBDA c : slots[c] # 0)

\* The pieces after release_piece() for every k in ks.
Release(ks) == [i \in DOMAIN pieces |-> IF i \in ks THEN NoData ELSE pieces[i]]

\* What advance() makes of the buffer when a datagram of the given block arrives.
Advanced(block) ==
    LET stale   == Stale(block)
        cleared == Occupied(stale)
        freed   == Reverse([i \in DOMAIN cleared |-> slots[cleared[i]]])
    IN  [newest |-> IF Jump(block) \/ newest = NoBlock THEN block ELSE newest,
         slots  |-> [c \in Slots |-> IF c \div block_size \in Range(stale) THEN 0 ELSE slots[c]],
         held   |-> [h \in 0..1 |-> IF h \in Range(stale) THEN 0 ELSE held[h]],
         free   |-> freed \o free,
         pieces |-> Release(Range(freed))]

\* History: half [first, seq] arrives, or (half = {}) a whole datagram.
Arrived(seq, half) ==
    LET top   == IF seq > high THEN seq ELSE high
        known == waiting \cup half
    IN  /\ high' = top
        /\ waiting' = {w \in known : top - w.seq <= block_size /\ [w EXCEPT !.first = ~@] \notin known}

Becomes(a) ==
    newest' = a.newest /\ slots' = a.slots /\ held' = a.held /\ free' = a.free /\ pieces' = a.pieces

\* An unsplit datagram: observe() only moves the buffer on.
Whole(seq) ==
    LET b == BlockOf(seq)
    IN  /\ IF Late(b) THEN UNCHANGED <<newest, slots, held, free, pieces>> ELSE Becomes(Advanced(b))
        /\ delivered' = <<>>
        /\ Arrived(seq, {})

\* receive() drops a half that is late ...
DropLate(seq, first) ==
    /\ Late(BlockOf(seq))
    /\ delivered' = <<>>
    /\ Arrived(seq, {[first |-> first, seq |-> seq]})
    /\ UNCHANGED <<newest, held, slots, pieces, free>>

\* ... stores one whose slot is empty, in a released piece if there is one ...
Store(a, seq, first) ==
    LET p  == [first |-> first, seq |-> seq]
        at == IF a.free = <<>> THEN Len(a.pieces) + 1 ELSE Head(a.free)
    IN  /\ a.slots[Slot(seq)] = 0
        /\ Becomes([a EXCEPT
             !.slots[Slot(seq)] = at,
             !.held[Half(BlockOf(seq))] = @ + 1,
             !.pieces = IF at > Len(@) THEN Append(@, p) ELSE [@ EXCEPT ![at] = p],
             !.free = IF @ = <<>> THEN @ ELSE Tail(@)])
        /\ delivered' = <<>>

\* ... drops one that is already there ...
DropDuplicate(a, seq, first) ==
    LET k == a.slots[Slot(seq)]
    IN  /\ k # 0 /\ a.pieces[k].first = first
        /\ Becomes(a)
        /\ delivered' = <<>>

\* ... and joins one with the other half, whose piece it releases.
Pair(a, seq, first) ==
    LET k == a.slots[Slot(seq)]
    IN  /\ k # 0 /\ a.pieces[k].first # first
        /\ Becomes([a EXCEPT
             !.slots[Slot(seq)] = 0,
             !.held[Half(BlockOf(seq))] = @ - 1,
             !.pieces[k] = NoData,
             !.free = <<k>> \o @])
        /\ delivered' = <<a.pieces[k].seq, seq>>

Receive(seq, first) ==
    LET a == Advanced(BlockOf(seq))
    IN  /\ ~Late(BlockOf(seq))
        /\ Store(a, seq, first) \/ DropDuplicate(a, seq, first) \/ Pair(a, seq, first)
        /\ Arrived(seq, {[first |-> first, seq |-> seq]})

\* What the network may deliver next.
MayArrive ==
    (0..MaxSeq) \cap IF high = -1 THEN 0..MaxLate
                    ELSE (high - MaxLate)..high \cup {high + j : j \in Jumps}

Next ==
    \E seq \in MayArrive :
      \/ Whole(seq)
      \/ \E first \in BOOLEAN :
           DropLate(seq, first) \/ Receive(seq, first)

Spec == Init /\ [][Next]_vars

-----------------------------------------------------------------------------
(* Properties.                                                             *)

TypeOK ==
    /\ newest \in {NoBlock} \cup 0..nblocks - 1
    /\ held \in [0..1 -> 0..block_size]
    /\ slots \in [Slots -> 0..Len(pieces)]
    /\ pieces \in Seq([first : BOOLEAN, seq : -1..MaxSeq])
    /\ free \in Seq(1..Len(pieces))

\* Every piece of the pool is held by exactly one slot or is on the free list
\* exactly once; the pool never outgrows the slots, and held counts them.
PoolExact ==
    /\ \A k \in 1..Len(pieces) :
         Cardinality({c \in Slots : slots[c] = k}) + Cardinality({i \in DOMAIN free : free[i] = k}) = 1
    /\ Len(pieces) <= bufsize
    /\ \A h \in 0..1 : held[h] = Len(Occupied(<<h>>))

\* A reassembled datagram consists of two halves of the same datagram, also
\* when the counter has wrapped around and after bursts of losses.
TruePairs == delivered # <<>> => delivered[1] = delivered[2]

\* A half is held for as long as at most bufsize/2 newer datagrams have been
\* seen, so that its other half completes it when it arrives by then.
HeldWhileNeeded ==
    \A w \in waiting : slots[Slot(w.seq)] # 0 /\ pieces[slots[Slot(w.seq)]] = w

\* A datagram that arrives at most n datagrams behind the newest is not taken
\* for a jump forward of the counter.
LateWithin(n) ==
    \A seq \in MayArrive : seq <= high /\ high - seq <= n => ~Jump(BlockOf(seq))

\* The reordering the buffer tolerates whatever the position in a block.
LateIsLate == LateWithin(reorder_limit - block_size)

=============================================================================

--------------------------- MODULE Subsequences ---------------------------
(***************************************************************************)
(* What a loop that erases elements of a vector leaves: those at certain   *)
(* positions, in their order; and what an insertion makes of it.           *)
(***************************************************************************)
EXTENDS Naturals, Sequences, FiniteSets

\* The enumerations of a set of positions in increasing order (a finite set has one).
Enumerations(I) ==
    {f \in [1..Cardinality(I) -> I] :
        /\ \A i, j \in 1..Cardinality(I) : i < j => f[i] < f[j]
        /\ \A p \in I : \E i \in 1..Cardinality(I) : f[i] = p}

\* The elements of s at the positions that f enumerates.
Kept(s, f) == [i \in DOMAIN f |-> s[f[i]]]

\* s with e at position p, and what was there and behind it one further.
Inserted(s, p, e) == SubSeq(s, 1, p - 1) \o <<e>> \o SubSeq(s, p, Len(s))
=============================================================================

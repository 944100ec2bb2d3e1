------------------------- MODULE BTRequest_proofs -------------------------
(***************************************************************************)
(* That every request of a BTRequestStream gets exactly one response, that *)
(* the one timer always follows the request due first, and that a request  *)
(* the timer failed is not sent afterwards: for any number of requests,    *)
(* timeouts and replies.                                                   *)
(*                                                                         *)
(* AnsweredInTime and NoLateSend are inductive together.                   *)
(***************************************************************************)
EXTENDS BTRequest, FiniteSetTheorems, TLAPS

Entries == [at : 0..MaxTime, id : Requests]

LEMMA Bounds == MaxRequests \in Nat /\ MaxTime \in Nat /\ MaxReplies \in Nat /\ Requests \subseteq Nat
  BY RequestAssumption DEF Requests

-----------------------------------------------------------------------------
(* Sequences.                                                              *)

\* f lists the m positions in I in increasing order.
Lists(f, m, I) ==
    /\ DOMAIN f = 1..m /\ \A i \in 1..m : f[i] \in I /\ f[i] \in Nat
    /\ \A i, j \in 1..m : (i < j => f[i] < f[j]) /\ (f[i] = f[j] => i = j)
    /\ \A p \in I : \E i \in 1..m : f[i] = p
    /\ 1 \in I => m > 0 /\ f[1] = 1
    /\ \A i \in 1..m : f[i] = 1 => i = 1
    /\ I = {} => m = 0

LEMMA EnumeratedAt ==
    ASSUME NEW L \in Nat, NEW I \in SUBSET (1..L), NEW f \in Enumerations(I)
    PROVE  \E m \in Nat : Lists(f, m, I)
  <1> DEFINE m == Cardinality(I)
  <1>1. IsFiniteSet(I) /\ m \in Nat
    <2>1. IsFiniteSet(1..L)
      BY FS_Interval
    <2> QED  BY <2>1, FS_Subset, FS_CardinalityType, Zenon
  <1>2. /\ f \in [1..m -> I]
        /\ \A i, j \in 1..m : i < j => f[i] < f[j]
        /\ \A p \in I : \E i \in 1..m : f[i] = p
    BY Zenon DEF Enumerations
  <1>3. I = {} => m = 0
    BY FS_EmptySet, Zenon
  <1> HIDE DEF m
  <1>4. \A i \in 1..m : f[i] \in I /\ f[i] \in Nat /\ f[i] >= 1
    <2>1. \A i \in 1..m : f[i] \in I
      BY <1>2, Zenon
    <2>2. \A x \in I : x \in Nat /\ x >= 1
      OBVIOUS
    <2> QED  BY <2>1, <2>2, Zenon
  <1>5. ASSUME NEW i \in 1..m, NEW j \in 1..m, f[i] = f[j] PROVE i = j
    <2>1. CASE i < j
      BY <2>1, <1>2, <1>4, <1>5
    <2>2. CASE j < i
      BY <2>2, <1>2, <1>4, <1>5
    <2> QED  BY <2>1, <2>2, <1>1
  <1>6. ASSUME NEW i \in 1..m, f[i] = 1 PROVE i = 1
    <2>1. CASE i > 1
      <3>1. 1 \in 1..m /\ f[1] < f[i]
        BY <2>1, <1>1, <1>2
      <3> QED  BY <3>1, <1>4, <1>6
    <2> QED  BY <2>1, <1>1
  <1>7. ASSUME 1 \in I PROVE m > 0 /\ f[1] = 1
    <2>1. PICK i \in 1..m : f[i] = 1
      BY <1>2, <1>7, Zenon
    <2> QED  BY <2>1, <1>1, <1>6
  <1>8. DOMAIN f = 1..m
    BY <1>2, Zenon
  <1> USE <1>1
  <1> WITNESS m \in Nat
  <1> QED  BY <1>2, <1>3, <1>4, <1>5, <1>6, <1>7, <1>8, Zenon DEF Lists

\* What is left of a sequence without its first n elements.
LEMMA WithoutFirst ==
    ASSUME NEW S, NEW s \in Seq(S), NEW n \in 0..Len(s)
    PROVE  /\ SubSeq(s, n + 1, Len(s)) \in Seq(S) /\ Len(SubSeq(s, n + 1, Len(s))) = Len(s) - n
           /\ \A i \in 1..Len(s) - n : SubSeq(s, n + 1, Len(s))[i] = s[i + n]
  OBVIOUS

LEMMA InsertedAt ==
    ASSUME NEW S, NEW s \in Seq(S), NEW e \in S, NEW p \in 1..Len(s) + 1
    PROVE  /\ Inserted(s, p, e) \in Seq(S) /\ Len(Inserted(s, p, e)) = Len(s) + 1
           /\ \A i \in 1..Len(s) + 1 :
                Inserted(s, p, e)[i] = IF i < p THEN s[i] ELSE IF i = p THEN e ELSE s[i - 1]
  <1> DEFINE a == SubSeq(s, 1, p - 1)  b == SubSeq(s, p, Len(s))  ae == Append(a, e)
  <1>1. a \in Seq(S) /\ Len(a) = p - 1 /\ \A i \in 1..p - 1 : a[i] = s[i]
    OBVIOUS
  <1>2. b \in Seq(S) /\ Len(b) = Len(s) - p + 1 /\ \A i \in 1..Len(s) - p + 1 : b[i] = s[i + p - 1]
    OBVIOUS
  <1> DEFINE L == Len(s)
  <1>0. L \in Nat /\ p \in 1..L + 1 /\ p \in Nat
    OBVIOUS
  <1>t. Inserted(s, p, e) = (a \o <<e>>) \o b
    BY Zenon DEF Inserted
  <1> HIDE DEF a, b
  <1>3. /\ a \o <<e>> \in Seq(S) /\ Len(a \o <<e>>) = p
        /\ \A i \in 1..p : (a \o <<e>>)[i] = IF i = p THEN e ELSE s[i]
    BY <1>0, <1>1
  <1> DEFINE c == a \o <<e>>
  <1> HIDE DEF c
  <1>4. /\ c \o b \in Seq(S) /\ Len(c \o b) = L + 1
        /\ \A i \in 1..L + 1 : (c \o b)[i] = IF i <= p THEN c[i] ELSE b[i - p]
    <2>1. c \in Seq(S) /\ Len(c) = p
      BY <1>3, Zenon DEF c
    <2>b. b \in Seq(S)
      BY <1>2, Zenon
    <2>2. c \o b \in Seq(S) /\ Len(c \o b) = Len(c) + Len(b)
      BY <2>1, <2>b
    <2> QED  BY <2>1, <2>2, <1>0, <1>2
  <1> DEFINE r == c \o b
  <1> HIDE DEF r, L
  <1>5. ASSUME NEW i \in 1..L + 1
        PROVE  r[i] = IF i < p THEN s[i] ELSE IF i = p THEN e ELSE s[i - 1]
    <2>1. CASE i <= p
      <3>1. r[i] = c[i] /\ i \in 1..p
        BY <2>1, <1>0, <1>4 DEF r
      <3> QED  BY <2>1, <3>1, <1>0, <1>3 DEF c
    <2>2. CASE i > p
      <3>1. r[i] = b[i - p] /\ i - p \in 1..L - p + 1 /\ (i - p) + p - 1 = i - 1
        BY <2>2, <1>0, <1>4 DEF r
      <3> QED  BY <2>2, <3>1, <1>0, <1>2 DEF L
    <2> QED  BY <2>1, <2>2, <1>0
  <1> QED  BY <1>t, <1>4, <1>5, Zenon DEF r, c, L

-----------------------------------------------------------------------------
(* The table of expiries.                                                  *)

LEMMA EntryOf == \A e \in Entries : e.at \in 0..MaxTime /\ e.at \in Nat /\ e.id \in Requests
  BY Bounds DEF Entries

\* The entry of an outstanding request holds its expiry, and is its only one.
LEMMA OneEntry ==
    ASSUME TablesOK, ExpiriesSorted, NEW i \in DOMAIN req_expiries
    PROVE  /\ req_expiries[i] = [at |-> expiry[req_expiries[i].id], id |-> req_expiries[i].id]
           /\ \A j \in DOMAIN req_expiries : req_expiries[j].id = req_expiries[i].id => j = i
  <1> DEFINE L == Len(req_expiries)
  <1>0. L \in Nat /\ DOMAIN req_expiries = 1..L
    BY DEF TablesOK
  <1> HIDE DEF L
  <1>1. ASSUME NEW j \in 1..L, req_expiries[j].id = req_expiries[i].id PROVE j = i
    <2>1. ~(i < j) /\ ~(j < i)
      BY <1>0, <1>1, Zenon DEF ExpiriesSorted
    <2> QED  BY <2>1, <1>0
  <1>2. PICK j \in DOMAIN req_expiries : req_expiries[j] = [at |-> expiry[req_expiries[i].id], id |-> req_expiries[i].id]
    BY Zenon DEF ExpiriesSorted
  <1>3. j = i
    BY <1>0, <1>1, <1>2
  <1> QED  BY <1>0, <1>1, <1>2, <1>3, Zenon

\* add_sent_request
LEMMA AddEntry ==
    ASSUME TablesOK, ExpiriesSorted, NEW r \in Requests \ sent_reqs, NEW at \in 0..MaxTime,
           req_expiries' \in Emplaced(req_expiries, at, r), sent_reqs' = sent_reqs \cup {r},
           expiry'[r] = at, \A q \in sent_reqs : expiry'[q] = expiry[q]
    PROVE  /\ ExpiriesSorted' /\ req_expiries' \in Seq(Entries) /\ req_expiries' # <<>>
           /\ req_expiries'[1].id # r => req_expiries # <<>> /\ req_expiries'[1] = req_expiries[1]
  <1> DEFINE s == req_expiries  L == Len(s)  e == [at |-> at, id |-> r]
  <1>0. s \in Seq(Entries) /\ L \in Nat /\ DOMAIN s = 1..L /\ \A i \in 1..L : s[i] \in Entries
    <2>1. s \in Seq(Entries)
      BY Zenon DEF TablesOK, Entries
    <2> QED  BY <2>1
  <1>1. PICK p \in 1..L + 1 : /\ req_expiries' = Inserted(s, p, e)
                              /\ \A i \in 1..p - 1 : s[i].at <= at
                              /\ \A i \in p..L : s[i].at > at
    BY Zenon DEF Emplaced
  <1>e. e \in Entries /\ e.at = at /\ e.id = r
    BY Zenon DEF Entries
  <1> HIDE DEF e
  <1>2. /\ req_expiries' \in Seq(Entries) /\ Len(req_expiries') = L + 1
        /\ \A i \in 1..L + 1 : req_expiries'[i] = IF i < p THEN s[i] ELSE IF i = p THEN e ELSE s[i - 1]
    <2>1. /\ Inserted(s, p, e) \in Seq(Entries) /\ Len(Inserted(s, p, e)) = L + 1
          /\ \A i \in 1..L + 1 : Inserted(s, p, e)[i] = IF i < p THEN s[i] ELSE IF i = p THEN e ELSE s[i - 1]
      BY <1>0, <1>e, InsertedAt, SMTT(30)
    <2> QED  BY <2>1, <1>1, Zenon
  <1> DEFINE t == req_expiries'
  <1>3. DOMAIN t = 1..L + 1
    BY <1>2
  <1>s. /\ \A i \in 1..L : s[i].id \in sent_reqs /\ s[i].id # r
        /\ \A i, j \in 1..L : i < j => s[i].at <= s[j].at /\ s[i].id # s[j].id
        /\ \A q \in sent_reqs : \E i \in 1..L : s[i] = [at |-> expiry[q], id |-> q]
    BY <1>0 DEF ExpiriesSorted
  <1>a. at \in Nat /\ \A i \in 1..L : s[i].at \in Nat
    BY <1>0, EntryOf, Bounds
  <1> HIDE DEF t, s, L
  <1>o. /\ \A i \in 1..L + 1 : i < p => t[i] = s[i] /\ i \in 1..L /\ i \in 1..p - 1
        /\ \A i \in 1..L + 1 : i > p => t[i] = s[i - 1] /\ i - 1 \in 1..L /\ i - 1 \in p..L
        /\ t[p] = e /\ p \in 1..L + 1
    BY <1>0, <1>2 DEF t
  <1>4. \A i \in 1..L + 1 : t[i].id \in sent_reqs \cup {r}
    <2> SUFFICES ASSUME NEW i \in 1..L + 1 PROVE t[i].id \in sent_reqs \cup {r}
      BY Zenon
    <2>1. i < p \/ i = p \/ i > p
      BY <1>0
    <2> QED  BY <2>1, <1>o, <1>s, <1>e
  <1>5. ASSUME NEW q \in sent_reqs \cup {r}
        PROVE  \E i \in 1..L + 1 : t[i] = [at |-> expiry'[q], id |-> q]
    <2>1. CASE q = r
      BY <2>1, <1>o, Zenon DEF e
    <2>2. CASE q # r
      <3>1. PICK i \in 1..L : s[i] = [at |-> expiry[q], id |-> q]
        BY <2>2, <1>s, Zenon
      <3>2. CASE i < p
        <4>1. i \in 1..L + 1 /\ t[i] = s[i]
          BY <3>2, <1>0, <1>o
        <4> QED  BY <4>1, <3>1, <2>2, Zenon
      <3>3. CASE i >= p
        <4>1. i + 1 \in 1..L + 1 /\ i + 1 > p /\ (i + 1) - 1 = i
          BY <3>3, <1>0
        <4>2. t[i + 1] = s[i]
          BY <4>1, <1>o, Zenon
        <4> QED  BY <4>1, <4>2, <3>1, <2>2, Zenon
      <3> QED  BY <3>2, <3>3, <1>0
    <2> QED  BY <2>1, <2>2, Zenon
  <1>6. ASSUME NEW i \in 1..L + 1, NEW j \in 1..L + 1, i < j
        PROVE  t[i].at <= t[j].at /\ t[i].id # t[j].id
    <2>1. CASE j < p
      <3>1. i < p
        BY <2>1, <1>6, <1>0
      <3> QED  BY <2>1, <3>1, <1>6, <1>o, <1>s
    <2>2. CASE j = p
      <3>1. i < p
        BY <2>2, <1>6, Zenon
      <3> QED  BY <2>2, <3>1, <1>o, <1>s, <1>e, <1>1 DEF s
    <2>3. CASE j > p /\ i < p
      <3>1. i < j - 1
        BY <2>3, <1>0
      <3> QED  BY <2>3, <3>1, <1>o, <1>s
    <2>4. CASE j > p /\ i = p
      <3>1. j - 1 \in p..L /\ j - 1 \in 1..L /\ t[j] = s[j - 1] /\ t[i] = e
        BY <2>4, <1>o, Zenon
      <3>2. s[j - 1].at > at
        BY <3>1, <1>1, Zenon DEF s, L
      <3> QED  BY <3>1, <3>2, <1>s, <1>e, <1>a
    <2>5. CASE j > p /\ i > p
      <3>1. i - 1 < j - 1
        BY <1>6, <1>0
      <3> QED  BY <2>5, <3>1, <1>o, <1>s
    <2> QED  BY <2>1, <2>2, <2>3, <2>4, <2>5, <1>0
  <1>7. ExpiriesSorted'
    BY <1>3, <1>4, <1>5, <1>6, Zenon DEF ExpiriesSorted, t
  <1>8. ASSUME t[1].id # r PROVE L > 0 /\ t[1] = s[1]
    <2>1. p # 1
      BY <1>8, <1>o, <1>e, Zenon
    <2>2. 1 \in 1..L + 1 /\ 1 < p /\ L > 0
      BY <2>1, <1>0
    <2> QED  BY <2>2, <1>o, Zenon
  <1>9. L > 0 => s # <<>>
    BY DEF L
  <1> QED  BY <1>2, <1>7, <1>8, <1>9, <1>0 DEF t, s, L

\* handle_input erases the entry of the request that is answered.
LEMMA EraseEntry ==
    ASSUME TablesOK, ExpiriesSorted, NEW r \in sent_reqs, NEW I \in SUBSET (DOMAIN req_expiries),
           \A i : i \in I <=> i \in DOMAIN req_expiries /\ req_expiries[i] # [at |-> expiry[r], id |-> r],
           NEW f \in Enumerations(I), req_expiries' = Kept(req_expiries, f), sent_reqs' = sent_reqs \ {r},
           expiry' = expiry
    PROVE  /\ ExpiriesSorted' /\ req_expiries' \in Seq(Entries)
           /\ 1 \in I => req_expiries' # <<>> /\ req_expiries # <<>> /\ req_expiries'[1] = req_expiries[1]
           /\ req_expiries # <<>>
  <1> DEFINE s == req_expiries  L == Len(s)  t == req_expiries'
  <1>0. s \in Seq(Entries) /\ L \in Nat /\ DOMAIN s = 1..L /\ \A i \in 1..L : s[i] \in Entries
    <2>1. s \in Seq(Entries)
      BY Zenon DEF TablesOK, Entries
    <2> QED  BY <2>1
  <1>s. /\ \A i \in 1..L : s[i].id \in sent_reqs
        /\ \A i, j \in 1..L : i < j => s[i].at <= s[j].at /\ s[i].id # s[j].id
        /\ \A q \in sent_reqs : \E i \in 1..L : s[i] = [at |-> expiry[q], id |-> q]
    BY <1>0, Zenon DEF ExpiriesSorted
  <1>1. \A i \in 1..L : i \in I <=> s[i].id # r
    BY <1>0, OneEntry
  <1>e. PICK m \in Nat : Lists(f, m, I)
    BY <1>0, EnumeratedAt, Zenon
  <1>2. /\ DOMAIN f = 1..m /\ \A i \in 1..m : f[i] \in I /\ f[i] \in Nat
        /\ \A i, j \in 1..m : (i < j => f[i] < f[j]) /\ (f[i] = f[j] => i = j)
        /\ \A p \in I : \E i \in 1..m : f[i] = p
        /\ 1 \in I => m > 0 /\ f[1] = 1
    BY <1>e, Zenon DEF Lists
  <1>3. t = [i \in 1..m |-> s[f[i]]] /\ \A i \in 1..m : f[i] \in 1..L /\ s[f[i]] \in Entries
    BY <1>0, <1>2, Zenon DEF Kept
  <1>4. t \in Seq(Entries) /\ DOMAIN t = 1..m /\ Len(t) = m /\ \A i \in 1..m : t[i] = s[f[i]]
    <2>1. t \in [1..m -> Entries]
      BY <1>3, Zenon
    <2> QED  BY <2>1, <1>3
  <1> HIDE DEF s, t, L
  <1>5. \A i \in 1..m : t[i].id \in sent_reqs \ {r}
    BY <1>1, <1>2, <1>3, <1>4, <1>s, Zenon
  <1>6. ASSUME NEW q \in sent_reqs \ {r}
        PROVE  \E i \in 1..m : t[i] = [at |-> expiry[q], id |-> q]
    <2>1. PICK p \in 1..L : s[p] = [at |-> expiry[q], id |-> q]
      BY <1>s, Zenon
    <2>2. p \in I
      BY <2>1, <1>1
    <2>3. PICK i \in 1..m : f[i] = p
      BY <2>2, <1>2, Zenon
    <2> QED  BY <2>1, <2>3, <1>4, Zenon
  <1>7. \A i, j \in 1..m : i < j => t[i].at <= t[j].at /\ t[i].id # t[j].id
    BY <1>2, <1>3, <1>4, <1>s
  <1>8. ExpiriesSorted'
    BY <1>4, <1>5, <1>6, <1>7, SMTT(30) DEF ExpiriesSorted, t
  <1>9. ASSUME 1 \in I PROVE t # <<>> /\ t[1] = s[1]
    <2>1. m > 0 /\ f[1] = 1 /\ 1 \in 1..m
      BY <1>2, <1>9
    <2>2. t[1] = s[1]
      BY <2>1, <1>4, Zenon
    <2> QED  BY <2>1, <2>2, <1>4
  <1>10. s # <<>>
    <2>1. PICK i \in 1..L : TRUE
      BY <1>s, Zenon
    <2> QED  BY <1>0, <2>1
  <1> QED  BY <1>4, <1>8, <1>9, <1>10, Zenon DEF s, t

\* check_timeouts takes n entries off the front.
LEMMA TakeEntries ==
    ASSUME TablesOK, ExpiriesSorted, NEW n \in 0..Len(req_expiries), NEW timed, check_timeouts(n, timed),
           expiry' = expiry
    PROVE  /\ ExpiriesSorted' /\ req_expiries' \in Seq(Entries) /\ Len(req_expiries') = Len(req_expiries) - n
           /\ expired' \in Seq(Requests) /\ Distinct(expired)'
           /\ \A r \in Range(expired') : r \in sent_reqs /\ \E i \in 1..n : req_expiries[i] = [at |-> expiry[r], id |-> r]
  <1> DEFINE s == req_expiries  L == Len(s)  t == req_expiries'  I == {i \in 1..n : s[i].id \in sent_reqs}
  <1>0. s \in Seq(Entries) /\ L \in Nat /\ DOMAIN s = 1..L /\ \A i \in 1..L : s[i] \in Entries /\ s[i].id \in Requests
    <2>1. s \in Seq(Entries)
      BY Zenon DEF TablesOK, Entries
    <2> QED  BY <2>1, EntryOf
  <1>s. /\ \A i \in 1..L : s[i].id \in sent_reqs
        /\ \A i, j \in 1..L : i < j => s[i].at <= s[j].at /\ s[i].id # s[j].id
        /\ \A q \in sent_reqs : \E i \in 1..L : s[i] = [at |-> expiry[q], id |-> q]
    BY <1>0, Zenon DEF ExpiriesSorted
  <1>d. \A i, j \in 1..L : s[i].id = s[j].id => i = j
    BY <1>0, OneEntry, Zenon
  <1>f. PICK f \in Enumerations(I) : expired' = [i \in DOMAIN f |-> s[f[i]].id]
    BY Zenon DEF check_timeouts
  <1>1. n \in Nat /\ n <= L /\ I \in SUBSET (1..n) /\ \A i \in 1..n : i \in I /\ i \in 1..L
    BY <1>0, <1>s
  <1> HIDE DEF I
  <1>e. PICK m \in Nat : Lists(f, m, I)
    BY <1>1, EnumeratedAt, Zenon
  <1>2. /\ DOMAIN f = 1..m /\ \A i \in 1..m : f[i] \in I /\ f[i] \in Nat
        /\ \A i, j \in 1..m : (i < j => f[i] < f[j]) /\ (f[i] = f[j] => i = j)
        /\ \A p \in I : \E i \in 1..m : f[i] = p
    BY <1>e, Zenon DEF Lists
  <1>3. \A i \in 1..m : f[i] \in 1..n /\ f[i] \in 1..L /\ s[f[i]].id \in Requests
    BY <1>0, <1>1, <1>2, Zenon
  <1>4. expired' \in Seq(Requests) /\ DOMAIN expired' = 1..m /\ \A i \in 1..m : expired'[i] = s[f[i]].id
    <2>1. expired' = [i \in 1..m |-> s[f[i]].id]
      BY <1>2, <1>f, Zenon
    <2>2. expired' \in [1..m -> Requests]
      BY <2>1, <1>3, Zenon
    <2> QED  BY <2>1, <2>2
  <1>5. Distinct(expired)'
    <2>1. \A i, j \in 1..m : expired'[i] = expired'[j] => i = j
      BY <1>2, <1>3, <1>4, <1>d, SMTT(30)
    <2> QED  BY <2>1, <1>4, Zenon DEF Distinct
  <1>6. \A r : r \in Range(expired') <=> \E i \in 1..n : s[i].id = r
    <2>1. ASSUME NEW r \in Range(expired') PROVE \E i \in 1..n : s[i].id = r
      BY <2>1, <1>3, <1>4 DEF Range
    <2>2. ASSUME NEW i \in 1..n PROVE s[i].id \in Range(expired')
      <3>1. PICK j \in 1..m : f[j] = i
        BY <1>1, <1>2, Zenon
      <3> QED  BY <3>1, <1>4, Zenon DEF Range
    <2> QED  BY <2>1, <2>2, Zenon
  <1>7. t = SubSeq(s, n + 1, L) /\ sent_reqs' = sent_reqs \ Range(expired')
    BY Zenon DEF check_timeouts
  <1>8. t \in Seq(Entries) /\ Len(t) = L - n /\ DOMAIN t = 1..L - n /\ \A i \in 1..L - n : t[i] = s[i + n]
    <2>1. t \in Seq(Entries) /\ Len(t) = L - n /\ \A i \in 1..L - n : t[i] = s[i + n]
      BY <1>0, <1>7, WithoutFirst, Zenon
    <2> QED  BY <2>1
  <1> HIDE DEF s, t, L
  <1>9. \A i \in 1..L - n : i + n \in 1..L /\ i + n \notin 1..n
    BY <1>0, <1>1
  <1>10. ASSUME NEW i \in 1..L - n PROVE t[i].id \in sent_reqs'
    <2>1. i + n \in 1..L /\ i + n \notin 1..n /\ t[i] = s[i + n]
      BY <1>8, <1>9, Zenon
    <2>2. s[i + n].id \in sent_reqs
      BY <2>1, <1>s, Zenon
    <2>3. \A j \in 1..n : s[j].id # s[i + n].id
      BY <2>1, <1>1, <1>d, Zenon
    <2> QED  BY <2>1, <2>2, <2>3, <1>6, <1>7, Zenon
  <1>11. ASSUME NEW q \in sent_reqs'
         PROVE  \E i \in 1..L - n : t[i] = [at |-> expiry[q], id |-> q]
    <2>1. PICK p \in 1..L : s[p] = [at |-> expiry[q], id |-> q]
      BY <1>s, <1>7, Zenon
    <2>2. p \notin 1..n
      BY <2>1, <1>6, <1>7
    <2>3. p - n \in 1..L - n /\ (p - n) + n = p
      BY <2>2, <1>0, <1>1
    <2> QED  BY <2>1, <2>3, <1>8, Zenon
  <1>12. \A i, j \in 1..L - n : i < j => t[i].at <= t[j].at /\ t[i].id # t[j].id
    <2>1. \A i, j \in 1..L - n : i < j => i + n < j + n
      BY <1>0, <1>1
    <2> QED  BY <2>1, <1>8, <1>9, <1>s, SMTT(30)
  <1>13. ExpiriesSorted'
    <2>1. DOMAIN t = 1..L - n
      BY <1>8, Zenon
    <2> QED  BY <2>1, <1>10, <1>11, <1>12, Zenon DEF ExpiriesSorted, t
  <1>14. ASSUME NEW r \in Range(expired')
         PROVE  r \in sent_reqs /\ \E i \in 1..n : s[i] = [at |-> expiry[r], id |-> r]
    <2>1. PICK i \in 1..n : s[i].id = r
      BY <1>6, Zenon
    <2> QED  BY <2>1, <1>0, <1>1, <1>s, OneEntry, Zenon DEF s
  <1> QED  BY <1>4, <1>5, <1>8, <1>13, <1>14, Zenon DEF s, t, L

-----------------------------------------------------------------------------
(* The actions.                                                            *)

Inv == AnsweredInTime /\ NoLateSend

\* A request that was not answered yet gets its one response.
LEMMA Delivered ==
    ASSUME RequestsOK, AnsweredOnce, NEW r \in Requests, place[r] # "gone", NEW response \in Responses
    PROVE  /\ deliver(answers, r, response) \in [Requests -> Seq(Responses)]
           /\ deliver(answers, r, response)[r] = <<response>>
           /\ \A q \in Requests : q # r => deliver(answers, r, response)[q] = answers[q]
  <1>1. answers \in [Requests -> Seq(Responses)] /\ Len(answers[r]) = 0
    BY Zenon DEF RequestsOK, AnsweredOnce
  <1>2. answers[r] = <<>>
    BY <1>1
  <1>3. <<response>> \in Seq(Responses)
    OBVIOUS
  <1>4. deliver(answers, r, response) = [answers EXCEPT ![r] = <<response>>]
    BY <1>2, Zenon DEF deliver
  <1> QED  BY <1>1, <1>3, <1>4, Zenon

LEMMA OtherResponse == <<"closed">> # <<"timeout">> /\ <<"reply">> # <<"timeout">> /\ <<>> # <<"timeout">>
  BY Zenon

\* What an unanswered request has not got.
LEMMA Unanswered ==
    ASSUME RequestsOK, AnsweredOnce, NEW r \in Requests, place[r] # "gone"
    PROVE  answers[r] # <<"timeout">>
  <1>1. Len(answers[r]) = 0
    BY Zenon DEF RequestsOK, AnsweredOnce
  <1>2. Len(<<"timeout">>) = 1
    BY Zenon
  <1> QED  BY <1>1, <1>2

LEMMA InvCommandQueued ==
    ASSUME Inv, NEW r \in Requests, NEW t \in Timeouts, now + t <= MaxTime, CommandQueued(r, t)
    PROVE  Inv'
  <1> USE DEF Inv, AnsweredInTime, TypeOK, CommandQueued, Make, tables, loop, stream, net
  <1>0. now + t \in 0..MaxTime /\ place[r] = "none" /\ answers[r] # <<"timeout">> /\ r \notin sent_reqs
    <2>1. now + t \in 0..MaxTime
      BY RequestAssumption DEF RequestsOK
    <2> QED  BY <2>1, Unanswered, Zenon DEF AnsweredOnce
  <1>1. RequestsOK'
    BY <1>0, Zenon DEF RequestsOK
  <1>2. TablesOK' /\ StreamOK' /\ RepliesOK'
    BY Zenon DEF TablesOK, StreamOK, RepliesOK
  <1>3. LoopOK'
    BY Zenon DEF LoopOK
  <1>4. \A q \in Requests : q # r => place'[q] = place[q] /\ expiry'[q] = expiry[q]
    BY Zenon DEF RequestsOK
  <1>5. place'[r] = "job"
    BY Zenon DEF RequestsOK
  <1>6. AnsweredOnce'
    BY <1>0, <1>4, <1>5, ZenonT(30) DEF AnsweredOnce, Distinct
  <1>7. ExpiriesSorted'
    BY <1>0, <1>4 DEF ExpiriesSorted, TimerInSync, TablesOK
  <1>8. TimerInSync'
    BY <1>7, Zenon DEF TimerInSync, update_timeout
  <1>9. NeverEarly'
    BY <1>0, <1>4, <1>5, Zenon DEF NeverEarly
  <1>10. NoLateSend'
    BY <1>0, <1>4 DEF NoLateSend, StreamOK, Distinct
  <1> QED  BY <1>1, <1>2, <1>3, <1>6, <1>8, <1>9, <1>10, Zenon

LEMMA InvAdd ==
    ASSUME Inv, NEW r \in Requests, place[r] \in {"none", "job"}, NEW at \in 0..MaxTime, add_sent_request(r, at),
           expiry' = [expiry EXCEPT ![r] = at],
           UNCHANGED <<now, is_closing, attached, alive, loop, started, net>>
    PROVE  Inv'
  <1> USE DEF Inv, AnsweredInTime, TypeOK, loop, net
  <1>0. /\ r \notin sent_reqs /\ place[r] # "gone" /\ answers[r] # <<"timeout">>
        /\ expiry' \in [Requests -> 0..MaxTime] /\ expiry'[r] = at
        /\ \A q \in Requests : q # r => expiry'[q] = expiry[q]
    BY Unanswered, Zenon DEF AnsweredOnce, RequestsOK
  <1>1. LoopOK' /\ RepliesOK'
    BY Zenon DEF LoopOK, RepliesOK
  <1>2. sent_reqs \subseteq Requests /\ \A q \in sent_reqs : expiry'[q] = expiry[q]
    BY <1>0, Zenon DEF TablesOK
  <1>u. \A i \in DOMAIN unsent : unsent[i] \in Requests \ {r}
    BY DEF StreamOK, NoLateSend
  <1>x. r \notin Range(expired)
    BY Zenon DEF AnsweredOnce
  <1>3. CASE is_closing
    <2>1. answers' = deliver(answers, r, "closed") /\ place' = [place EXCEPT ![r] = "gone"]
          /\ UNCHANGED <<sent_reqs, req_expiries, timer, unsent>>
      BY <1>3, Zenon DEF add_sent_request, tables
    <2>2. /\ answers' \in [Requests -> Seq(Responses)] /\ answers'[r] = <<"closed">>
          /\ \A q \in Requests : q # r => answers'[q] = answers[q]
      BY <1>0, <2>1, Delivered, Zenon DEF Responses
    <2>3. place'[r] = "gone" /\ \A q \in Requests : q # r => place'[q] = place[q]
      BY <2>1, Zenon DEF RequestsOK
    <2>4. RequestsOK'
      BY <1>0, <2>1, <2>2, Zenon DEF RequestsOK
    <2>5. TablesOK' /\ StreamOK'
      BY <2>1, Zenon DEF TablesOK, StreamOK
    <2>6. AnsweredOnce'
      <3>1. Len(answers'[r]) = 1
        BY <2>2
      <3>2. \A q \in Requests : Len(answers'[q]) = IF place'[q] = "gone" THEN 1 ELSE 0
        BY <2>2, <2>3, <3>1, ZenonT(30) DEF AnsweredOnce
      <3>3. \A q \in Requests : /\ q \in sent_reqs' <=> place'[q] = "sent_reqs"
                                /\ q \in Range(expired') <=> place'[q] = "expired"
        BY <1>0, <1>x, <2>1, <2>3, Zenon DEF AnsweredOnce
      <3>4. Distinct(expired)'
        BY Zenon DEF AnsweredOnce, Distinct
      <3> QED  BY <3>2, <3>3, <3>4, Zenon DEF AnsweredOnce
    <2>7. ExpiriesSorted'
      <3>1. ExpiriesSorted
        BY Zenon DEF TimerInSync
      <3> QED  BY <3>1, <1>2, <2>1 DEF ExpiriesSorted
    <2>8. TimerInSync'
      BY <2>1, <2>7, Zenon DEF TimerInSync, update_timeout
    <2>9. NeverEarly'
      BY <1>0, <2>2, <2>3, OtherResponse, Zenon DEF NeverEarly
    <2>10. NoLateSend'
      <3>1. \A i \in DOMAIN unsent' : answers'[unsent'[i]] = answers[unsent[i]] /\ place'[unsent'[i]] = place[unsent[i]]
        BY <1>u, <2>1, <2>2, <2>3, Zenon
      <3> QED  BY <2>1, <3>1, Zenon DEF NoLateSend, Distinct
    <2> QED  BY <1>1, <2>4, <2>5, <2>6, <2>8, <2>9, <2>10, Zenon
  <1>4. CASE ~is_closing
    <2>1. /\ sent_reqs' = sent_reqs \cup {r} /\ req_expiries' \in Emplaced(req_expiries, at, r)
          /\ timer' = (IF req_expiries'[1].id = r THEN update_timeout(req_expiries') ELSE timer)
          /\ unsent' = (IF attached THEN Append(unsent, r) ELSE unsent)
          /\ place' = [place EXCEPT ![r] = "sent_reqs"] /\ answers' = answers
      BY <1>4, Zenon DEF add_sent_request
    <2>2. /\ ExpiriesSorted' /\ req_expiries' \in Seq(Entries) /\ req_expiries' # <<>>
          /\ req_expiries'[1].id # r => req_expiries # <<>> /\ req_expiries'[1] = req_expiries[1]
      BY <1>0, <1>2, <2>1, AddEntry, Zenon DEF TimerInSync
    <2>3. place'[r] = "sent_reqs" /\ \A q \in Requests : q # r => place'[q] = place[q]
      BY <2>1, Zenon DEF RequestsOK
    <2>4. RequestsOK'
      BY <1>0, <2>1, Zenon DEF RequestsOK
    <2>5. req_expiries'[1] \in Entries /\ update_timeout(req_expiries') = req_expiries'[1].at
      BY <2>2 DEF update_timeout
    <2>6. TablesOK'
      <3>1. timer' \in {NoTimer} \cup 0..MaxTime
        BY <2>1, <2>5, EntryOf, Zenon DEF TablesOK
      <3> QED  BY <1>2, <2>1, <2>2, <3>1, Zenon DEF TablesOK, Entries
    <2>7. StreamOK'
      <3>1. unsent' \in Seq(Requests)
        BY <2>1 DEF StreamOK
      <3> QED  BY <3>1, Zenon DEF StreamOK
    <2>8. AnsweredOnce'
      BY <1>0, <1>x, <2>1, <2>3, ZenonT(30) DEF AnsweredOnce, Distinct
    <2>9. TimerInSync'
      <3>1. pc = "idle" => timer' = update_timeout(req_expiries')
        BY <2>1, <2>2, <2>5, Zenon DEF TimerInSync, update_timeout
      <3>2. ~(pc = "expiring" /\ ~withdrawing)
        BY <1>4, Zenon DEF TimerInSync
      <3> QED  BY <2>2, <3>1, <3>2, Zenon DEF TimerInSync
    <2>10. NeverEarly'
      BY <1>0, <2>1, <2>3, Zenon DEF NeverEarly
    <2>11. NoLateSend'
      <3>1. CASE unsent' = unsent
        <4>1. \A i \in DOMAIN unsent : answers'[unsent[i]] = answers[unsent[i]] /\ place'[unsent[i]] = place[unsent[i]]
          BY <1>u, <2>1, <2>3, Zenon
        <4> QED  BY <3>1, <4>1, Zenon DEF NoLateSend, Distinct
      <3>2. CASE unsent' = Append(unsent, r)
        <4> DEFINE L == Len(unsent)
        <4>1. /\ L \in Nat /\ DOMAIN unsent = 1..L /\ DOMAIN unsent' = 1..L + 1
              /\ unsent'[L + 1] = r /\ \A i \in 1..L : unsent'[i] = unsent[i]
          BY <3>2 DEF StreamOK
        <4> HIDE DEF L
        <4>2. \A i \in 1..L + 1 : i = L + 1 \/ i \in 1..L
          BY <4>1
        <4>3. Distinct(unsent)'
          BY <4>1, <4>2, <1>u DEF Distinct, NoLateSend
        <4>4. ASSUME NEW i \in 1..L + 1
              PROVE  /\ answers'[unsent'[i]] = <<"timeout">> =>
                            unsent'[i] \in send_after_timeout \/ (i = 1 /\ started')
                     /\ place'[unsent'[i]] \notin {"none", "job"}
          <5>1. CASE i = L + 1
            BY <5>1, <4>1, <1>0, <2>1, <2>3, Zenon
          <5>2. CASE i \in 1..L
            <6>1. i \in DOMAIN unsent /\ unsent'[i] = unsent[i]
              BY <5>2, <4>1, Zenon
            <6>2. answers'[unsent[i]] = answers[unsent[i]] /\ place'[unsent[i]] = place[unsent[i]]
              BY <6>1, <1>u, <2>1, <2>3, Zenon
            <6> QED  BY <6>1, <6>2, Zenon DEF NoLateSend
          <5> QED  BY <5>1, <5>2, <4>2, Zenon
        <4> QED  BY <4>1, <4>3, <4>4, Zenon DEF NoLateSend
      <3> QED  BY <2>1, <3>1, <3>2, Zenon
    <2> QED  BY <1>1, <2>4, <2>6, <2>7, <2>8, <2>9, <2>10, <2>11, Zenon
  <1> QED  BY <1>3, <1>4, Zenon

\* Actions that touch neither the tables nor the queue of unsent requests.
LEMMA InvElsewhere ==
    ASSUME Inv, UNCHANGED <<place, expiry, answers, tables, pc, expired, withdrawing, unsent>>,
           now' \in 0..MaxTime, now' >= now, is_closing => is_closing', is_closing' \in BOOLEAN,
           attached' \in BOOLEAN, alive' = alive, started' \in BOOLEAN, started => started',
           written' = written, RepliesOK'
    PROVE  Inv'
  <1> USE DEF Inv, AnsweredInTime, TypeOK, tables
  <1>1. RequestsOK' /\ TablesOK'
    BY Zenon DEF RequestsOK, TablesOK
  <1>2. LoopOK' /\ StreamOK'
    BY Zenon DEF LoopOK, StreamOK
  <1>3. AnsweredOnce' /\ ExpiriesSorted'
    BY ZenonT(30) DEF AnsweredOnce, ExpiriesSorted, TimerInSync, Distinct
  <1>4. TimerInSync'
    BY <1>3, Zenon DEF TimerInSync, update_timeout
  <1>5. NeverEarly'
    <2>1. \A r \in Requests : expiry[r] <= now => expiry[r] <= now'
      BY Bounds DEF RequestsOK
    <2> QED  BY <2>1, Zenon DEF NeverEarly
  <1>6. NoLateSend'
    BY Zenon DEF NoLateSend, Distinct
  <1> QED  BY <1>1, <1>2, <1>3, <1>4, <1>5, <1>6, Zenon

LEMMA InvWriteRest == ASSUME Inv, WriteRest PROVE Inv'
  <1> USE DEF Inv, AnsweredInTime, TypeOK, tables, loop, WriteRest
  <1> DEFINE L == Len(unsent)
  <1>1. /\ L \in Nat /\ L > 0 /\ DOMAIN unsent = 1..L /\ DOMAIN unsent' = 1..L - 1 /\ unsent' \in Seq(Requests)
        /\ \A i \in 1..L - 1 : unsent'[i] = unsent[i + 1] /\ i + 1 \in 1..L /\ i + 1 # 1
        /\ unsent[1] \in Requests /\ unsent[1] = Head(unsent)
    <2>1. unsent \in Seq(Requests) /\ unsent # <<>> /\ unsent' = Tail(unsent)
      BY Zenon DEF StreamOK
    <2> QED  BY <2>1
  <1> HIDE DEF L
  <1>2. RequestsOK' /\ TablesOK' /\ LoopOK' /\ RepliesOK'
    BY Zenon DEF RequestsOK, TablesOK, LoopOK, RepliesOK
  <1>3. StreamOK'
    BY <1>1, Zenon DEF StreamOK
  <1>4. AnsweredOnce' /\ ExpiriesSorted'
    BY ZenonT(30) DEF AnsweredOnce, ExpiriesSorted, TimerInSync, Distinct
  <1>5. TimerInSync' /\ NeverEarly'
    BY <1>4, Zenon DEF TimerInSync, NeverEarly, update_timeout
  <1>6. NoLateSend'
    <2>1. \A i \in 1..L - 1 : /\ answers[unsent[i + 1]] = <<"timeout">> => unsent[i + 1] \in send_after_timeout
                              /\ place[unsent[i + 1]] \notin {"none", "job"}
      BY <1>1, Zenon DEF NoLateSend
    <2>2. \A i, j \in 1..L - 1 : unsent'[i] = unsent'[j] => i + 1 = j + 1
      BY <1>1 DEF NoLateSend, Distinct
    <2>3. Distinct(unsent)'
      BY <1>1, <2>2 DEF Distinct
    <2> QED  BY <1>1, <2>1, <2>3 DEF NoLateSend
  <1> QED  BY <1>2, <1>3, <1>4, <1>5, <1>6, Zenon

LEMMA InvReply == ASSUME Inv, NEW r \in Requests, Reply(r) PROVE Inv'
  <1> USE DEF Inv, AnsweredInTime, TypeOK, loop, stream
  <1>0. RepliesOK'
    <2>1. /\ replies \in [Requests -> 0..MaxReplies] /\ replied \in [Requests -> 0..MaxReplies]
          /\ \A q \in Requests : replies[q] <= replied[q]
          /\ replies[r] > 0 /\ replies' = [replies EXCEPT ![r] = replies[r] - 1] /\ replied' = replied
      BY Zenon DEF Reply, RepliesOK
    <2>2. replies[r] - 1 \in 0..MaxReplies /\ replies[r] - 1 <= replied[r]
      BY <2>1, Bounds
    <2> QED  BY <2>1, <2>2, Zenon DEF RepliesOK
  <1>c. UNCHANGED <<now, expiry, is_closing, attached, alive, pc, expired, withdrawing, unsent, started, written>>
    BY Zenon DEF Reply
  <1>1. CASE is_closing \/ r \notin sent_reqs
    <2>1. UNCHANGED <<place, answers, tables>>
      BY <1>1, Zenon DEF Reply
    <2>2. now' \in 0..MaxTime /\ now' >= now
      BY <1>c, Bounds DEF RequestsOK
    <2>3. is_closing' \in BOOLEAN /\ attached' \in BOOLEAN /\ started' \in BOOLEAN
      BY <1>c, Zenon DEF LoopOK, StreamOK
    <2> QED  BY <1>0, <1>c, <2>1, <2>2, <2>3, InvElsewhere, Zenon
  <1>2. CASE ~is_closing /\ r \in sent_reqs
    <2> DEFINE I == {i \in DOMAIN req_expiries : req_expiries[i] # [at |-> expiry[r], id |-> r]}
    <2>1. /\ sent_reqs' = sent_reqs \ {r}
          /\ \E f \in Enumerations(I) : req_expiries' = Kept(req_expiries, f)
          /\ timer' = (IF 1 \in DOMAIN req_expiries \ I THEN update_timeout(req_expiries') ELSE timer)
          /\ answers' = deliver(answers, r, "reply") /\ place' = [place EXCEPT ![r] = "gone"]
          /\ pc = "idle"
      BY <1>2, Zenon DEF Reply
    <2>i. I \in SUBSET (DOMAIN req_expiries)
          /\ \A i : i \in I <=> i \in DOMAIN req_expiries /\ req_expiries[i] # [at |-> expiry[r], id |-> r]
      BY Zenon
    <2> HIDE DEF I
    <2>2. /\ ExpiriesSorted' /\ req_expiries' \in Seq(Entries) /\ req_expiries # <<>>
          /\ 1 \in I => req_expiries' # <<>> /\ req_expiries # <<>> /\ req_expiries'[1] = req_expiries[1]
      <3>1. PICK f \in Enumerations(I) : req_expiries' = Kept(req_expiries, f)
        BY <2>1, Zenon
      <3>2. TablesOK /\ ExpiriesSorted
        BY Zenon DEF TimerInSync
      <3> QED  BY <1>2, <1>c, <2>1, <2>i, <3>1, <3>2, EraseEntry, Zenon
    <2>3. place[r] = "sent_reqs" /\ place'[r] = "gone" /\ \A q \in Requests : q # r => place'[q] = place[q]
      BY <1>2, <2>1, Zenon DEF RequestsOK, AnsweredOnce
    <2>4. /\ answers' \in [Requests -> Seq(Responses)] /\ answers'[r] = <<"reply">>
          /\ \A q \in Requests : q # r => answers'[q] = answers[q]
      BY <2>1, <2>3, Delivered, Zenon DEF Responses
    <2>5. RequestsOK'
      BY <1>c, <2>1, <2>4, Zenon DEF RequestsOK
    <2>6. timer' = update_timeout(req_expiries')
      <3>1. 1 \in DOMAIN req_expiries
        BY <2>2 DEF TablesOK
      <3>2. CASE 1 \in I
        BY <3>2, <2>1, <2>2, Zenon DEF TimerInSync, update_timeout
      <3> QED  BY <2>1, <3>1, <3>2, Zenon
    <2>7. TablesOK'
      <3>1. update_timeout(req_expiries') \in {NoTimer} \cup 0..MaxTime
        <4>1. CASE req_expiries' = <<>>
          BY <4>1, Zenon DEF update_timeout
        <4>2. CASE req_expiries' # <<>>
          <5>1. req_expiries'[1] \in Entries
            BY <4>2, <2>2
          <5> QED  BY <4>2, <5>1, EntryOf, Zenon DEF update_timeout
        <4> QED  BY <4>1, <4>2, Zenon
      <3> QED  BY <2>1, <2>2, <2>6, <3>1, Zenon DEF TablesOK, Entries
    <2>8. LoopOK' /\ StreamOK'
      BY <1>c, Zenon DEF LoopOK, StreamOK
    <2>9. AnsweredOnce'
      <3>1. Len(answers'[r]) = 1
        BY <2>4
      <3>2. \A q \in Requests : Len(answers'[q]) = IF place'[q] = "gone" THEN 1 ELSE 0
        BY <2>3, <2>4, <3>1, Zenon DEF AnsweredOnce
      <3>3. \A q \in Requests : /\ q \in sent_reqs' <=> place'[q] = "sent_reqs"
                                /\ q \in Range(expired') <=> place'[q] = "expired"
        BY <1>c, <2>1, <2>3, Zenon DEF AnsweredOnce
      <3>4. Distinct(expired)'
        BY <1>c, Zenon DEF AnsweredOnce, Distinct
      <3> QED  BY <3>2, <3>3, <3>4, Zenon DEF AnsweredOnce
    <2>10. TimerInSync'
      BY <1>c, <2>1, <2>2, <2>6, Zenon DEF TimerInSync
    <2>11. NeverEarly'
      BY <1>c, <2>3, <2>4, OtherResponse, Zenon DEF NeverEarly
    <2>12. NoLateSend'
      <3>1. ASSUME NEW i \in DOMAIN unsent
            PROVE  /\ answers'[unsent[i]] = <<"timeout">> => unsent[i] \in send_after_timeout \/ (i = 1 /\ started)
                   /\ place'[unsent[i]] \notin {"none", "job"}
        <4>1. unsent[i] \in Requests
          BY DEF StreamOK
        <4> QED  BY <4>1, <2>3, <2>4, OtherResponse, Zenon DEF NoLateSend
      <3> QED  BY <1>c, <3>1, Zenon DEF NoLateSend, Distinct
    <2> QED  BY <1>0, <2>5, <2>7, <2>8, <2>9, <2>10, <2>11, <2>12, Zenon
  <1> QED  BY <1>1, <1>2, Zenon

\* check_timeouts fills its list, for the timer or for a close.
LEMMA InvTake ==
    ASSUME Inv, pc = "idle", NEW n \in 0..Len(req_expiries), NEW timed \in BOOLEAN, check_timeouts(n, timed),
           timer' = NoTimer, timed => \A i \in 1..n : req_expiries[i].at <= now,
           ~timed => is_closing' = TRUE /\ n = Len(req_expiries), is_closing' \in BOOLEAN,
           UNCHANGED <<now, expiry, answers, attached, alive, stream, net>>
    PROVE  Inv'
  <1> USE DEF Inv, AnsweredInTime, TypeOK, stream, net
  <1>1. /\ ExpiriesSorted' /\ req_expiries' \in Seq(Entries) /\ Len(req_expiries') = Len(req_expiries) - n
        /\ expired' \in Seq(Requests) /\ Distinct(expired)'
        /\ \A r \in Range(expired') : r \in sent_reqs /\ \E i \in 1..n : req_expiries[i] = [at |-> expiry[r], id |-> r]
    <2>1. TablesOK /\ ExpiriesSorted
      BY Zenon DEF TimerInSync
    <2> QED  BY <2>1, TakeEntries, Zenon
  <1>2. /\ sent_reqs' = sent_reqs \ Range(expired') /\ withdrawing' = timed /\ pc' = "expiring"
        /\ place' = [r \in Requests |-> IF r \in Range(expired') THEN "expired" ELSE place[r]]
    BY Zenon DEF check_timeouts
  <1>4. ASSUME NEW r \in Requests
        PROVE  /\ place'[r] = (IF r \in Range(expired') THEN "expired" ELSE place[r])
               /\ place[r] # "expired" /\ (r \in Range(expired') => place[r] = "sent_reqs")
    <2>1. expired = <<>>
      BY Zenon DEF TimerInSync
    <2>2. r \notin Range(expired)
      BY <2>1 DEF Range
    <2> QED  BY <1>1, <1>2, <2>2, Zenon DEF AnsweredOnce
  <1>5. RequestsOK'
    <2>1. place' \in [Requests -> {"none", "job", "sent_reqs", "expired", "gone"}]
      BY <1>2, Zenon DEF RequestsOK
    <2> QED  BY <2>1, Zenon DEF RequestsOK
  <1>6. TablesOK'
    BY <1>1, <1>2, Zenon DEF TablesOK, Entries
  <1>7. LoopOK'
    BY <1>1, <1>2, Zenon DEF LoopOK
  <1>8. StreamOK' /\ RepliesOK'
    BY Zenon DEF StreamOK, RepliesOK
  <1>9. AnsweredOnce'
    <2>1. \A r \in Requests : Len(answers'[r]) = IF place'[r] = "gone" THEN 1 ELSE 0
      BY <1>4, Zenon DEF AnsweredOnce
    <2>2. \A r \in Requests :
             /\ r \in sent_reqs' <=> place'[r] = "sent_reqs"
             /\ r \in Range(expired') <=> place'[r] = "expired"
      BY <1>2, <1>4, Zenon DEF AnsweredOnce
    <2> QED  BY <1>1, <2>1, <2>2, Zenon DEF AnsweredOnce
  <1>10. TimerInSync'
    <2>1. ~timed => req_expiries' = <<>>
      <3>1. Len(req_expiries) \in Nat
        BY DEF TablesOK
      <3> QED  BY <1>1, <3>1
    <2> QED  BY <1>1, <1>2, <2>1, Zenon DEF TimerInSync
  <1>11. NeverEarly'
    <2> SUFFICES ASSUME NEW r \in Requests, answers[r] = <<"timeout">> \/ (place'[r] = "expired" /\ timed)
                 PROVE  expiry[r] <= now
      BY <1>2, Zenon DEF NeverEarly
    <2>1. CASE answers[r] = <<"timeout">>
      BY <2>1, Zenon DEF NeverEarly
    <2>2. CASE place'[r] = "expired" /\ timed
      <3>1. PICK i \in 1..n : req_expiries[i] = [at |-> expiry[r], id |-> r]
        BY <2>2, <1>1, <1>4, Zenon
      <3>2. \A j \in 1..n : req_expiries[j].at <= now
        BY <2>2, Zenon
      <3>3. req_expiries[i].at = expiry[r]
        BY <3>1
      <3> QED  BY <3>2, <3>3, Zenon
    <2> QED  BY <2>1, <2>2, Zenon
  <1>12. NoLateSend'
    <2>1. \A i \in DOMAIN unsent : place'[unsent[i]] \notin {"none", "job"}
      BY <1>4 DEF NoLateSend, StreamOK
    <2> QED  BY <2>1, Zenon DEF NoLateSend, Distinct
  <1> QED  BY <1>5, <1>6, <1>7, <1>8, <1>9, <1>10, <1>11, <1>12, Zenon

\* check_timeouts goes on to the next request of its list.
LEMMA InvExpireNext == ASSUME Inv, ExpireNext PROVE Inv'
  <1> USE DEF Inv, AnsweredInTime, TypeOK, tables, net
  <1> DEFINE r == Head(expired)  L == Len(expired)
             response == IF withdrawing THEN "timeout" ELSE "closed"
  <1>1. /\ pc = "expiring" /\ answers' = deliver(answers, r, response)
        /\ place' = [place EXCEPT ![r] = "gone"] /\ expired' = Tail(expired)
        /\ IF withdrawing /\ r \notin send_after_timeout THEN withdraw(r) ELSE UNCHANGED unsent
        /\ UNCHANGED <<now, expiry, sent_reqs, req_expiries, timer, is_closing, attached, alive, pc, withdrawing,
                       started, written, replies, replied>>
    BY Zenon DEF ExpireNext
  <1>2. /\ L \in Nat /\ L > 0 /\ DOMAIN expired = 1..L /\ r = expired[1] /\ r \in Requests
        /\ expired' \in Seq(Requests) /\ DOMAIN expired' = 1..L - 1
        /\ \A i \in 1..L - 1 : expired'[i] = expired[i + 1] /\ i + 1 \in 1..L
    <2>1. expired \in Seq(Requests) /\ expired # <<>>
      BY Zenon DEF LoopOK, ExpireNext
    <2> QED  BY <1>1, <2>1
  <1> HIDE DEF r, L
  <1>3. Distinct(expired)' /\ Range(expired') = Range(expired) \ {r}
    <2>1. \A i, j \in 1..L : expired[i] = expired[j] => i = j
      BY <1>2, Zenon DEF AnsweredOnce, Distinct
    <2>2. Distinct(expired)'
      <3>1. ASSUME NEW i \in 1..L - 1, NEW j \in 1..L - 1, expired'[i] = expired'[j] PROVE i = j
        <4>1. i + 1 = j + 1
          BY <3>1, <2>1, <1>2, Zenon
        <4> QED  BY <4>1, <1>2
      <3> QED  BY <3>1, <1>2, Zenon DEF Distinct
    <2>3. \A x : x \in Range(expired) <=> \E i \in 1..L : expired[i] = x
      BY <1>2, Zenon DEF Range
    <2>4. \A x : x \in Range(expired') <=> \E i \in 1..L - 1 : expired[i + 1] = x
      BY <1>2, Zenon DEF Range
    <2>5. ASSUME NEW i \in 1..L - 1 PROVE expired[i + 1] # r /\ i + 1 \in 1..L
      <3>1. 1 \in 1..L /\ i + 1 # 1 /\ i + 1 \in 1..L
        BY <1>2
      <3> QED  BY <3>1, <2>1, <1>2, Zenon
    <2>6. ASSUME NEW i \in 1..L, expired[i] # r PROVE \E j \in 1..L - 1 : expired[j + 1] = expired[i]
      <3>1. i # 1
        BY <2>6, <1>2, Zenon
      <3>2. i - 1 \in 1..L - 1 /\ (i - 1) + 1 = i
        BY <3>1, <1>2
      <3> QED  BY <3>2, Zenon
    <2>7. \A x : x \in Range(expired') <=> x \in Range(expired) \ {r}
      BY <2>3, <2>4, <2>5, <2>6, Zenon
    <2> QED  BY <2>2, <2>7, Zenon
  <1>4. r \in Range(expired) /\ place[r] = "expired"
    BY <1>2 DEF Range, AnsweredOnce
  <1>5. response \in Responses
    BY Zenon DEF Responses
  <1>r. withdrawing => expiry[r] <= now
    BY <1>2, <1>4, Zenon DEF NeverEarly
  <1>6. /\ answers' \in [Requests -> Seq(Responses)] /\ answers'[r] = <<response>>
        /\ \A q \in Requests : q # r => answers'[q] = answers[q]
    BY <1>1, <1>2, <1>4, <1>5, Delivered, Zenon
  <1>t. answers'[r] = <<"timeout">> => withdrawing
    BY <1>6, OtherResponse, Zenon
  <1> HIDE DEF response
  <1>7. place'[r] = "gone" /\ \A q \in Requests : q # r => place'[q] = place[q]
    BY <1>1, <1>2, Zenon DEF RequestsOK
  <1>8. RequestsOK'
    BY <1>1, <1>6, Zenon DEF RequestsOK
  <1>9. TablesOK' /\ RepliesOK'
    BY <1>1, Zenon DEF TablesOK, RepliesOK
  <1>10. LoopOK'
    BY <1>1, <1>2, Zenon DEF LoopOK
  <1>11. AnsweredOnce'
    <2>1. Len(answers'[r]) = 1
      BY <1>6
    <2>2. \A q \in Requests : Len(answers'[q]) = IF place'[q] = "gone" THEN 1 ELSE 0
      BY <1>6, <1>7, <2>1, Zenon DEF AnsweredOnce
    <2>3. \A q \in Requests :
             /\ q \in sent_reqs' <=> place'[q] = "sent_reqs"
             /\ q \in Range(expired') <=> place'[q] = "expired"
      BY <1>1, <1>3, <1>4, <1>7, Zenon DEF AnsweredOnce
    <2> QED  BY <1>3, <2>2, <2>3, Zenon DEF AnsweredOnce
  <1>12. TimerInSync'
    <2>1. ExpiriesSorted'
      BY <1>1, Zenon DEF ExpiriesSorted, TimerInSync
    <2> QED  BY <1>1, <2>1, Zenon DEF TimerInSync
  <1>13. NeverEarly'
    BY <1>1, <1>6, <1>7, <1>r, <1>t, Zenon DEF NeverEarly
  <1>u. \A i \in DOMAIN unsent : unsent[i] \in Requests
    BY DEF StreamOK
  <1>14. CASE UNCHANGED unsent /\ (withdrawing => r \in send_after_timeout)
    <2>1. StreamOK'
      BY <1>1, <1>14, Zenon DEF StreamOK
    <2>2. NoLateSend'
      <3>1. ASSUME NEW i \in DOMAIN unsent
            PROVE  /\ answers'[unsent[i]] = <<"timeout">> => unsent[i] \in send_after_timeout \/ (i = 1 /\ started)
                   /\ place'[unsent[i]] \notin {"none", "job"}
        BY <1>14, <1>u, <1>6, <1>7, <1>t, Zenon DEF NoLateSend
      <3> QED  BY <1>1, <1>14, <3>1, Zenon DEF NoLateSend, Distinct
    <2> QED  BY <1>8, <1>9, <1>10, <1>11, <1>12, <1>13, <2>1, <2>2, Zenon
  <1>15. CASE withdraw(r)
    <2> DEFINE I == {i \in DOMAIN unsent : unsent[i] # r \/ (i = 1 /\ started)}  U == Len(unsent)
    <2>0. unsent \in Seq(Requests) /\ U \in Nat /\ DOMAIN unsent = 1..U /\ I \in SUBSET (1..U)
      BY DEF StreamOK
    <2>1. PICK f \in Enumerations(I) : unsent' = Kept(unsent, f)
      BY <1>15, Zenon DEF withdraw
    <2>i. \A p \in I : p \in DOMAIN unsent /\ (unsent[p] # r \/ (p = 1 /\ started))
      BY Zenon
    <2> HIDE DEF I, U
    <2>2. PICK m \in Nat : Lists(f, m, I)
      BY <2>0, EnumeratedAt, Zenon
    <2>3. unsent' = [i \in 1..m |-> unsent[f[i]]] /\ \A i \in 1..m : f[i] \in I /\ f[i] \in DOMAIN unsent
      BY <2>1, <2>2, <2>i, Zenon DEF Lists, Kept
    <2>4. /\ unsent' \in Seq(Requests) /\ DOMAIN unsent' = 1..m /\ \A i \in 1..m : unsent'[i] = unsent[f[i]]
      <3>1. unsent' \in [1..m -> Requests]
        BY <2>3, <1>u, Zenon
      <3> QED  BY <3>1, <2>3
    <2>5. StreamOK'
      BY <1>1, <2>4, Zenon DEF StreamOK
    <2>6. Distinct(unsent)'
      <3>1. \A i, j \in 1..m : unsent[f[i]] = unsent[f[j]] => f[i] = f[j]
        BY <2>3, Zenon DEF NoLateSend, Distinct
      <3>2. \A i, j \in 1..m : f[i] = f[j] => i = j
        BY <2>2, Zenon DEF Lists
      <3>3. \A i, j \in 1..m : unsent'[i] = unsent'[j] => i = j
        BY <3>1, <3>2, <2>4
      <3> QED  BY <3>3, <2>4 DEF Distinct
    <2>7. ASSUME NEW i \in 1..m
          PROVE  /\ answers'[unsent'[i]] = <<"timeout">> => unsent'[i] \in send_after_timeout \/ (i = 1 /\ started)
                 /\ place'[unsent'[i]] \notin {"none", "job"}
      <3>1. f[i] \in DOMAIN unsent /\ f[i] \in I /\ unsent'[i] = unsent[f[i]] /\ (f[i] = 1 => i = 1)
        BY <2>2, <2>3, <2>4, Zenon DEF Lists
      <3>2. CASE unsent[f[i]] = r
        BY <3>1, <3>2, <2>i, <1>7, Zenon
      <3>3. CASE unsent[f[i]] # r
        <4>1. answers'[unsent[f[i]]] = answers[unsent[f[i]]] /\ place'[unsent[f[i]]] = place[unsent[f[i]]]
          BY <3>1, <3>3, <1>u, <1>6, <1>7, Zenon
        <4> QED  BY <4>1, <3>1, Zenon DEF NoLateSend
      <3> QED  BY <3>2, <3>3, Zenon
    <2>8. NoLateSend'
      BY <1>1, <2>4, <2>6, <2>7, Zenon DEF NoLateSend
    <2> QED  BY <1>8, <1>9, <1>10, <1>11, <1>12, <1>13, <2>5, <2>8, Zenon
  <1> QED  BY <1>1, <1>14, <1>15, Zenon

LEMMA InvExpireDone == ASSUME Inv, ExpireDone PROVE Inv'
  <1> USE DEF Inv, AnsweredInTime, TypeOK, stream, net, ExpireDone
  <1>1. timer' = update_timeout(req_expiries)
    BY Zenon DEF TimerInSync, update_timeout
  <1>2. TablesOK'
    <2>1. update_timeout(req_expiries) \in {NoTimer} \cup 0..MaxTime
      <3>1. CASE req_expiries = <<>>
        BY <3>1, Zenon DEF update_timeout
      <3>2. CASE req_expiries # <<>>
        <4>1. req_expiries \in Seq(Entries)
          BY Zenon DEF TablesOK, Entries
        <4>2. req_expiries[1] \in Entries
          BY <3>2, <4>1
        <4> QED  BY <3>2, <4>2, EntryOf, Zenon DEF update_timeout
      <3> QED  BY <3>1, <3>2, Zenon
    <2> QED  BY <1>1, <2>1, Zenon DEF TablesOK
  <1>3. RequestsOK' /\ StreamOK' /\ RepliesOK'
    BY Zenon DEF RequestsOK, StreamOK, RepliesOK
  <1>4. LoopOK'
    BY Zenon DEF LoopOK
  <1>5. AnsweredOnce' /\ ExpiriesSorted'
    <2>1. AnsweredOnce'
      BY Zenon DEF AnsweredOnce, Distinct
    <2>2. ExpiriesSorted
      BY Zenon DEF TimerInSync
    <2>3. ExpiriesSorted'
      BY <2>2, Zenon DEF ExpiriesSorted
    <2> QED  BY <2>1, <2>3, Zenon
  <1>6. TimerInSync'
    BY <1>1, <1>5, Zenon DEF TimerInSync, update_timeout
  <1>7. NeverEarly' /\ NoLateSend'
    BY Zenon DEF NeverEarly, NoLateSend, Distinct
  <1> QED  BY <1>2, <1>3, <1>4, <1>5, <1>6, <1>7, Zenon

LEMMA InvDestroy == ASSUME Inv, Destroy PROVE Inv'
  <1> USE DEF Inv, AnsweredInTime, TypeOK, loop, stream, net
  <1> DEFINE owed == sent_reqs \cup {r \in Requests : place[r] = "job"}
  <1>1. /\ pc = "idle" /\ alive' = FALSE /\ timer' = NoTimer /\ sent_reqs' = {} /\ req_expiries' = <<>>
        /\ answers' = [r \in Requests |-> IF r \in owed THEN deliver(answers, r, "closed")[r] ELSE answers[r]]
        /\ place' = [r \in Requests |-> IF r \in owed THEN "gone" ELSE place[r]]
        /\ UNCHANGED <<now, expiry, is_closing, attached, pc, expired, withdrawing, unsent, started,
                       written, replies, replied>>
    BY Zenon DEF Destroy
  <1>2. ASSUME NEW r \in Requests
        PROVE  /\ r \in owed <=> place[r] \in {"sent_reqs", "job"}
               /\ place'[r] = (IF r \in owed THEN "gone" ELSE place[r])
               /\ answers'[r] \in Seq(Responses)
               /\ answers'[r] = (IF r \in owed THEN <<"closed">> ELSE answers[r])
    <2>1. r \in owed <=> place[r] \in {"sent_reqs", "job"}
      BY Zenon DEF AnsweredOnce
    <2>2. r \in owed => deliver(answers, r, "closed")[r] = <<"closed">>
      BY <2>1, Delivered, Zenon DEF Responses
    <2>3. <<"closed">> \in Seq(Responses) /\ answers[r] \in Seq(Responses)
      BY DEF Responses, RequestsOK
    <2> HIDE DEF owed
    <2>4. answers'[r] = (IF r \in owed THEN <<"closed">> ELSE answers[r])
      BY <1>1, <2>2, Zenon
    <2> QED  BY <1>1, <2>1, <2>3, <2>4, Zenon
  <1>3. RequestsOK'
    <2>1. place' \in [Requests -> {"none", "job", "sent_reqs", "expired", "gone"}]
      BY <1>1, Zenon DEF RequestsOK
    <2>2. answers' \in [Requests -> Seq(Responses)]
      BY <1>1, <1>2, Zenon
    <2> QED  BY <1>1, <2>1, <2>2, Zenon DEF RequestsOK
  <1> HIDE DEF owed
  <1>4. TablesOK'
    <2>1. <<>> \in Seq([at : 0..MaxTime, id : Requests])
      OBVIOUS
    <2> QED  BY <1>1, <2>1, Zenon DEF TablesOK
  <1>5. LoopOK' /\ StreamOK' /\ RepliesOK'
    BY <1>1, Zenon DEF LoopOK, StreamOK, RepliesOK
  <1>6. AnsweredOnce'
    <2>1. Len(<<"closed">>) = 1
      BY Zenon
    <2>2. \A r \in Requests : Len(answers'[r]) = IF place'[r] = "gone" THEN 1 ELSE 0
      BY <1>2, <2>1, Zenon DEF AnsweredOnce
    <2>3. \A r \in Requests :
             /\ r \in sent_reqs' <=> place'[r] = "sent_reqs"
             /\ r \in Range(expired') <=> place'[r] = "expired"
      BY <1>1, <1>2, Zenon DEF AnsweredOnce
    <2>4. Distinct(expired)'
      BY <1>1, Zenon DEF AnsweredOnce, Distinct
    <2> QED  BY <2>2, <2>3, <2>4, Zenon DEF AnsweredOnce
  <1>7. ExpiriesSorted'
    BY <1>1 DEF ExpiriesSorted
  <1>8. TimerInSync'
    BY <1>1, <1>7, Zenon DEF TimerInSync, update_timeout
  <1>9. NeverEarly'
    BY <1>1, <1>2, OtherResponse, Zenon DEF NeverEarly
  <1>10. NoLateSend'
    <2>1. \A i \in DOMAIN unsent : unsent[i] \in Requests
      BY DEF StreamOK
    <2>2. ASSUME NEW i \in DOMAIN unsent
          PROVE  /\ answers'[unsent[i]] = <<"timeout">> => unsent[i] \in send_after_timeout \/ (i = 1 /\ started)
                 /\ place'[unsent[i]] \notin {"none", "job"}
      BY <1>2, <2>1, OtherResponse, Zenon DEF NoLateSend
    <2> QED  BY <1>1, <2>2, Zenon DEF NoLateSend, Distinct
  <1> QED  BY <1>3, <1>4, <1>5, <1>6, <1>8, <1>9, <1>10, Zenon

LEMMA InvInit == Init => Inv
  <1> SUFFICES ASSUME Init PROVE Inv
    BY Zenon
  <1> USE DEF Init
  <1>1. RequestsOK
    <2>1. 0 \in 0..MaxTime /\ <<>> \in Seq(Responses)
      BY Bounds
    <2> QED  BY <2>1, Zenon DEF RequestsOK
  <1>2. TablesOK
    <2>1. <<>> \in Seq([at : 0..MaxTime, id : Requests])
      OBVIOUS
    <2> QED  BY <2>1, Zenon DEF TablesOK
  <1>3. LoopOK /\ StreamOK
    <2>1. <<>> \in Seq(Requests)
      OBVIOUS
    <2> QED  BY <2>1, Zenon DEF LoopOK, StreamOK
  <1>4. RepliesOK
    BY Bounds DEF RepliesOK
  <1>5. AnsweredOnce
    BY DEF AnsweredOnce, Distinct, Range
  <1>6. TimerInSync
    BY DEF TimerInSync, ExpiriesSorted, update_timeout
  <1>7. NeverEarly /\ NoLateSend
    BY OtherResponse DEF NeverEarly, NoLateSend, Distinct
  <1> QED  BY <1>1, <1>2, <1>3, <1>4, <1>5, <1>6, <1>7, Zenon DEF Inv, AnsweredInTime, TypeOK

\* The invariant is inductive: one step for each action.
LEMMA InvStep == Inv /\ [Next]_vars => Inv'
  <1> SUFFICES ASSUME Inv, [Next]_vars PROVE Inv'
    BY Zenon
  <1>t. /\ now \in 0..MaxTime /\ expiry \in [Requests -> 0..MaxTime]
        /\ is_closing \in BOOLEAN /\ attached \in BOOLEAN /\ started \in BOOLEAN /\ RepliesOK
        /\ now \in Nat /\ MaxTime \in Nat
    BY Bounds DEF Inv, AnsweredInTime, TypeOK, RequestsOK, LoopOK, StreamOK
  <1>1. ASSUME NEW r \in Requests, NEW t \in Timeouts, now + t <= MaxTime, CommandQueued(r, t) PROVE Inv'
    BY <1>1, InvCommandQueued, Zenon
  <1>2. ASSUME NEW r \in Requests, NEW t \in Timeouts, now + t <= MaxTime, CommandInline(r, t) PROVE Inv'
    <2>1. now + t \in 0..MaxTime
      BY <1>t, <1>2, RequestAssumption
    <2> QED  BY <1>2, <2>1, InvAdd, Zenon DEF CommandInline, Make
  <1>3. ASSUME NEW r \in Requests, RunJob(r) PROVE Inv'
    <2>1. expiry[r] \in 0..MaxTime /\ expiry' = [expiry EXCEPT ![r] = expiry[r]]
      BY <1>t, <1>3, Zenon DEF RunJob
    <2> QED  BY <1>3, <2>1, InvAdd, Zenon DEF RunJob
  <1>4. ASSUME NEW r \in Requests, PeerReplies(r) PROVE Inv'
    <2>1. /\ replies \in [Requests -> 0..MaxReplies] /\ replied \in [Requests -> 0..MaxReplies]
          /\ \A q \in Requests : replies[q] <= replied[q] /\ replies[q] \in 0..MaxReplies /\ replied[q] \in 0..MaxReplies
          /\ replied[r] < MaxReplies
          /\ replied' = [replied EXCEPT ![r] = replied[r] + 1] /\ replies' = [replies EXCEPT ![r] = replies[r] + 1]
      BY <1>t, <1>4, Zenon DEF PeerReplies, RepliesOK
    <2>2. /\ replied[r] + 1 \in 0..MaxReplies /\ replies[r] + 1 \in 0..MaxReplies
          /\ replies[r] + 1 <= replied[r] + 1
      BY <2>1, Bounds
    <2>3. RepliesOK'
      BY <2>1, <2>2, Zenon DEF RepliesOK
    <2>4. now' >= now
      BY <1>t, <1>4 DEF PeerReplies
    <2> QED  BY <1>t, <1>4, <2>3, <2>4, InvElsewhere, Zenon DEF PeerReplies, loop, stream
  <1>5. ASSUME NEW r \in Requests, Reply(r) PROVE Inv'
    BY <1>5, InvReply, Zenon
  <1>6. ASSUME Close \/ DropStreams \/ WritePart PROVE Inv'
    <2>1. RepliesOK' /\ now' >= now
      BY <1>t, <1>6 DEF Close, DropStreams, WritePart, net, RepliesOK
    <2> QED  BY <1>t, <1>6, <2>1, InvElsewhere, Zenon DEF Close, DropStreams, WritePart, net, loop, stream
  <1>7. ASSUME Tick PROVE Inv'
    <2>1. RepliesOK' /\ now' >= now /\ now' \in 0..MaxTime
      BY <1>t, <1>7 DEF Tick, net, RepliesOK
    <2> QED  BY <1>t, <1>7, <2>1, InvElsewhere, Zenon DEF Tick, net, loop, stream
  <1>8. ASSUME TimerFires PROVE Inv'
    <2>1. PICK n \in 0..Len(req_expiries) : Due(n) /\ check_timeouts(n, TRUE)
      BY <1>8, Zenon DEF TimerFires
    <2> QED  BY <1>t, <1>8, <2>1, InvTake, Zenon DEF TimerFires, Due
  <1>9. ASSUME StreamClosed PROVE Inv'
    <2>1. CASE is_closing
      <3>1. RepliesOK' /\ now' >= now
        BY <1>t, <1>9, <2>1 DEF StreamClosed, net, RepliesOK
      <3> QED  BY <1>t, <1>9, <2>1, <3>1, InvElsewhere, Zenon DEF StreamClosed, net, loop, stream
    <2>2. CASE ~is_closing
      <3>1. Len(req_expiries) \in 0..Len(req_expiries)
        BY DEF Inv, AnsweredInTime, TypeOK, TablesOK
      <3> QED  BY <1>t, <1>9, <2>2, <3>1, InvTake, Zenon DEF StreamClosed
    <2> QED  BY <2>1, <2>2, Zenon
  <1>10. ASSUME UNCHANGED vars PROVE Inv'
    <2>1. RepliesOK' /\ now' >= now
      BY <1>t, <1>10 DEF vars, net, RepliesOK
    <2> QED  BY <1>t, <1>10, <2>1, InvElsewhere, Zenon DEF vars, net, loop, stream
  <1> QED  BY <1>1, <1>2, <1>3, <1>4, <1>5, <1>6, <1>7, <1>8, <1>9, <1>10,
              InvExpireNext, InvExpireDone, InvDestroy, InvWriteRest, Zenon DEF Next

-----------------------------------------------------------------------------
(* The theorems.                                                           *)

\* Every request that command() made gets exactly one response: a reply, a failure
\* when its timer is due and never before, or a failure when the stream ends; and
\* whenever the loop is idle the timer is set for the request that is due first.
THEOREM EveryRequestAnsweredInTime == Spec => []AnsweredInTime
  <1>1. Inv => AnsweredInTime
    BY Zenon DEF Inv
  <1> QED  BY <1>1, InvInit, InvStep, PTL DEF Spec

\* Nothing of a request that the timer failed is sent afterwards (Stream::withdraw),
\* unless some of it had been sent or the application asked for that.
THEOREM NothingSentLate == Spec => []NoLateSend
  <1>1. Inv => NoLateSend
    BY Zenon DEF Inv
  <1> QED  BY <1>1, InvInit, InvStep, PTL DEF Spec
=============================================================================

-------------------------- MODULE Connections_proofs --------------------------
(***************************************************************************)
(* Proofs about how an endpoint finds and resumes connections.             *)
(*                                                                         *)
(* ConnLookup: the tables of connection IDs, connections, reset tokens and *)
(* the cached lookup agree for any number of connections, IDs and tokens,  *)
(* if no ID the endpoint draws is one that a client chose: LookupInv is    *)
(* inductive.  For a reset token that two connections were given, only     *)
(* the direction that no entry outlives its connection is left.            *)
(*                                                                         *)
(* EarlyTickets: for any remotes, ticket lifetimes, anti-replay window and *)
(* resolution of the clock, early data is not accepted again before its    *)
(* entry's time has passed, and a ticket is used at most once.             *)
(* TicketsInv, the inductive invariant, says where each ticket is, when    *)
(* early data was accepted and how long the server remembers it.           *)
(***************************************************************************)
EXTENDS ConnLookup, EarlyTickets, TLAPS

\* An endpoint without connections.
LEMMA LookupInit == Init => LookupInv
<1> SUFFICES ASSUME Init PROVE LookupInv
    BY Zenon
<1> USE LookupAssumption DEF Init, Rids
<1>1. TypeOK
  <2>1. next_rid \in 1 .. MaxConns + 1
    OBVIOUS
  <2> listening \in BOOLEAN
    BY Zenon
  <2>2. /\ conns \in [Rids -> {"none", "empty", "conn"}]
        /\ conn_lookup \in [Cids -> Rids \cup {None}]
        /\ _last_lookup \in (Cids \X Rids) \cup {None}
        /\ reset_token_conns \in [Tokens -> Rids \cup {None}]
    BY Zenon
  <2>3. /\ _associated_cids \in [Rids -> SUBSET Cids]
        /\ _associated_resets \in [Rids -> SUBSET Tokens]
        /\ initial_dcid \in [Rids -> Cids \cup {None}]
    BY Zenon
  <2> QED BY <2>1, <2>2, <2>3, Zenon DEF TypeOK
<1>2. LookupExact /\ CacheExact /\ TokensExact /\ OnlyLiveOwn
    BY Zenon DEF LookupExact, CacheExact, TokensExact, OnlyLiveOwn, Live
<1> QED BY <1>1, <1>2, Zenon DEF LookupInv

\* The reference ID to be given out next is in none of the tables.
LEMMA NextIsNew ==
    ASSUME LookupInv, next_rid <= MaxConns
    PROVE  /\ next_rid \in Rids /\ conns[next_rid] = "none" /\ next_rid # None
           /\ \A k \in Cids : conn_lookup[k] # next_rid
           /\ \A t \in Tokens : reset_token_conns[t] # next_rid
           /\ _associated_cids[next_rid] = {} /\ _associated_resets[next_rid] = {}
           /\ next_rid' = next_rid + 1 => next_rid' \in 1 .. MaxConns + 1
<1> USE LookupAssumption DEF LookupInv
<1>1. next_rid \in Rids /\ conns[next_rid] = "none" /\ next_rid # None
    BY DEF TypeOK, OnlyLiveOwn, Rids
<1>2. \A k \in Cids : conn_lookup[k] # next_rid
    BY <1>1, Zenon DEF LookupExact
<1>3. \A t \in Tokens : reset_token_conns[t] # next_rid
    BY <1>1, Zenon DEF TokensExact, Live
<1>4. _associated_cids[next_rid] = {} /\ _associated_resets[next_rid] = {}
    BY <1>1, Zenon DEF OnlyLiveOwn, Live
<1>5. next_rid' = next_rid + 1 => next_rid' \in 1 .. MaxConns + 1
    BY DEF TypeOK
<1> QED BY <1>1, <1>2, <1>3, <1>4, <1>5, Zenon

\* A connection is entered under a fresh ID s, and maybe under a second one d
\* that is not in use: what _connect and accept_initial_connection have in common.
LEMMA NewConnection ==
    ASSUME LookupInv, next_rid <= MaxConns, next_rid' = next_rid + 1,
           NEW D \in SUBSET Cids, \A k \in D : conn_lookup[k] = None,
           conns' = [conns EXCEPT ![next_rid] = "conn"],
           conn_lookup' \in [Cids -> Rids \cup {None}],
           \A k \in Cids : conn_lookup'[k] = IF k \in D THEN next_rid ELSE conn_lookup[k],
           _associated_cids' = [_associated_cids EXCEPT ![next_rid] = D],
           initial_dcid' \in [Rids -> Cids \cup {None}],
           \A r \in Rids : r # next_rid => initial_dcid'[r] = initial_dcid[r],
           UNCHANGED <<_last_lookup, reset_token_conns, _associated_resets, reused>>,
           listening' \in BOOLEAN, answer' = None \/ answer'[2] \in Cids
    PROVE  LookupInv'
<1> USE LookupAssumption DEF LookupInv
<1>1. /\ next_rid \in Rids /\ conns[next_rid] = "none" /\ next_rid # None
      /\ \A k \in Cids : conn_lookup[k] # next_rid
      /\ \A t \in Tokens : reset_token_conns[t] # next_rid
      /\ _associated_resets[next_rid] = {} /\ next_rid' \in 1 .. MaxConns + 1
    BY NextIsNew, Zenon
<1>2. /\ conns'[next_rid] = "conn" /\ _associated_cids'[next_rid] = D
      /\ \A r \in Rids : r # next_rid =>
           conns'[r] = conns[r] /\ _associated_cids'[r] = _associated_cids[r]
    BY <1>1, Zenon DEF TypeOK
<1>3. TypeOK'
    BY <1>1, Zenon DEF TypeOK
<1>4. LookupExact'
    BY <1>1, <1>2 DEF LookupExact, Live
<1>5. CacheExact'
    BY <1>1, <1>2 DEF CacheExact, Live, TypeOK
<1>6. TokensExact'
    BY <1>1, <1>2 DEF TokensExact, Live
<1>7. OnlyLiveOwn'
    BY <1>1, <1>2 DEF OnlyLiveOwn, Live, TypeOK, Rids
<1> QED BY <1>3, <1>4, <1>5, <1>6, <1>7, Zenon

LEMMA ConnectInv ==
    ASSUME LookupInv, _connect, ~Collide
    PROVE  LookupInv'
<1> USE LookupAssumption
<1>1. next_rid <= MaxConns /\ next_rid' = next_rid + 1
    BY Zenon DEF _connect
<1>2. UNCHANGED <<listening, reset_token_conns, _associated_resets, reused, initial_dcid, answer>>
    BY Zenon DEF _connect
<1>3. ASSUME NEW k \in FreshCids, conns' = [conns EXCEPT ![next_rid] = "conn"],
             conn_lookup' = [conn_lookup EXCEPT ![k] = next_rid],
             _associated_cids' = [_associated_cids EXCEPT ![next_rid] = {k}],
             UNCHANGED _last_lookup
      PROVE  LookupInv'
  <2>1. k \in Cids /\ conn_lookup[k] = None /\ next_rid \in Rids
    BY <1>1, NextIsNew, Zenon DEF FreshCids, Cids
  <2>2. /\ conn_lookup' \in [Cids -> Rids \cup {None}]
        /\ \A c \in Cids : conn_lookup'[c] = IF c \in {k} THEN next_rid ELSE conn_lookup[c]
    BY <1>3, <2>1, Zenon DEF LookupInv, TypeOK
  <2>3. /\ listening' \in BOOLEAN /\ (answer' = None \/ answer'[2] \in Cids)
        /\ initial_dcid' \in [Rids -> Cids \cup {None}]
    BY <1>2, Zenon DEF LookupInv, TypeOK
  <2>4. {k} \in SUBSET Cids /\ \A c \in {k} : conn_lookup[c] = None
    BY <2>1, Zenon
  <2>5. UNCHANGED <<_last_lookup, reset_token_conns, _associated_resets, reused>>
        /\ \A r \in Rids : r # next_rid => initial_dcid'[r] = initial_dcid[r]
    BY <1>2, <1>3, Zenon
  <2> HIDE DEF FreshCids
  <2> QED BY <1>1, <1>3, <2>2, <2>3, <2>4, <2>5, NewConnection, Zenon
<1>4. ASSUME _last_lookup' = None, UNCHANGED <<conns, conn_lookup, _associated_cids>>
      PROVE  LookupInv'
  <2>1. next_rid' \in 1 .. MaxConns + 1
    BY <1>1, NextIsNew, Zenon
  <2>2. TypeOK'
    BY <1>2, <1>4, <2>1, Zenon DEF LookupInv, TypeOK
  <2>3. LookupExact' /\ CacheExact' /\ TokensExact'
    BY <1>2, <1>4, Zenon DEF LookupInv, LookupExact, CacheExact, TokensExact, Live
  <2>4. OnlyLiveOwn'
    BY <1>1, <1>2, <1>4 DEF LookupInv, OnlyLiveOwn, Live, TypeOK, Rids
  <2> QED BY <2>2, <2>3, <2>4, Zenon DEF LookupInv
<1> QED BY <1>3, <1>4, Zenon DEF _connect

-----------------------------------------------------------------------------
\* A packet is routed, accepted, refused, or answered with a reset.

\* fetch_associated_conn finds the connection that lists the ID, if one does.
LEMMA FoundSpec ==
    ASSUME LookupInv, NEW k \in Cids
    PROVE  /\ Found(k) # None =>
                Found(k) \in Rids /\ Live(Found(k)) /\ conn_lookup[k] = Found(k)
           /\ Found(k) = None => \A r \in Rids : Live(r) => k \notin _associated_cids[r]
<1> USE LookupAssumption DEF LookupInv
<1>1. CASE _last_lookup # None /\ _last_lookup[1] = k
  <2>1. Found(k) = _last_lookup[2] /\ _last_lookup[2] \in Rids
    BY <1>1, Zenon DEF Found, TypeOK
  <2> QED BY <1>1, <2>1, Zenon DEF CacheExact
<1>2. CASE ~(_last_lookup # None /\ _last_lookup[1] = k)
  <2>1. Found(k) = IF conn_lookup[k] # None /\ Live(conn_lookup[k])
                   THEN conn_lookup[k] ELSE None
    BY <1>2, Zenon DEF Found
  <2> QED BY <2>1 DEF LookupExact, TypeOK
<1> QED BY <1>1, <1>2, Zenon

LEMMA RoutedInv ==
    ASSUME LookupInv, NEW k \in Cids, Found(k) # None, _last_lookup' = <<k, Found(k)>>,
           answer' = <<"routed", k>>,
           UNCHANGED <<next_rid, conns, conn_lookup, reset_token_conns, owned, listening>>
    PROVE  LookupInv'
<1> USE DEF LookupInv, owned
<1>1. Found(k) \in Rids /\ Live(Found(k)) /\ conn_lookup[k] = Found(k)
    BY FoundSpec, Zenon
<1>2. _last_lookup' \in Cids \X Rids /\ _last_lookup'[1] = k /\ _last_lookup'[2] = Found(k)
    BY <1>1, Zenon
<1>3. TypeOK'
    BY <1>2, Zenon DEF TypeOK
<1>4. CacheExact'
    BY <1>1, <1>2, Zenon DEF CacheExact, Live
<1>5. LookupExact' /\ TokensExact' /\ OnlyLiveOwn'
    BY DEF LookupExact, TokensExact, OnlyLiveOwn, Live
<1> QED BY <1>3, <1>4, <1>5, Zenon

LEMMA AcceptInv ==
    ASSUME LookupInv, NEW d \in Cids, NEW s \in FreshCids, Accept(s, d), ~Collide,
           next_rid <= MaxConns, next_rid' = next_rid + 1, answer' = <<"accepted", d>>,
           UNCHANGED <<_last_lookup, reset_token_conns, _associated_resets, reused, listening>>
    PROVE  LookupInv'
<1> USE LookupAssumption
<1> DEFINE lookup == [conn_lookup EXCEPT ![s] = next_rid]
           D == IF lookup[d] = None THEN {s, d} ELSE {s}
<1>1. s \in Cids /\ conn_lookup[s] = None /\ next_rid \in Rids /\ next_rid # None
    BY NextIsNew, Zenon DEF FreshCids, Cids
<1>2. \A k \in Cids : lookup[k] = IF k = s THEN next_rid ELSE conn_lookup[k]
    BY Zenon DEF LookupInv, TypeOK
<1>3. D \in SUBSET Cids /\ \A k \in D : conn_lookup[k] = None
    BY <1>1, <1>2, Zenon
<1>4. /\ conns' = [conns EXCEPT ![next_rid] = "conn"]
      /\ conn_lookup' = IF lookup[d] = None THEN [lookup EXCEPT ![d] = next_rid] ELSE lookup
      /\ _associated_cids' = [_associated_cids EXCEPT ![next_rid] = D]
      /\ initial_dcid' = [initial_dcid EXCEPT ![next_rid] = d]
    BY Zenon DEF Accept
<1>5. /\ conn_lookup' \in [Cids -> Rids \cup {None}]
      /\ \A k \in Cids : conn_lookup'[k] = IF k \in D THEN next_rid ELSE conn_lookup[k]
  <2>1. lookup \in [Cids -> Rids \cup {None}]
    BY <1>1, Zenon DEF LookupInv, TypeOK
  <2>2. CASE lookup[d] = None
    BY <1>1, <1>2, <1>4, <2>1, <2>2, Zenon
  <2>3. CASE lookup[d] # None
    BY <1>1, <1>2, <1>4, <2>1, <2>3, Zenon
  <2> QED BY <2>2, <2>3, Zenon
<1>6. /\ initial_dcid' \in [Rids -> Cids \cup {None}]
      /\ \A r \in Rids : r # next_rid => initial_dcid'[r] = initial_dcid[r]
    BY <1>1, <1>4, Zenon DEF LookupInv, TypeOK
<1>7. listening' \in BOOLEAN /\ answer'[2] \in Cids
    BY Zenon DEF LookupInv, TypeOK
<1> HIDE DEF D, lookup
<1> QED BY <1>3, <1>4, <1>5, <1>6, <1>7, NewConnection, Zenon

\* accept_initial_connection throws: an empty entry and an ID that leads to it
\* stay behind.
LEMMA ThrewInv ==
    ASSUME LookupInv, NEW d \in Cids, NEW s \in FreshCids, ~Collide,
           next_rid <= MaxConns, next_rid' = next_rid + 1, answer' = <<"threw", d>>,
           conns' = [conns EXCEPT ![next_rid] = "empty"],
           conn_lookup' = [conn_lookup EXCEPT ![s] = next_rid],
           UNCHANGED <<_last_lookup, reset_token_conns, owned, listening>>
    PROVE  LookupInv'
<1> USE LookupAssumption DEF LookupInv, owned
<1>1. /\ s \in Cids /\ conn_lookup[s] = None
      /\ next_rid \in Rids /\ conns[next_rid] = "none" /\ next_rid # None
      /\ \A k \in Cids : conn_lookup[k] # next_rid
      /\ \A t \in Tokens : reset_token_conns[t] # next_rid
      /\ _associated_cids[next_rid] = {} /\ _associated_resets[next_rid] = {}
      /\ next_rid' \in 1 .. MaxConns + 1
    BY NextIsNew, Zenon DEF FreshCids, Cids
<1>2. /\ conns'[next_rid] = "empty" /\ conn_lookup'[s] = next_rid
      /\ \A r \in Rids : r # next_rid => conns'[r] = conns[r]
      /\ \A k \in Cids : k # s => conn_lookup'[k] = conn_lookup[k]
    BY <1>1, Zenon DEF TypeOK
<1>3. TypeOK'
    BY <1>1, Zenon DEF TypeOK
<1>4. LookupExact'
    BY <1>1, <1>2 DEF LookupExact, Live
<1>5. CacheExact'
    BY <1>1, <1>2 DEF CacheExact, Live, TypeOK
<1>6. TokensExact'
    BY <1>1, <1>2 DEF TokensExact, Live
<1>7. OnlyLiveOwn'
    BY <1>1, <1>2 DEF OnlyLiveOwn, Live, TypeOK, Rids
<1> QED BY <1>3, <1>4, <1>5, <1>6, <1>7, Zenon

\* A token that leads to no connection is not in the table anyway.
LEMMA UnroutedInv ==
    ASSUME LookupInv, NEW t \in Tokens \cup {None}, answer'[2] \in Cids,
           reset_token_conns' = IF t # None /\ ~ResetToken(t)
                                THEN [reset_token_conns EXCEPT ![t] = None]
                                ELSE reset_token_conns,
           UNCHANGED <<next_rid, conns, conn_lookup, _last_lookup, owned, listening>>
    PROVE  LookupInv'
<1> USE LookupAssumption DEF LookupInv, owned
<1>1. UNCHANGED reset_token_conns
  <2>1. CASE t # None /\ ~ResetToken(t)
    <3>1. t \in Tokens /\ reset_token_conns[t] = None
      BY <2>1, Zenon DEF ResetToken, TokensExact, TypeOK
    <3> QED BY <2>1, <3>1, Zenon DEF TypeOK
  <2>2. CASE ~(t # None /\ ~ResetToken(t))
    BY <2>2, Zenon
  <2> QED BY <2>1, <2>2, Zenon
<1>2. TypeOK'
    BY <1>1, Zenon DEF TypeOK
<1>3. LookupExact' /\ CacheExact' /\ TokensExact' /\ OnlyLiveOwn'
    BY <1>1 DEF LookupExact, CacheExact, TokensExact, OnlyLiveOwn, Live
<1> QED BY <1>2, <1>3, Zenon

LEMMA PacketInv ==
    ASSUME LookupInv, HandlePacket, ~Collide
    PROVE  LookupInv'
<1>1. PICK k \in Cids : handle_packet(k) /\ UNCHANGED listening
    BY Zenon DEF HandlePacket
<1>2. CASE /\ Found(k) # None /\ _last_lookup' = <<k, Found(k)>> /\ answer' = <<"routed", k>>
           /\ UNCHANGED <<next_rid, conns, conn_lookup, reset_token_conns, owned>>
    BY <1>1, <1>2, RoutedInv, Zenon
<1>3. CASE \E s \in FreshCids :
             /\ next_rid <= MaxConns /\ next_rid' = next_rid + 1
             /\ Accept(s, k) /\ answer' = <<"accepted", k>>
             /\ UNCHANGED <<_last_lookup, reset_token_conns, _associated_resets, reused>>
    BY <1>1, <1>3, AcceptInv, Zenon
<1>4. CASE \E s \in FreshCids :
             /\ next_rid <= MaxConns /\ next_rid' = next_rid + 1
             /\ conns' = [conns EXCEPT ![next_rid] = "empty"]
             /\ conn_lookup' = [conn_lookup EXCEPT ![s] = next_rid]
             /\ answer' = <<"threw", k>> /\ UNCHANGED <<_associated_cids, initial_dcid>>
             /\ UNCHANGED <<_last_lookup, reset_token_conns, _associated_resets, reused>>
    BY <1>1, <1>4, ThrewInv, Zenon DEF owned
<1>5. CASE /\ answer' = <<"refused", k>>
           /\ UNCHANGED <<next_rid, conns, conn_lookup, _last_lookup, reset_token_conns, owned>>
  <2>1. answer'[2] \in Cids
    BY <1>5, Zenon
  <2> QED BY <1>1, <1>5, <2>1, UnroutedInv, Zenon
<1>6. CASE /\ \E t \in Tokens \cup {None} :
                /\ answer' = <<IF ResetToken(t) THEN "reset read" ELSE "reset sent", k>>
                /\ reset_token_conns' = IF t # None /\ ~ResetToken(t)
                                        THEN [reset_token_conns EXCEPT ![t] = None]
                                        ELSE reset_token_conns
           /\ UNCHANGED <<next_rid, conns, conn_lookup, _last_lookup, owned>>
  <2>1. PICK t \in Tokens \cup {None} :
          /\ answer' = <<IF ResetToken(t) THEN "reset read" ELSE "reset sent", k>>
          /\ reset_token_conns' = IF t # None /\ ~ResetToken(t)
                                  THEN [reset_token_conns EXCEPT ![t] = None]
                                  ELSE reset_token_conns
    BY <1>6, Zenon
  <2>2. answer'[2] \in Cids
    BY <2>1, Zenon
  <2> QED BY <1>1, <1>6, <2>1, <2>2, UnroutedInv, Zenon
<1> QED BY <1>1, <1>2, <1>3, <1>4, <1>5, <1>6, Zenon DEF handle_packet

-----------------------------------------------------------------------------
\* What ngtcp2 asks for a connection.

LEMMA NewCidInv ==
    ASSUME LookupInv, NEW r \in Rids, get_new_connection_id(r), ~Collide
    PROVE  LookupInv'
<1> USE LookupAssumption DEF LookupInv
<1>1. PICK k \in FreshCids :
        /\ conn_lookup' = IF conn_lookup[k] = None THEN [conn_lookup EXCEPT ![k] = r] ELSE conn_lookup
        /\ _associated_cids' = [_associated_cids EXCEPT ![r] = @ \cup {k}]
    BY Zenon DEF get_new_connection_id
<1>2. k \in Cids /\ conn_lookup[k] = None /\ Live(r)
    BY Zenon DEF FreshCids, Cids, get_new_connection_id
<1>3. UNCHANGED <<next_rid, listening, conns, _last_lookup, reset_token_conns,
                  _associated_resets, reused, initial_dcid, answer>>
    BY Zenon DEF get_new_connection_id
<1>4. /\ conn_lookup'[k] = r /\ _associated_cids'[r] = _associated_cids[r] \cup {k}
      /\ \A c \in Cids : c # k => conn_lookup'[c] = conn_lookup[c]
      /\ \A q \in Rids : q # r => _associated_cids'[q] = _associated_cids[q]
    BY <1>1, <1>2, Zenon DEF TypeOK
<1>5. TypeOK'
    BY <1>1, <1>2, <1>3, Zenon DEF TypeOK
<1>6. LookupExact'
    BY <1>2, <1>3, <1>4 DEF LookupExact, Live
<1>7. CacheExact'
    BY <1>2, <1>3, <1>4, Zenon DEF CacheExact, Live, TypeOK
<1>8. TokensExact' /\ OnlyLiveOwn'
    BY <1>2, <1>3, <1>4 DEF TokensExact, OnlyLiveOwn, Live
<1> QED BY <1>5, <1>6, <1>7, <1>8, Zenon

\* An ID of a live connection is taken out of both tables and the cache.
LEMMA DissociateInv ==
    ASSUME LookupInv, NEW r \in Rids, Live(r), NEW k \in _associated_cids[r],
           dissociate_cid(r, k), initial_dcid' \in [Rids -> Cids \cup {None}],
           \A q \in Rids : q # r => initial_dcid'[q] = initial_dcid[q],
           UNCHANGED <<next_rid, listening, conns, reset_token_conns, _associated_resets, reused,
                       answer>>
    PROVE  LookupInv'
<1> USE LookupAssumption DEF LookupInv
<1>1. k \in Cids /\ conn_lookup[k] = r
    BY Zenon DEF TypeOK, LookupExact
<1>2. /\ conn_lookup' = [conn_lookup EXCEPT ![k] = None] /\ _last_lookup' = None
      /\ _associated_cids' = [_associated_cids EXCEPT ![r] = @ \ {k}]
    BY Zenon DEF dissociate_cid
<1>3. /\ conn_lookup'[k] = None /\ _associated_cids'[r] = _associated_cids[r] \ {k}
      /\ \A c \in Cids : c # k => conn_lookup'[c] = conn_lookup[c]
      /\ \A q \in Rids : q # r => _associated_cids'[q] = _associated_cids[q]
    BY <1>1, <1>2, Zenon DEF TypeOK
<1>4. TypeOK'
    BY <1>1, <1>2, Zenon DEF TypeOK
<1>5. LookupExact'
  <2> SUFFICES ASSUME NEW c \in Cids, NEW q \in Rids
               PROVE  /\ Live(q)' => (conn_lookup'[c] = q <=> c \in _associated_cids'[q])
                      /\ conn_lookup'[c] = q => conns'[q] # "none"
    BY Zenon DEF LookupExact
  <2>1. /\ Live(q) => (conn_lookup[c] = q <=> c \in _associated_cids[q])
        /\ conn_lookup[c] = q => conns[q] # "none"
    BY Zenon DEF LookupExact
  <2>2. q # None /\ conns' = conns /\ (Live(q)' <=> Live(q))
    BY Zenon DEF Live, Rids
  <2>3. CASE c = k
    BY <1>1, <1>3, <2>1, <2>2, <2>3, Zenon
  <2>4. CASE c # k
    BY <1>3, <2>1, <2>2, <2>4, Zenon
  <2> QED BY <2>3, <2>4, Zenon
<1>6. CacheExact' /\ TokensExact'
  <2>1. CacheExact'
    BY <1>2, Zenon DEF CacheExact
  <2>2. TokensExact'
    BY DEF TokensExact, Live
  <2> QED BY <2>1, <2>2, Zenon
<1>7. OnlyLiveOwn'
    BY <1>3, ZenonT(30) DEF OnlyLiveOwn, Live
<1> QED BY <1>4, <1>5, <1>6, <1>7, Zenon

LEMMA RetireInv ==
    ASSUME LookupInv, NEW r \in Rids, remove_connection_id(r)
    PROVE  LookupInv'
<1>1. PICK k \in _associated_cids[r] : dissociate_cid(r, k)
    BY Zenon DEF remove_connection_id
<1>2. /\ Live(r) /\ UNCHANGED <<next_rid, listening, conns, reset_token_conns,
                                _associated_resets, reused, initial_dcid, answer>>
    BY Zenon DEF remove_connection_id
<1>3. initial_dcid' \in [Rids -> Cids \cup {None}]
    BY <1>2, Zenon DEF LookupInv, TypeOK
<1> QED BY <1>1, <1>2, <1>3, DissociateInv, Zenon

LEMMA CompletedInv ==
    ASSUME LookupInv, NEW r \in Rids, server_handshake_completed(r)
    PROVE  LookupInv'
<1>1. /\ Live(r) /\ UNCHANGED <<next_rid, listening, conns, reset_token_conns,
                                _associated_resets, reused, answer>>
      /\ initial_dcid' = [initial_dcid EXCEPT ![r] = None]
    BY Zenon DEF server_handshake_completed
<1>2. /\ initial_dcid' \in [Rids -> Cids \cup {None}]
      /\ \A q \in Rids : q # r => initial_dcid'[q] = initial_dcid[q]
    BY <1>1, Zenon DEF LookupInv, TypeOK
<1>3. CASE initial_dcid[r] \in _associated_cids[r]
  <2>1. dissociate_cid(r, initial_dcid[r])
    BY <1>3, Zenon DEF server_handshake_completed
  <2> QED BY <1>1, <1>2, <1>3, <2>1, DissociateInv, Zenon
<1>4. CASE initial_dcid[r] \notin _associated_cids[r]
  <2>1. UNCHANGED <<conn_lookup, _associated_cids, _last_lookup>>
    BY <1>4, Zenon DEF server_handshake_completed
  <2>2. TypeOK'
    BY <1>1, <1>2, <2>1, Zenon DEF LookupInv, TypeOK
  <2>3. LookupExact' /\ CacheExact' /\ TokensExact'
    BY <1>1, <2>1, Zenon DEF LookupInv, LookupExact, CacheExact, TokensExact, Live
  <2>4. OnlyLiveOwn'
    BY <1>1, <1>2, <2>1, Zenon DEF LookupInv, OnlyLiveOwn, Live
  <2> QED BY <2>2, <2>3, <2>4, Zenon DEF LookupInv
<1> QED BY <1>3, <1>4, Zenon

LEMMA ResetTokenInv ==
    ASSUME LookupInv, NEW r \in Rids, NEW t \in Tokens,
           associate_reset(r, t) \/ dissociate_reset(r, t)
    PROVE  LookupInv'
<1> USE LookupAssumption DEF LookupInv
<1>1. /\ Live(r) /\ UNCHANGED <<next_rid, listening, conns, conn_lookup, _last_lookup,
                                _associated_cids, initial_dcid, answer>>
    BY Zenon DEF associate_reset, dissociate_reset
<1>2. LookupExact' /\ CacheExact'
    BY <1>1, Zenon DEF LookupExact, CacheExact, Live
<1>3. CASE associate_reset(r, t)
  <2>1. /\ reset_token_conns' = [reset_token_conns EXCEPT ![t] = r]
        /\ _associated_resets' = [_associated_resets EXCEPT ![r] = @ \cup {t}]
        /\ reused' = IF \E q \in Rids \ {r} : t \in _associated_resets[q] THEN reused \cup {t} ELSE reused
    BY <1>3, Zenon DEF associate_reset
  <2>2. /\ reset_token_conns'[t] = r /\ _associated_resets'[r] = _associated_resets[r] \cup {t}
        /\ \A u \in Tokens : u # t => reset_token_conns'[u] = reset_token_conns[u]
        /\ \A q \in Rids : q # r => _associated_resets'[q] = _associated_resets[q]
    BY <2>1, Zenon DEF TypeOK
  <2>3. TypeOK'
    BY <1>1, <2>1, Zenon DEF TypeOK
  <2>4. TokensExact'
    BY <1>1, <2>1, <2>2 DEF TokensExact, Live
  <2>5. OnlyLiveOwn'
    BY <1>1, <2>2, Zenon DEF OnlyLiveOwn, Live
  <2> QED BY <1>2, <2>3, <2>4, <2>5, Zenon
<1>4. CASE dissociate_reset(r, t)
  <2>1. /\ t \in _associated_resets[r]
        /\ reset_token_conns' = [reset_token_conns EXCEPT ![t] = None]
        /\ _associated_resets' = [_associated_resets EXCEPT ![r] = @ \ {t}]
        /\ UNCHANGED reused
    BY <1>4, Zenon DEF dissociate_reset
  <2>2. /\ reset_token_conns'[t] = None /\ _associated_resets'[r] = _associated_resets[r] \ {t}
        /\ \A u \in Tokens : u # t => reset_token_conns'[u] = reset_token_conns[u]
        /\ \A q \in Rids : q # r => _associated_resets'[q] = _associated_resets[q]
    BY <2>1, Zenon DEF TypeOK
  <2>3. TypeOK'
    BY <1>1, <2>1, Zenon DEF TypeOK
  <2>4. TokensExact'
    BY <1>1, <2>1, <2>2 DEF TokensExact, Live
  <2>5. OnlyLiveOwn'
    BY <1>1, <2>2, Zenon DEF OnlyLiveOwn, Live
  <2> QED BY <1>2, <2>3, <2>4, <2>5, Zenon
<1> QED BY <1>3, <1>4, Zenon

\* delete_connection takes out exactly what leads to the connection.
LEMMA DeleteInv ==
    ASSUME LookupInv, NEW r \in Rids, delete_connection(r)
    PROVE  LookupInv'
<1> USE LookupAssumption DEF LookupInv
<1>1. /\ Live(r) /\ conns' = [conns EXCEPT ![r] = "none"] /\ _last_lookup' = None
      /\ conn_lookup' = [k \in Cids |-> IF k \in _associated_cids[r] THEN None ELSE conn_lookup[k]]
      /\ _associated_cids' = [_associated_cids EXCEPT ![r] = {}]
      /\ reset_token_conns' =
           [t \in Tokens |-> IF t \in _associated_resets[r] THEN None ELSE reset_token_conns[t]]
      /\ initial_dcid' = [initial_dcid EXCEPT ![r] = None]
      /\ _associated_resets' = [_associated_resets EXCEPT ![r] = {}]
      /\ UNCHANGED <<next_rid, listening, reused, answer>>
    BY Zenon DEF delete_connection
<1>2. /\ conns'[r] = "none" /\ _associated_cids'[r] = {} /\ _associated_resets'[r] = {}
      /\ initial_dcid'[r] = None
      /\ \A q \in Rids : q # r =>
           /\ conns'[q] = conns[q] /\ _associated_cids'[q] = _associated_cids[q]
           /\ _associated_resets'[q] = _associated_resets[q]
           /\ initial_dcid'[q] = initial_dcid[q]
    BY <1>1, Zenon DEF TypeOK
<1>3. TypeOK'
    BY <1>1, Zenon DEF TypeOK
<1>4. LookupExact'
    BY <1>1, <1>2 DEF LookupExact, Live
<1>5. CacheExact'
    BY <1>1, Zenon DEF CacheExact
<1>6. TokensExact'
    BY <1>1, <1>2 DEF TokensExact, Live
<1>7. OnlyLiveOwn'
    BY <1>1, <1>2 DEF OnlyLiveOwn, Live, TypeOK, Rids
<1> QED BY <1>3, <1>4, <1>5, <1>6, <1>7, Zenon

-----------------------------------------------------------------------------
\* Every step keeps the invariant.
LEMMA LookupNext == ASSUME ~Collide PROVE LookupInv /\ [Next]_vars => LookupInv'
<1> SUFFICES ASSUME LookupInv, [Next]_vars PROVE LookupInv'
    BY Zenon
<1>1. CASE listen \/ UNCHANGED vars
  <2>1. /\ UNCHANGED <<next_rid, conns, conn_lookup, _last_lookup, reset_token_conns, owned, answer>>
        /\ listening' \in BOOLEAN
    BY <1>1, Zenon DEF listen, vars, LookupInv, TypeOK
  <2>2. TypeOK'
    BY <2>1, Zenon DEF LookupInv, TypeOK, owned
  <2>3. LookupExact' /\ CacheExact' /\ TokensExact' /\ OnlyLiveOwn'
    BY <2>1 DEF LookupInv, LookupExact, CacheExact, TokensExact, OnlyLiveOwn, Live, owned
  <2> QED BY <2>2, <2>3, Zenon DEF LookupInv
<1> QED BY <1>1, ConnectInv, PacketInv, NewCidInv, RetireInv, CompletedInv, ResetTokenInv,
           DeleteInv, Zenon DEF Next

\* If no ID the endpoint draws is one that a client chose, its tables agree in
\* every reachable state: each ID and cached lookup leads to the connection that
\* owns it, whatever is accepted, retired, deleted or half constructed.  No reset
\* token leads to a connection that is gone or does not list it; a connection's
\* tokens all lead to it, unless another connection was given the same one.
THEOREM LookupCorrect == ASSUME ~Collide PROVE Spec => []LookupInv
<1>1. LookupInv /\ [Next]_vars => LookupInv'
    BY LookupNext, Zenon
<1> QED BY <1>1, LookupInit, PTL DEF Spec

LEMMA PairParts == \A p, a, b : p = <<a, b>> => p[1] = a /\ p[2] = b
    OBVIOUS

\* The endpoint never answers a packet for one of its own connections with a
\* stateless reset, which would end it.
THEOREM OwnNeverReset == ASSUME ~Collide PROVE Spec => NeverResetOwn
<1>1. LookupInv /\ [Next]_vars => [HandlePacket => ResetsOnlyUnknown]_vars
  <2> SUFFICES ASSUME LookupInv, HandlePacket, answer'[1] = "reset sent",
                      NEW r \in Rids, Live(r)
               PROVE  answer'[2] \notin _associated_cids[r]
    BY Zenon DEF ResetsOnlyUnknown
  <2>1. PICK k \in Cids : handle_packet(k)
    BY Zenon DEF HandlePacket
  <2>2. /\ answer' # <<"routed", k>> /\ answer' # <<"accepted", k>>
        /\ answer' # <<"threw", k>> /\ answer' # <<"refused", k>>
    <3>1. /\ "routed" # "reset sent" /\ "accepted" # "reset sent"
          /\ "threw" # "reset sent" /\ "refused" # "reset sent"
      BY Zenon
    <3>2. ASSUME NEW w, answer' = <<w, k>> PROVE w = "reset sent"
      BY <3>2, PairParts, Zenon
    <3> QED BY <3>1, <3>2, Zenon
  <2>3. /\ Found(k) = None
        /\ \E t \in Tokens \cup {None} :
             answer' = <<IF ResetToken(t) THEN "reset read" ELSE "reset sent", k>>
    BY <2>1, <2>2, Zenon DEF handle_packet
  <2>4. answer'[2] = k
    BY <2>3, PairParts, Zenon
  <2> QED BY <2>3, <2>4, FoundSpec, Zenon
<1> QED BY <1>1, LookupCorrect, PTL DEF Spec, NeverResetOwn
-----------------------------------------------------------------------------
(* Tickets and early data.                                                 *)

\* Bounds and times are numbers.
LEMMA TicketsNat == MaxTickets \in Nat /\ MaxTime \in Nat /\ Window \in Nat
  BY TicketsAssumption, Zenon

\* The whole seconds of a time, and the time an entry is given.
LEMMA WholeNat ==
    /\ \A t \in Nat : WholeSeconds(t) \in Nat /\ Until(t) \in Nat
    /\ Window % Second = 0 => WholeSeconds(Window) = Window
<1>1. Second \in Nat /\ Second > 0 /\ Window \in Nat
  BY TicketsAssumption
<1>2. ASSUME NEW t \in Nat PROVE WholeSeconds(t) \in Nat
  BY <1>1 DEF WholeSeconds
<1>3. Window % Second = 0 => WholeSeconds(Window) = Window
  BY <1>1 DEF WholeSeconds
<1>4. \A t \in Nat : Until(t) \in Nat
  <2>1. \A a, b \in Nat : a + b \in Nat
    OBVIOUS
  <2> QED BY <1>1, <1>2, <2>1, Zenon DEF Until
<1> QED BY <1>2, <1>3, <1>4, Zenon

\* What a sequence is made of.
LEMMA SeqParts ==
    ASSUME NEW S, NEW s \in Seq(S)
    PROVE  Len(s) \in Nat /\ DOMAIN s = 1..Len(s) /\ \A i \in DOMAIN s : s[i] \in S
  OBVIOUS

\* A sequence as a function.
LEMMA SeqIsFunction == ASSUME NEW S, NEW s \in Seq(S) PROVE s \in [DOMAIN s -> S]
  OBVIOUS

\* A sequence with one more element.
LEMMA Appended ==
    ASSUME NEW S, NEW s \in Seq(S), NEW x \in S
    PROVE  /\ Append(s, x) \in Seq(S) /\ DOMAIN Append(s, x) = 1..Len(s) + 1
           /\ Append(s, x)[Len(s) + 1] = x /\ \A i \in 1..Len(s) : Append(s, x)[i] = s[i]
  OBVIOUS

\* The beginning of a sequence.
LEMMA FirstOnes ==
    ASSUME NEW S, NEW s \in Seq(S), NEW n \in Nat, n <= Len(s)
    PROVE  /\ SubSeq(s, 1, n) \in Seq(S) /\ Len(SubSeq(s, 1, n)) = n
           /\ \A i \in DOMAIN SubSeq(s, 1, n) : i \in DOMAIN s /\ i <= n /\ SubSeq(s, 1, n)[i] = s[i]
  OBVIOUS

\* The store keeps the newest tickets and the new one.
LEMMA Stores ==
    ASSUME NEW S, NEW mine \in Seq(S), Len(mine) <= 3, NEW t \in S
    PROVE  /\ Store(mine, t) \in Seq(S) /\ Len(Store(mine, t)) <= 3
           /\ \E k \in {0, 1} : \A i \in DOMAIN Store(mine, t) :
                 \/ i = Len(Store(mine, t)) /\ Store(mine, t)[i] = t
                 \/ i + k \in DOMAIN mine /\ Store(mine, t)[i] = mine[i + k]
<1>1. CASE Len(mine) > 2
  <2>1. Len(mine) = 3
    <3>1. \A n \in Nat : n <= 3 /\ n > 2 => n = 3
      OBVIOUS
    <3>2. Len(mine) \in Nat
      BY SeqParts, Zenon
    <3> QED BY <1>1, <3>1, <3>2, Zenon
  <2>2. /\ SubSeq(mine, 2, 3) \in Seq(S) /\ Len(SubSeq(mine, 2, 3)) = 2
        /\ \A i \in 1..2 : SubSeq(mine, 2, 3)[i] = mine[i + 1]
    BY <2>1, SMTT(30)
  <2>3. Store(mine, t) = Append(SubSeq(mine, 2, 3), t)
    BY <2>1 DEF Store
  <2> DEFINE s == SubSeq(mine, 2, 3)
  <2> HIDE DEF s
  <2>4. Append(s, t) \in Seq(S) /\ Len(Append(s, t)) = 3 /\ Append(s, t)[3] = t
        /\ \A i \in 1..2 : Append(s, t)[i] = mine[i + 1]
    BY <2>2 DEF s
  <2>5. Store(mine, t) = Append(s, t)
    BY <2>3, Zenon DEF s
  <2>6. \A i \in DOMAIN Append(s, t) : \/ i = Len(Append(s, t)) /\ Append(s, t)[i] = t
                                       \/ i + 1 \in DOMAIN mine /\ Append(s, t)[i] = mine[i + 1]
    BY <2>1, <2>4
  <2> QED BY <2>4, <2>5, <2>6
<1>2. CASE ~(Len(mine) > 2)
  <2>1. Store(mine, t) = Append(mine, t)
    BY <1>2, Zenon DEF Store
  <2>2. Append(mine, t) \in Seq(S) /\ Len(Append(mine, t)) <= 3
    BY <1>2
  <2>3. \A i \in DOMAIN Append(mine, t) : \/ i = Len(Append(mine, t)) /\ Append(mine, t)[i] = t
                                          \/ i + 0 \in DOMAIN mine /\ Append(mine, t)[i] = mine[i + 0]
    OBVIOUS
  <2> QED BY <2>1, <2>2, <2>3, Zenon
<1> QED BY <1>1, <1>2, Zenon

\* The newest ticket that has not expired is taken out, and what is behind it dropped.
LEMMA Extracts ==
    ASSUME NEW S, NoTicket \notin S, NEW mine \in Seq(S), Len(mine) <= 3
    PROVE  /\ DOMAIN Extract(mine) = {"got", "rest"}
           /\ \/ Extract(mine) = [got |-> NoTicket, rest |-> <<>>]
              \/ \E i \in DOMAIN mine : Extract(mine) = [got |-> mine[i], rest |-> SubSeq(mine, 1, i - 1)]
<1> DEFINE found == {i \in DOMAIN mine :
                      Expiry(mine[i]) > now /\ \A j \in (i + 1)..Len(mine) : Expiry(mine[j]) <= now}
<1> HIDE DEF found
<1>0. found \subseteq DOMAIN mine
  BY Zenon DEF found
<1>1. Extract(mine) = IF found = {} THEN [got |-> NoTicket, rest |-> <<>>]
            ELSE [got |-> mine[CHOOSE i \in found : TRUE], rest |-> SubSeq(mine, 1, (CHOOSE i \in found : TRUE) - 1)]
  BY Zenon DEF Extract, found
<1>2. CASE found = {}
  BY <1>1, <1>2, Zenon
<1>3. CASE found # {}
  <2>1. (CHOOSE i \in found : TRUE) \in DOMAIN mine
    BY <1>0, <1>3, Zenon
  <2> DEFINE k == CHOOSE i \in found : TRUE
  <2> HIDE DEF k
  <2>2. Extract(mine) = [got |-> mine[k], rest |-> SubSeq(mine, 1, k - 1)] /\ k \in DOMAIN mine
    BY <1>1, <1>3, <2>1, Zenon DEF k
  <2> QED BY <2>2, Zenon
<1> QED BY <1>2, <1>3, Zenon

\* What is inductive.
EarlyInv == AgainOnlyLate /\ Remembered /\ AcceptedFresh
TicketsInv == TicketsType /\ EarlyInv /\ TicketOnce /\ OnePlace

\* What does not concern the early data.
LEMMA EarlyKept ==
    ASSUME EarlyInv, UNCHANGED <<now, hellos, seen, early, unguarded>>
    PROVE  EarlyInv'
<1>1. AgainOnlyLate'
  BY DEF EarlyInv, AgainOnlyLate, Guarded, Until, WholeSeconds
<1>2. Remembered'
  BY DEF EarlyInv, Remembered, Guarded, Until, WholeSeconds
<1>3. AcceptedFresh'
  BY DEF EarlyInv, AcceptedFresh
<1> QED BY <1>1, <1>2, <1>3, Zenon DEF EarlyInv

\* Nothing has been issued.
LEMMA TicketsStart == TicketsInit => TicketsInv
<1> SUFFICES ASSUME TicketsInit PROVE TicketsInv
  BY Zenon
<1> USE TicketsNat DEF TicketsInit
<1>1. <<>> \in Seq(Tickets) /\ Len(<<>>) <= 3 /\ <<>> \in Seq({})
  OBVIOUS
<1>2. /\ storage \in [Remotes -> Seq(Tickets)]
      /\ \A r \in Remotes : storage[r] \in Seq(DOMAIN issued) /\ Len(storage[r]) <= 3
  BY <1>1
<1>3. /\ now \in 0..MaxTime /\ last_cleanup \in 0..MaxTime
      /\ issued \in Seq([remote : Remotes, expiry : Nat]) /\ Len(issued) <= MaxTickets
      /\ transit \subseteq DOMAIN issued
  OBVIOUS
<1>4. /\ hellos \in Seq([ticket : Tickets, sent : 0..MaxTime]) /\ DOMAIN hellos = {} /\ DOMAIN early = {}
      /\ seen \subseteq [hello : DOMAIN hellos, expiry : Nat] /\ early \in [DOMAIN hellos -> Seq(0..MaxTime)]
      /\ unguarded \subseteq DOMAIN hellos
  <2>1. DOMAIN <<>> = {} /\ <<>> \in [{} -> Seq(0..MaxTime)]
    OBVIOUS
  <2>2. <<>> \in Seq([ticket : Tickets, sent : 0..MaxTime])
    OBVIOUS
  <2> QED BY <2>1, <2>2, Zenon
<1>5. TicketsType
  BY <1>2, <1>3, <1>4, Zenon DEF TicketsType
<1>6. ASSUME NEW r \in Remotes PROVE DOMAIN storage[r] = {}
  <2>1. storage[r] = <<>>
    BY Zenon
  <2> QED BY <2>1
<1>7. OnePlace
  BY <1>4, <1>6, Zenon DEF OnePlace, OnTheWay, StoredUnused, StoredOnce
<1> QED BY <1>4, <1>5, <1>7, Zenon DEF TicketsInv, EarlyInv, Guarded, AgainOnlyLate, Remembered, AcceptedFresh, TicketOnce

\* The types of what is known of a hello.
LEMMA HelloTypes ==
    ASSUME TicketsType
    PROVE  /\ \A h \in DOMAIN hellos : hellos[h].sent \in 0..MaxTime /\ hellos[h].ticket \in Tickets
           /\ Len(hellos) \in Nat /\ DOMAIN hellos = 1..Len(hellos)
           /\ DOMAIN early = DOMAIN hellos /\ \A h \in DOMAIN hellos : early[h] \in Seq(0..MaxTime)
           /\ \A h \in DOMAIN hellos : \A i \in DOMAIN early[h] : early[h][i] \in Nat
           /\ now \in Nat /\ now \in 0..MaxTime
<1>1. hellos \in Seq([ticket : Tickets, sent : 0..MaxTime])
  BY Zenon DEF TicketsType
<1>2. /\ \A h \in DOMAIN hellos : hellos[h] \in [ticket : Tickets, sent : 0..MaxTime]
      /\ Len(hellos) \in Nat /\ DOMAIN hellos = 1..Len(hellos)
  BY <1>1, SeqParts, Zenon
<1>3. DOMAIN early = DOMAIN hellos /\ \A h \in DOMAIN hellos : early[h] \in Seq(0..MaxTime)
  BY Zenon DEF TicketsType
<1>4. ASSUME NEW h \in DOMAIN hellos, NEW i \in DOMAIN early[h] PROVE early[h][i] \in Nat
  <2>1. early[h][i] \in 0..MaxTime
    BY <1>3, SeqParts, Zenon
  <2> QED BY <2>1
<1>5. now \in Nat /\ now \in 0..MaxTime
  <2>1. now \in 0..MaxTime
    BY Zenon DEF TicketsType
  <2> QED BY <2>1, TicketsNat
<1> QED BY <1>2, <1>3, <1>4, <1>5, Zenon

\* What only takes tickets off the way.
LEMMA PlaceKept ==
    ASSUME OnePlace, transit' \subseteq transit, UNCHANGED <<storage, hellos>>
    PROVE  OnePlace'
<1>1. OnTheWay'
  BY Zenon DEF OnePlace, OnTheWay
<1>2. StoredUnused'
  BY Zenon DEF OnePlace, StoredUnused
<1>3. StoredOnce'
  BY DEF OnePlace, StoredOnce
<1> QED BY <1>1, <1>2, <1>3, Zenon DEF OnePlace

\* Time passes.
LEMMA TickKeeps ==
    ASSUME TicketsInv, Tick
    PROVE  TicketsInv'
<1>1. /\ now' = now + 1 /\ now \in 0..MaxTime /\ now' \in 0..MaxTime
      /\ UNCHANGED <<issued, transit, storage, hellos, seen, last_cleanup, early, unguarded>>
  <2>1. /\ now' = now + 1 /\ now \in 0..MaxTime /\ now < MaxTime
        /\ UNCHANGED <<issued, transit, storage, hellos, seen, last_cleanup, early, unguarded>>
    BY Zenon DEF Tick, TicketsInv, TicketsType
  <2>2. now + 1 \in 0..MaxTime
    BY <2>1, TicketsNat
  <2> QED BY <2>1, <2>2, Zenon
<1>2. TicketsType' /\ TicketOnce' /\ OnePlace'
  <2>1. TicketsType'
    BY <1>1, Zenon DEF TicketsInv, TicketsType
  <2>2. TicketOnce' /\ OnePlace'
    BY <1>1, PlaceKept, Zenon DEF TicketsInv, TicketOnce
  <2> QED BY <2>1, <2>2, Zenon
<1>3. AgainOnlyLate'
  BY <1>1 DEF TicketsInv, EarlyInv, AgainOnlyLate, Guarded, Until, WholeSeconds
<1>4. Remembered'
  <2>1. ASSUME NEW h \in Guarded, NEW i \in DOMAIN early[h]
        PROVE  \/ now' > Until(early[h][i])
               \/ \E e \in seen : e.hello = h /\ e.expiry >= Until(early[h][i])
    <3>1. now > Until(early[h][i]) \/ \E e \in seen : e.hello = h /\ e.expiry >= Until(early[h][i])
      BY Zenon DEF TicketsInv, EarlyInv, Remembered
    <3>2. Until(early[h][i]) \in Nat
      BY HelloTypes, WholeNat, Zenon DEF TicketsInv, Guarded
    <3>3. now > Until(early[h][i]) => now' > Until(early[h][i])
      BY <1>1, <3>2
    <3> QED BY <3>1, <3>3, Zenon
  <2> QED BY <1>1, <2>1, Zenon DEF Remembered, Guarded, Until, WholeSeconds
<1>5. AcceptedFresh'
  <2>1. ASSUME NEW h \in DOMAIN hellos
        PROVE  /\ hellos[h].sent <= now'
               /\ \A i \in DOMAIN early[h] :
                    early[h][i] \in hellos[h].sent..now' /\ early[h][i] <= hellos[h].sent + Window
    <3>1. /\ hellos[h].sent <= now
          /\ \A i \in DOMAIN early[h] :
               early[h][i] \in hellos[h].sent..now /\ early[h][i] <= hellos[h].sent + Window
      BY Zenon DEF TicketsInv, EarlyInv, AcceptedFresh
    <3>2. hellos[h].sent \in 0..MaxTime
      BY HelloTypes, Zenon DEF TicketsInv
    <3> QED BY <1>1, <3>1, <3>2
  <2> QED BY <1>1, <2>1, Zenon DEF AcceptedFresh
<1> QED BY <1>2, <1>3, <1>4, <1>5, Zenon DEF TicketsInv, EarlyInv

\* Two tickets are issued: they are new.
LEMMA IssueKeeps ==
    ASSUME TicketsInv, NEW r \in Remotes, send_session_tickets(r)
    PROVE  TicketsInv'
<1> DEFINE n == Len(issued)
<1> HIDE DEF n
<1>1. PICK v \in Validity, w \in Validity :
         issued' = issued \o <<[remote |-> r, expiry |-> WholeSeconds(now + v)],
                               [remote |-> r, expiry |-> WholeSeconds(now + w)]>>
  BY Zenon DEF send_session_tickets
<1>2. /\ n + 2 <= MaxTickets /\ transit' = transit \cup {n + 1, n + 2}
      /\ UNCHANGED <<now, storage, hellos, seen, last_cleanup, early, unguarded>>
  BY Zenon DEF send_session_tickets, n
<1>3. now \in Nat /\ v \in Nat /\ w \in Nat /\ n \in Nat /\ issued \in Seq([remote : Remotes, expiry : Nat])
      /\ DOMAIN issued = 1..n
  BY TicketsAssumption DEF TicketsInv, TicketsType, n
<1>4. /\ issued' \in Seq([remote : Remotes, expiry : Nat])
      /\ Len(issued') = n + 2 /\ DOMAIN issued' = 1..n + 2
  <2> DEFINE a == [remote |-> r, expiry |-> WholeSeconds(now + v)]
             b == [remote |-> r, expiry |-> WholeSeconds(now + w)]
  <2>1. a \in [remote : Remotes, expiry : Nat] /\ b \in [remote : Remotes, expiry : Nat]
    <3>1. now + v \in Nat /\ now + w \in Nat
      BY <1>3
    <3> QED BY <3>1, WholeNat, Zenon
  <2> HIDE DEF a, b
  <2>2. issued \o <<a, b>> \in Seq([remote : Remotes, expiry : Nat]) /\ Len(issued \o <<a, b>>) = n + 2
    BY <1>3, <2>1 DEF n
  <2>3. issued' = issued \o <<a, b>>
    BY <1>1, Zenon DEF a, b
  <2> QED BY <2>2, <2>3
<1>5. DOMAIN issued \subseteq DOMAIN issued' /\ n + 1 \notin DOMAIN issued /\ n + 2 \notin DOMAIN issued
      /\ {n + 1, n + 2} \subseteq DOMAIN issued'
  BY <1>3, <1>4
<1>6. ASSUME NEW q \in Remotes
      PROVE  /\ storage[q] \in Seq(DOMAIN issued') /\ \A i \in DOMAIN storage[q] : storage[q][i] \in DOMAIN issued
  BY <1>5 DEF TicketsInv, TicketsType
<1>7. TicketsType'
  BY <1>2, <1>4, <1>5, <1>6, Zenon DEF TicketsInv, TicketsType
<1>8. EarlyInv' /\ TicketOnce'
  BY <1>2, EarlyKept, Zenon DEF TicketsInv, TicketOnce
<1>9. OnePlace'
  <2>1. \A h \in DOMAIN hellos : hellos[h].ticket \in DOMAIN issued
    BY Zenon DEF TicketsInv, TicketsType
  <2>2. \A x \in DOMAIN issued : x \notin transit => x \notin transit'
    BY <1>2, <1>5, Zenon
  <2>3. OnTheWay'
    BY <1>2, <1>6, <2>1, <2>2, Zenon DEF TicketsInv, OnePlace, OnTheWay
  <2>4. StoredUnused'
    BY <1>2, Zenon DEF TicketsInv, OnePlace, StoredUnused
  <2>5. StoredOnce'
    BY <1>2 DEF TicketsInv, OnePlace, StoredOnce
  <2> QED BY <2>3, <2>4, <2>5, Zenon DEF OnePlace
<1> QED BY <1>7, <1>8, <1>9, Zenon DEF TicketsInv

\* A ticket is lost.
LEMMA LoseKeeps ==
    ASSUME TicketsInv, NEW t \in transit, LoseTicket(t)
    PROVE  TicketsInv'
<1>1. transit' \subseteq transit /\ UNCHANGED <<now, issued, storage, hellos, seen, last_cleanup, early, unguarded>>
  BY Zenon DEF LoseTicket
<1>2. TicketsType'
  BY <1>1, Zenon DEF TicketsInv, TicketsType
<1>3. EarlyInv' /\ TicketOnce' /\ OnePlace'
  BY <1>1, EarlyKept, PlaceKept, Zenon DEF TicketsInv, TicketOnce
<1> QED BY <1>2, <1>3, Zenon DEF TicketsInv

\* A ticket is stored once.
LEMMA OnceStored ==
    ASSUME StoredOnce, NEW q \in Remotes, NEW r \in Remotes, NEW i \in DOMAIN storage[q], NEW j \in DOMAIN storage[r],
           storage[q][i] = storage[r][j]
    PROVE  q = r /\ i = j
  BY Zenon DEF StoredOnce

\* The tickets stored for one remote are those there were, moved up by k, and one from elsewhere.
Elsewhere(t) == \A r \in Remotes : \A i \in DOMAIN storage[r] : storage[r][i] # t
Refilled(q, new, k, t) ==
    /\ storage' = [storage EXCEPT ![q] = new] /\ new \in Seq(Tickets)
    /\ \A i \in DOMAIN new : \/ i = Len(new) /\ new[i] = t
                             \/ i + k \in DOMAIN storage[q] /\ new[i] = storage[q][i + k]
LEMMA Restored ==
    ASSUME TicketsType, OnePlace, NEW q \in Remotes, NEW new, NEW k \in Nat, NEW t,
           Elsewhere(t), Refilled(q, new, k, t)
    PROVE  /\ StoredOnce'
           /\ \A r \in Remotes : \A i \in DOMAIN storage'[r] :
                 storage'[r][i] = t \/ \E j \in DOMAIN storage[r] : storage'[r][i] = storage[r][j]
<1> USE DEF Refilled
<1>1. storage \in [Remotes -> Seq(Tickets)]
  BY Zenon DEF TicketsType
<1>2. storage'[q] = new /\ \A r \in Remotes : r # q => storage'[r] = storage[r]
  BY <1>1, Zenon
<1>3. \A r \in Remotes : \A i \in DOMAIN storage[r] : storage[r][i] # t
  BY Zenon DEF Elsewhere
<1>4. \A i \in DOMAIN new : i \in Nat
  BY SeqParts
<1>5. ASSUME NEW i \in DOMAIN new, NEW j \in DOMAIN new, new[i] = new[j]
      PROVE  i = j
  <2>1. CASE new[i] = t
    <3>1. i = Len(new) /\ j = Len(new)
      BY <1>3, <1>5, <2>1, Zenon
    <3> QED BY <3>1, Zenon
  <2>2. CASE new[i] # t
    <3>1. /\ i + k \in DOMAIN storage[q] /\ j + k \in DOMAIN storage[q]
          /\ storage[q][i + k] = storage[q][j + k]
      BY <1>5, <2>2, Zenon
    <3>2. i + k = j + k
      BY <3>1, OnceStored DEF OnePlace
    <3> QED BY <1>4, <3>2
  <2> QED BY <2>1, <2>2, Zenon
<1>6. ASSUME NEW r \in Remotes, NEW i \in DOMAIN storage'[r]
      PROVE  storage'[r][i] = t \/ \E j \in DOMAIN storage[r] : storage'[r][i] = storage[r][j]
  <2>1. CASE r = q
    BY <1>2, <1>6, <2>1
  <2>2. CASE r # q
    BY <1>2, <1>6, <2>2, Zenon
  <2> QED BY <2>1, <2>2, Zenon
<1>7. ASSUME NEW p \in Remotes, NEW r \in Remotes, NEW i \in DOMAIN storage'[p], NEW j \in DOMAIN storage'[r],
             storage'[p][i] = storage'[r][j]
      PROVE  p = r /\ i = j
  <2>1. CASE p = q /\ r = q
    BY <1>2, <1>5, <1>7, <2>1, ZenonT(30)
  <2>2. CASE p # q /\ r # q
    BY <1>2, <1>7, <2>2, OnceStored DEF OnePlace
  <2>3. CASE p = q /\ r # q
    <3>1. storage'[r][j] = storage[r][j] /\ j \in DOMAIN storage[r]
      BY <1>2, <2>3, Zenon
    <3>2. storage'[p][i] # t
      BY <1>3, <1>7, <3>1, Zenon
    <3>3. i + k \in DOMAIN storage[q] /\ storage'[p][i] = storage[q][i + k]
      BY <1>2, <2>3, <3>2, Zenon
    <3> QED BY <1>7, <2>3, <3>1, <3>3, OnceStored DEF OnePlace
  <2>4. CASE p # q /\ r = q
    <3>1. storage'[p][i] = storage[p][i] /\ i \in DOMAIN storage[p]
      BY <1>2, <2>4, Zenon
    <3>2. storage'[r][j] # t
      BY <1>3, <1>7, <3>1, Zenon
    <3>3. j + k \in DOMAIN storage[q] /\ storage'[r][j] = storage[q][j + k]
      BY <1>2, <2>4, <3>2, Zenon
    <3> QED BY <1>7, <2>4, <3>1, <3>3, OnceStored DEF OnePlace
  <2> QED BY <2>1, <2>2, <2>3, <2>4, Zenon
<1>8. StoredOnce'
  BY <1>7, Zenon DEF StoredOnce
<1> QED BY <1>6, <1>8, Zenon

\* A ticket arrives.
LEMMA ArriveKeeps ==
    ASSUME TicketsInv, NEW t \in transit, client_session_cb(t)
    PROVE  TicketsInv'
<1> DEFINE q == issued[t].remote  mine == storage[q]  D == DOMAIN issued
<1>1. /\ transit' = transit \ {t} /\ UNCHANGED <<now, issued, hellos, seen, last_cleanup, early, unguarded>>
      /\ storage' = [storage EXCEPT ![q] = Store(mine, t)]
  BY Zenon DEF client_session_cb, store_session_ticket
<1>2. /\ issued \in Seq([remote : Remotes, expiry : Nat]) /\ transit \subseteq D /\ Len(issued) <= MaxTickets
      /\ storage \in [Remotes -> Seq(Tickets)]
      /\ \A r \in Remotes : storage[r] \in Seq(D) /\ Len(storage[r]) <= 3
  BY Zenon DEF TicketsInv, TicketsType
<1>3. issued[t] \in [remote : Remotes, expiry : Nat] /\ D \subseteq Tickets
  <2>1. /\ Len(issued) \in Nat /\ D = 1..Len(issued)
        /\ \A i \in D : issued[i] \in [remote : Remotes, expiry : Nat]
    BY <1>2, SeqParts, Zenon
  <2> QED BY <1>2, <2>1, TicketsNat DEF Tickets
<1>4. q \in Remotes /\ t \in D
  BY <1>2, <1>3, Zenon
<1> HIDE DEF q, mine, D
<1>5. mine \in Seq(D) /\ Len(mine) <= 3
  BY <1>2, <1>4, Zenon DEF mine
<1>6. Store(mine, t) \in Seq(D) /\ Len(Store(mine, t)) <= 3
  BY <1>4, <1>5, Stores, Zenon
<1>7. Store(mine, t) \in Seq(Tickets)
  BY <1>3, <1>6
<1>8. PICK k \in {0, 1} : \A i \in DOMAIN Store(mine, t) :
                 \/ i = Len(Store(mine, t)) /\ Store(mine, t)[i] = t
                 \/ i + k \in DOMAIN mine /\ Store(mine, t)[i] = mine[i + k]
  BY <1>4, <1>5, Stores, ZenonT(30)
<1>9. k \in Nat
  OBVIOUS
<1>10. /\ StoredOnce'
       /\ \A r \in Remotes : \A i \in DOMAIN storage'[r] :
             storage'[r][i] = t \/ \E j \in DOMAIN storage[r] : storage'[r][i] = storage[r][j]
  <2> DEFINE new == Store(mine, t)
  <2> HIDE DEF new
  <2>1. Refilled(q, new, k, t)
    BY <1>1, <1>7, <1>8, Zenon DEF new, mine, Refilled
  <2>2. Elsewhere(t)
    BY Zenon DEF TicketsInv, OnePlace, OnTheWay, Elsewhere
  <2> QED BY <1>4, <1>9, <2>1, <2>2, Restored DEF TicketsInv
<1>11. OnePlace'
  <2>1. ASSUME NEW r \in Remotes, NEW i \in DOMAIN storage'[r]
        PROVE  /\ storage'[r][i] \notin transit'
               /\ \A h \in DOMAIN hellos : hellos[h].ticket # storage'[r][i]
    <3>1. t \notin transit' /\ \A h \in DOMAIN hellos : hellos[h].ticket # t
      BY <1>1, Zenon DEF TicketsInv, OnePlace, OnTheWay
    <3>2. \A j \in DOMAIN storage[r] : /\ storage[r][j] \notin transit'
                                      /\ \A h \in DOMAIN hellos : hellos[h].ticket # storage[r][j]
      BY <1>1, Zenon DEF TicketsInv, OnePlace, OnTheWay, StoredUnused
    <3> QED BY <1>10, <3>1, <3>2
  <2>2. OnTheWay' /\ StoredUnused'
    BY <1>1, <2>1, ZenonT(30) DEF TicketsInv, OnePlace, OnTheWay, StoredUnused
  <2> QED BY <1>10, <2>2, Zenon DEF OnePlace
<1>12. storage' \in [Remotes -> Seq(Tickets)] /\ \A r \in Remotes : storage'[r] \in Seq(D) /\ Len(storage'[r]) <= 3
  <2>1. storage'[q] = Store(mine, t) /\ \A r \in Remotes : r # q => storage'[r] = storage[r]
    BY <1>1, <1>2, <1>4, Zenon
  <2>2. storage' \in [Remotes -> Seq(Tickets)]
    BY <1>1, <1>2, <1>7, Zenon
  <2> QED BY <1>2, <1>6, <2>1, <2>2, Zenon
<1>13. TicketsType'
  BY <1>1, <1>12, Zenon DEF TicketsInv, TicketsType, D
<1>14. EarlyInv' /\ TicketOnce'
  BY <1>1, EarlyKept, Zenon DEF TicketsInv, TicketOnce
<1> QED BY <1>11, <1>13, <1>14, Zenon DEF TicketsInv

\* What a new connection does: it empties the store, or takes a ticket out and attempts early data
\* with it or, if it does not load, loses it.
Attempts(r, t) == hellos' = Append(hellos, [ticket |-> t, sent |-> now]) /\ early' = Append(early, <<>>)
LEMMA ConnectDoes ==
    ASSUME TicketsType, NEW r \in Remotes, NEW loads \in BOOLEAN, Connect(r, loads)
    PROVE  /\ UNCHANGED <<now, issued, transit, seen, last_cleanup, unguarded>>
           /\ \/ storage' = [storage EXCEPT ![r] = <<>>] /\ UNCHANGED <<hellos, early>>
              \/ \E i \in DOMAIN storage[r] :
                    /\ storage' = [storage EXCEPT ![r] = SubSeq(storage[r], 1, i - 1)]
                    /\ UNCHANGED <<hellos, early>> \/ Attempts(r, storage[r][i])
<1> DEFINE mine == storage[r]  D == DOMAIN issued  x == Extract(mine)  y == extract_session_data(r, loads)
<1>1. mine \in Seq(D) /\ Len(mine) <= 3 /\ NoTicket \notin D
  <2>1. /\ issued \in Seq([remote : Remotes, expiry : Nat]) /\ Len(issued) <= MaxTickets
        /\ mine \in Seq(D) /\ Len(mine) <= 3
    BY Zenon DEF TicketsType
  <2>2. Len(issued) \in Nat /\ D = 1..Len(issued)
    BY <2>1, SeqParts, Zenon
  <2>3. D \subseteq 1..MaxTickets
    BY <2>1, <2>2, TicketsNat
  <2> QED BY <2>1, <2>3, TicketsAssumption, Zenon
<1>2. \A i \in DOMAIN mine : mine[i] # NoTicket
  BY <1>1, SeqParts
<1>3. y = [x EXCEPT !.got = IF loads THEN x.got ELSE NoTicket]
  BY Zenon DEF extract_session_data
<1>4. /\ storage' = [storage EXCEPT ![r] = y.rest]
      /\ y.got # NoTicket => Attempts(r, y.got)
      /\ y.got = NoTicket => UNCHANGED <<hellos, early>>
      /\ UNCHANGED <<now, issued, transit, seen, last_cleanup, unguarded>>
  BY Zenon DEF Connect, Attempts
<1> HIDE DEF y, mine, D
<1>5. \/ x = [got |-> NoTicket, rest |-> <<>>]
      \/ \E i \in DOMAIN mine : x = [got |-> mine[i], rest |-> SubSeq(mine, 1, i - 1)]
  BY <1>1, Extracts, Zenon
<1> HIDE DEF x
<1>6. CASE x = [got |-> NoTicket, rest |-> <<>>]
  <2>1. y.got = NoTicket /\ y.rest = <<>>
    BY <1>3, <1>6, Zenon
  <2> QED BY <1>4, <2>1, Zenon
<1>7. ASSUME NEW i \in DOMAIN mine, x = [got |-> mine[i], rest |-> SubSeq(mine, 1, i - 1)]
      PROVE  /\ storage' = [storage EXCEPT ![r] = SubSeq(mine, 1, i - 1)]
             /\ UNCHANGED <<hellos, early>> \/ Attempts(r, mine[i])
  <2>1. y.rest = SubSeq(mine, 1, i - 1) /\ (y.got = NoTicket \/ y.got = mine[i])
    BY <1>3, <1>7, Zenon
  <2> QED BY <1>4, <2>1, Zenon
<1>8. CASE \E i \in DOMAIN mine : x = [got |-> mine[i], rest |-> SubSeq(mine, 1, i - 1)]
  <2>1. PICK i \in DOMAIN mine : x = [got |-> mine[i], rest |-> SubSeq(mine, 1, i - 1)]
    BY <1>8, Zenon
  <2>2. /\ storage' = [storage EXCEPT ![r] = SubSeq(mine, 1, i - 1)]
        /\ UNCHANGED <<hellos, early>> \/ Attempts(r, mine[i])
    BY <1>7, <2>1, Zenon
  <2> QED BY <1>4, <2>2, Zenon DEF mine
<1> QED BY <1>5, <1>6, <1>8, Zenon

\* A store cut short.
LEMMA CutShort ==
    ASSUME TicketsInv, NEW r \in Remotes, NEW n \in Nat, n <= Len(storage[r]),
           NEW new, new = SubSeq(storage[r], 1, n), storage' = [storage EXCEPT ![r] = new],
           UNCHANGED <<now, issued, transit, seen, last_cleanup, unguarded>>
    PROVE  /\ storage' \in [Remotes -> Seq(Tickets)] /\ StoredOnce'
           /\ \A q \in Remotes : storage'[q] \in Seq(DOMAIN issued) /\ Len(storage'[q]) <= 3
           /\ \A q \in Remotes : \A i \in DOMAIN storage'[q] :
                 /\ i \in DOMAIN storage[q] /\ storage'[q][i] = storage[q][i] /\ (q = r => i <= n)
<1>1. /\ storage \in [Remotes -> Seq(Tickets)]
      /\ \A q \in Remotes : storage[q] \in Seq(DOMAIN issued) /\ Len(storage[q]) <= 3
  BY Zenon DEF TicketsInv, TicketsType
<1>2. /\ new \in Seq(Tickets) /\ Len(new) = n /\ new \in Seq(DOMAIN issued)
      /\ \A i \in DOMAIN new : i \in DOMAIN storage[r] /\ i <= n /\ new[i] = storage[r][i]
  <2>1. storage[r] \in Seq(Tickets) /\ storage[r] \in Seq(DOMAIN issued)
    BY <1>1, Zenon
  <2> QED BY <2>1, FirstOnes
<1>3. storage'[r] = new /\ \A q \in Remotes : q # r => storage'[q] = storage[q]
  BY <1>1, Zenon
<1>4. storage' \in [Remotes -> Seq(Tickets)]
  BY <1>1, <1>2, Zenon
<1>5. \A q \in Remotes : storage'[q] \in Seq(DOMAIN issued) /\ Len(storage'[q]) <= 3
  <2>1. storage[r] \in Seq(DOMAIN issued) /\ Len(storage[r]) <= 3
    BY <1>1, Zenon
  <2>2. Len(storage[r]) \in Nat
    BY <2>1
  <2>3. Len(new) <= 3
    BY <1>2, <2>1, <2>2
  <2> QED BY <1>1, <1>2, <1>3, <2>3, Zenon
<1>6. ASSUME NEW q \in Remotes, NEW i \in DOMAIN storage'[q]
      PROVE  i \in DOMAIN storage[q] /\ storage'[q][i] = storage[q][i] /\ (q = r => i <= n)
  <2>1. CASE q = r
    BY <1>2, <1>3, <2>1, Zenon
  <2>2. CASE q # r
    BY <1>3, <2>2, Zenon
  <2> QED BY <2>1, <2>2, Zenon
<1>7. ASSUME NEW p \in Remotes, NEW q \in Remotes, NEW i \in DOMAIN storage'[p], NEW j \in DOMAIN storage'[q],
             storage'[p][i] = storage'[q][j]
      PROVE  p = q /\ i = j
  <2>1. /\ i \in DOMAIN storage[p] /\ j \in DOMAIN storage[q] /\ storage[p][i] = storage[q][j]
    BY <1>6, <1>7, Zenon
  <2> QED BY <2>1, OnceStored DEF TicketsInv, OnePlace
<1>8. StoredOnce'
  BY <1>7, Zenon DEF StoredOnce
<1> QED BY <1>4, <1>5, <1>6, <1>8, Zenon

\* What holds of the store then, if no attempt is made.
LEMMA CutKeeps ==
    ASSUME TicketsInv, NEW r \in Remotes, NEW n \in Nat, n <= Len(storage[r]),
           storage' = [storage EXCEPT ![r] = SubSeq(storage[r], 1, n)],
           UNCHANGED <<now, issued, transit, seen, last_cleanup, unguarded, hellos, early>>
    PROVE  TicketsInv'
<1>1. /\ storage' \in [Remotes -> Seq(Tickets)] /\ StoredOnce'
      /\ \A q \in Remotes : storage'[q] \in Seq(DOMAIN issued) /\ Len(storage'[q]) <= 3
      /\ \A q \in Remotes : \A i \in DOMAIN storage'[q] :
            i \in DOMAIN storage[q] /\ storage'[q][i] = storage[q][i]
  BY CutShort, ZenonT(30)
<1>2. TicketsType'
  BY <1>1, Zenon DEF TicketsInv, TicketsType
<1>3. EarlyInv' /\ TicketOnce'
  BY EarlyKept, Zenon DEF TicketsInv, TicketOnce
<1>4. OnTheWay'
  BY <1>1, Zenon DEF TicketsInv, OnePlace, OnTheWay
<1>5. StoredUnused'
  BY <1>1 DEF TicketsInv, OnePlace, StoredUnused
<1> QED BY <1>1, <1>2, <1>3, <1>4, <1>5, Zenon DEF TicketsInv, OnePlace

\* An attempt with a ticket of the store.
LEMMA AttemptKeeps ==
    ASSUME TicketsInv, NEW r \in Remotes, NEW k \in DOMAIN storage[r],
           storage' = [storage EXCEPT ![r] = SubSeq(storage[r], 1, k - 1)], Attempts(r, storage[r][k]),
           UNCHANGED <<now, issued, transit, seen, last_cleanup, unguarded>>
    PROVE  TicketsInv'
<1> DEFINE t == storage[r][k]  n == Len(hellos)  new == [ticket |-> t, sent |-> now]
<1> HIDE DEF n
<1>1. storage[r] \in Seq(Tickets) /\ storage[r] \in Seq(DOMAIN issued)
  BY Zenon DEF TicketsInv, TicketsType
<1>2. k \in Nat /\ k - 1 \in Nat /\ k - 1 <= Len(storage[r]) /\ t \in Tickets /\ t \in DOMAIN issued
  BY <1>1
<1>3. /\ storage' \in [Remotes -> Seq(Tickets)] /\ StoredOnce'
      /\ \A q \in Remotes : storage'[q] \in Seq(DOMAIN issued) /\ Len(storage'[q]) <= 3
      /\ \A q \in Remotes : \A i \in DOMAIN storage'[q] :
            i \in DOMAIN storage[q] /\ storage'[q][i] = storage[q][i] /\ (q = r => i <= k - 1)
  BY <1>2, CutShort, ZenonT(30)
<1>4. /\ hellos \in Seq([ticket : Tickets, sent : 0..MaxTime]) /\ early \in [DOMAIN hellos -> Seq(0..MaxTime)]
      /\ now \in 0..MaxTime /\ unguarded \subseteq DOMAIN hellos /\ seen \subseteq [hello : DOMAIN hellos, expiry : Nat]
      /\ DOMAIN hellos = 1..n /\ n \in Nat
  BY HelloTypes, Zenon DEF TicketsInv, TicketsType, n
<1>5. new \in [ticket : Tickets, sent : 0..MaxTime]
  BY <1>2, <1>4, Zenon
<1> HIDE DEF new
<1>6. /\ hellos' \in Seq([ticket : Tickets, sent : 0..MaxTime]) /\ DOMAIN hellos' = 1..n + 1
      /\ hellos'[n + 1] = new /\ \A h \in 1..n : hellos'[h] = hellos[h]
  <2>1. hellos' = Append(hellos, new)
    BY Zenon DEF Attempts, new
  <2> QED BY <1>4, <1>5, <2>1, Appended DEF n
<1>7. /\ early' \in [1..n + 1 -> Seq(0..MaxTime)] /\ early'[n + 1] = <<>>
      /\ \A h \in 1..n : early'[h] = early[h]
  <2> DEFINE T == Seq(0..MaxTime)
  <2>1. early' = Append(early, <<>>)
    BY Zenon DEF Attempts
  <2>2. <<>> \in T
    OBVIOUS
  <2> HIDE DEF T
  <2>3. early \in [1..n -> T]
    BY <1>4, Zenon DEF T
  <2>4. early \in Seq(T) /\ Len(early) = n
    BY <1>4, <2>3
  <2>5. early' \in Seq(T) /\ DOMAIN early' = 1..n + 1 /\ early'[n + 1] = <<>>
        /\ \A h \in 1..n : early'[h] = early[h]
    BY <2>1, <2>2, <2>4, Appended
  <2>6. early' \in [DOMAIN early' -> T]
    BY <2>5, SeqIsFunction, Zenon
  <2> QED BY <2>5, <2>6, Zenon DEF T
<1>8. new.ticket = t /\ new.sent = now
  BY Zenon DEF new
<1>9. \A h \in DOMAIN hellos' : h \in DOMAIN hellos \/ h = n + 1
  BY <1>4, <1>6
<1>10. TicketsType'
  <2>1. seen \subseteq [hello : 1..n + 1, expiry : Nat] /\ unguarded \subseteq 1..n + 1
    BY <1>4
  <2>2. \A h \in DOMAIN hellos' : hellos'[h].ticket \in DOMAIN issued
    BY <1>2, <1>4, <1>6, <1>8, <1>9, Zenon DEF TicketsInv, TicketsType
  <2>3. UNCHANGED unguarded
    BY Zenon
  <2> QED BY <1>3, <1>6, <1>7, <2>1, <2>2, <2>3, Zenon DEF TicketsInv, TicketsType
<1>11. AgainOnlyLate' /\ Remembered'
  <2>0. DOMAIN <<>> = {}
    OBVIOUS
  <2>1. DOMAIN early = 1..n /\ DOMAIN early' = 1..n + 1
    BY <1>4, <1>7, Zenon
  <2>2. \A h \in DOMAIN early' : h \in DOMAIN early \/ DOMAIN early'[h] = {}
    <3>1. \A h \in 1..n + 1 : h \in 1..n \/ h = n + 1
      BY <1>4
    <3> QED BY <1>7, <2>0, <2>1, <3>1, Zenon
  <2>3. \A h \in DOMAIN early : early'[h] = early[h] /\ hellos'[h] = hellos[h]
    BY <1>6, <1>7, <2>1, Zenon
  <2>4. AgainOnlyLate'
    <3>1. ASSUME NEW h \in Guarded', NEW i \in DOMAIN early'[h], NEW j \in DOMAIN early'[h], i < j
          PROVE  /\ early'[h][j] > Until(early'[h][i])
                 /\ Window % Second = 0 => hellos'[h].sent > WholeSeconds(early'[h][i])
      <4>1. h \in Guarded /\ early'[h] = early[h] /\ hellos'[h] = hellos[h]
        BY <2>2, <2>3, Zenon DEF Guarded
      <4> QED BY <3>1, <4>1, Zenon DEF TicketsInv, EarlyInv, AgainOnlyLate
    <3> QED BY <3>1, Zenon DEF AgainOnlyLate, Until, WholeSeconds
  <2>5. Remembered'
    <3>1. ASSUME NEW h \in Guarded', NEW i \in DOMAIN early'[h]
          PROVE  \/ now > Until(early'[h][i])
                 \/ \E e \in seen : e.hello = h /\ e.expiry >= Until(early'[h][i])
      <4>1. h \in Guarded /\ early'[h] = early[h]
        BY <2>2, <2>3, Zenon DEF Guarded
      <4> QED BY <3>1, <4>1, Zenon DEF TicketsInv, EarlyInv, Remembered
    <3> QED BY <3>1, Zenon DEF Remembered, Until, WholeSeconds
  <2> QED BY <2>4, <2>5, Zenon
<1>12. AcceptedFresh'
  <2>1. now <= now /\ DOMAIN <<>> = {}
    BY <1>4
  <2> QED BY <1>4, <1>6, <1>7, <1>8, <1>9, <2>1, Zenon DEF TicketsInv, EarlyInv, AcceptedFresh
<1>13. \A h \in DOMAIN hellos : hellos[h].ticket # t
  BY Zenon DEF TicketsInv, OnePlace, StoredUnused
<1>14. TicketOnce'
  BY <1>4, <1>6, <1>8, <1>9, <1>13, Zenon DEF TicketsInv, TicketOnce
<1>15. \A q \in Remotes : \A i \in DOMAIN storage'[q] : storage'[q][i] # t
  <2>1. ASSUME NEW q \in Remotes, NEW i \in DOMAIN storage'[q], storage'[q][i] = t
        PROVE  FALSE
    <3>1. i \in DOMAIN storage[q] /\ storage[q][i] = storage[r][k] /\ (q = r => i <= k - 1)
      BY <1>3, <2>1, Zenon
    <3>2. q = r /\ i = k
      BY <3>1, OnceStored DEF TicketsInv, OnePlace
    <3> QED BY <1>2, <3>1, <3>2
  <2> QED BY <2>1, Zenon
<1>16. OnTheWay'
  <2>1. \A q \in Remotes : \A i \in DOMAIN storage'[q] : storage'[q][i] \notin transit
    BY <1>3, Zenon DEF TicketsInv, OnePlace, OnTheWay
  <2>2. t \notin transit /\ \A h \in DOMAIN hellos : hellos[h].ticket \notin transit
    BY Zenon DEF TicketsInv, OnePlace, OnTheWay
  <2> QED BY <1>4, <1>6, <1>8, <1>9, <2>1, <2>2, ZenonT(30) DEF OnTheWay
<1>17. StoredUnused'
  <2>1. ASSUME NEW q \in Remotes, NEW i \in DOMAIN storage'[q], NEW h \in DOMAIN hellos'
        PROVE  hellos'[h].ticket # storage'[q][i]
    <3>1. CASE h = n + 1
      BY <1>6, <1>8, <1>15, <3>1, Zenon
    <3>2. CASE h \in DOMAIN hellos
      <4>1. i \in DOMAIN storage[q]
        BY <1>3, Zenon
      <4>2. hellos[h].ticket # storage[q][i]
        BY <3>2, <4>1, Zenon DEF TicketsInv, OnePlace, StoredUnused
      <4> QED BY <1>3, <1>4, <1>6, <3>2, <4>2, Zenon
    <3> QED BY <1>9, <3>1, <3>2, Zenon
  <2> QED BY <2>1, Zenon DEF StoredUnused
<1> QED BY <1>3, <1>10, <1>11, <1>12, <1>14, <1>16, <1>17, Zenon DEF TicketsInv, EarlyInv, OnePlace

\* A new connection, with or without early data.
LEMMA ConnectKeeps ==
    ASSUME TicketsInv, NEW r \in Remotes, NEW loads \in BOOLEAN, Connect(r, loads)
    PROVE  TicketsInv'
<1>1. /\ UNCHANGED <<now, issued, transit, seen, last_cleanup, unguarded>>
      /\ \/ storage' = [storage EXCEPT ![r] = <<>>] /\ UNCHANGED <<hellos, early>>
         \/ \E i \in DOMAIN storage[r] :
               /\ storage' = [storage EXCEPT ![r] = SubSeq(storage[r], 1, i - 1)]
               /\ UNCHANGED <<hellos, early>> \/ Attempts(r, storage[r][i])
  BY ConnectDoes, Zenon DEF TicketsInv
<1>2. storage[r] \in Seq(Tickets)
  BY Zenon DEF TicketsInv, TicketsType
<1>3. SubSeq(storage[r], 1, 0) = <<>> /\ 0 <= Len(storage[r]) /\ 0 \in Nat
  BY <1>2
<1>4. CASE storage' = [storage EXCEPT ![r] = <<>>] /\ UNCHANGED <<hellos, early>>
  BY <1>1, <1>3, <1>4, CutKeeps, Zenon
<1>5. ASSUME NEW i \in DOMAIN storage[r], storage' = [storage EXCEPT ![r] = SubSeq(storage[r], 1, i - 1)],
             UNCHANGED <<hellos, early>> \/ Attempts(r, storage[r][i])
      PROVE  TicketsInv'
  <2>1. i - 1 \in Nat /\ i - 1 <= Len(storage[r])
    BY <1>2
  <2>2. CASE UNCHANGED <<hellos, early>>
    BY <1>1, <1>5, <2>1, <2>2, CutKeeps, Zenon
  <2>3. CASE Attempts(r, storage[r][i])
    BY <1>1, <1>5, <2>3, AttemptKeeps, Zenon
  <2> QED BY <1>5, <2>2, <2>3, Zenon
<1> QED BY <1>1, <1>4, <1>5, Zenon

\* Early data is accepted now.
Accepts(h) == early' = [early EXCEPT ![h] = Append(@, now)]
LEMMA AcceptsNow ==
    ASSUME TicketsType, NEW h \in DOMAIN hellos, Accepts(h)
    PROVE  /\ early' \in [DOMAIN hellos -> Seq(0..MaxTime)]
           /\ \A g \in DOMAIN hellos : g # h => early'[g] = early[g]
           /\ \A i \in DOMAIN early'[h] : \/ i \in DOMAIN early[h] /\ early'[h][i] = early[h][i]
                                          \/ early'[h][i] = now /\ \A j \in DOMAIN early'[h] : j <= i
<1>1. early \in [DOMAIN hellos -> Seq(0..MaxTime)] /\ now \in 0..MaxTime
  BY Zenon DEF TicketsType
<1> DEFINE s == early[h]
<1>2. s \in Seq(0..MaxTime)
  BY <1>1, Zenon
<1>3. /\ early' = [early EXCEPT ![h] = Append(s, now)] /\ early'[h] = Append(s, now)
      /\ \A g \in DOMAIN hellos : g # h => early'[g] = early[g]
  BY <1>1, Zenon DEF Accepts
<1> HIDE DEF s
<1>4. /\ Append(s, now) \in Seq(0..MaxTime) /\ DOMAIN Append(s, now) = 1..Len(s) + 1
      /\ Append(s, now)[Len(s) + 1] = now /\ \A i \in 1..Len(s) : Append(s, now)[i] = s[i]
      /\ Len(s) \in Nat /\ DOMAIN s = 1..Len(s)
  <2>1. Len(s) \in Nat /\ DOMAIN s = 1..Len(s)
    BY <1>2, SeqParts, Zenon
  <2> QED BY <1>1, <1>2, <2>1, Appended
<1>5. early' \in [DOMAIN hellos -> Seq(0..MaxTime)]
  BY <1>1, <1>3, <1>4, Zenon
<1>6. \A i \in 1..Len(s) + 1 : i \in 1..Len(s) \/ (i = Len(s) + 1 /\ \A j \in 1..Len(s) + 1 : j <= i)
  BY <1>4
<1> QED BY <1>3, <1>4, <1>5, <1>6, Zenon DEF s

\* ... and it is fresh.
LEMMA FreshNow ==
    ASSUME TicketsInv, NEW h \in DOMAIN hellos, Fresh(h), Accepts(h), UNCHANGED <<now, hellos>>
    PROVE  AcceptedFresh'
<1>1. /\ \A g \in DOMAIN hellos : g # h => early'[g] = early[g]
      /\ \A i \in DOMAIN early'[h] : (i \in DOMAIN early[h] /\ early'[h][i] = early[h][i]) \/ early'[h][i] = now
  BY AcceptsNow, Zenon DEF TicketsInv
<1>2. now \in hellos[h].sent..now /\ now <= hellos[h].sent + Window
  <2>1. now <= hellos[h].sent + Window /\ hellos[h].sent <= now
    BY Zenon DEF TicketsInv, EarlyInv, AcceptedFresh, Fresh
  <2>2. hellos[h].sent \in 0..MaxTime /\ now \in Nat
    BY HelloTypes, Zenon DEF TicketsInv
  <2> QED BY <2>1, <2>2
<1>3. ASSUME NEW g \in DOMAIN hellos
      PROVE  /\ hellos[g].sent <= now
             /\ \A i \in DOMAIN early'[g] :
                  early'[g][i] \in hellos[g].sent..now /\ early'[g][i] <= hellos[g].sent + Window
  <2>1. /\ hellos[g].sent <= now
        /\ \A i \in DOMAIN early[g] :
             early[g][i] \in hellos[g].sent..now /\ early[g][i] <= hellos[g].sent + Window
    BY Zenon DEF TicketsInv, EarlyInv, AcceptedFresh
  <2>2. CASE g = h
    BY <1>1, <1>2, <2>1, <2>2, Zenon
  <2>3. CASE g # h
    BY <1>1, <2>1, <2>3, Zenon
  <2> QED BY <2>2, <2>3, Zenon
<1> QED BY <1>3, Zenon DEF AcceptedFresh

\* The callback throws.
LEMMA ThrewKeeps ==
    ASSUME TicketsInv, NEW h \in DOMAIN hellos, Threw(h), UNCHANGED <<now, issued, transit, storage, hellos>>
    PROVE  TicketsInv'
<1>1. /\ Fresh(h) /\ Accepts(h) /\ unguarded' = unguarded \cup {h} /\ UNCHANGED <<seen, last_cleanup>>
  BY Zenon DEF Threw, Accepts
<1>2. /\ early' \in [DOMAIN hellos -> Seq(0..MaxTime)] /\ \A g \in DOMAIN hellos : g # h => early'[g] = early[g]
      /\ DOMAIN early = DOMAIN hellos /\ unguarded \subseteq DOMAIN hellos
  BY <1>1, AcceptsNow, HelloTypes, Zenon DEF TicketsInv, TicketsType
<1>3. TicketsType'
  BY <1>1, <1>2, Zenon DEF TicketsInv, TicketsType
<1>4. \A g \in Guarded' : g \in Guarded /\ early'[g] = early[g]
  BY <1>1, <1>2, Zenon DEF Guarded
<1>5. AgainOnlyLate'
  BY <1>4, Zenon DEF TicketsInv, EarlyInv, AgainOnlyLate, Until, WholeSeconds
<1>6. Remembered'
  BY <1>1, <1>4, Zenon DEF TicketsInv, EarlyInv, Remembered, Until, WholeSeconds
<1>7. AcceptedFresh'
  BY <1>1, FreshNow, Zenon
<1>8. TicketOnce' /\ OnePlace'
  BY PlaceKept, Zenon DEF TicketsInv, TicketOnce
<1> QED BY <1>3, <1>5, <1>6, <1>7, <1>8, Zenon DEF TicketsInv, EarlyInv

\* The storage is asked: it accepts what it does not know, and cleans up what is past its time.
LEMMA AskedKeeps ==
    ASSUME TicketsInv, NEW h \in DOMAIN hellos, Asked(h), UNCHANGED <<now, issued, transit, storage, hellos>>
    PROVE  TicketsInv'
<1> DEFINE known == ~\A e \in seen : e.hello # h
           entry == [hello |-> h, expiry |-> Until(now)]
           added == IF known THEN seen ELSE seen \cup {entry}
<1>1. /\ Fresh(h) /\ UNCHANGED unguarded
      /\ seen' = IF CleanupDue THEN Cleanup(added) ELSE added
      /\ last_cleanup' = IF CleanupDue THEN now ELSE last_cleanup
      /\ known => UNCHANGED early
      /\ ~known => Accepts(h)
  BY Zenon DEF Asked, default_anti_replay_add, Until, Accepts
<1> HIDE DEF known
<1>2. /\ now \in Nat /\ now \in 0..MaxTime /\ last_cleanup \in 0..MaxTime
      /\ seen \subseteq [hello : DOMAIN hellos, expiry : Nat]
      /\ early \in [DOMAIN hellos -> Seq(0..MaxTime)] /\ DOMAIN early = DOMAIN hellos
  BY HelloTypes, Zenon DEF TicketsInv, TicketsType
<1>3. entry \in [hello : DOMAIN hellos, expiry : Nat] /\ entry.hello = h /\ entry.expiry = Until(now)
  <2>1. Until(now) \in Nat
    BY <1>2, WholeNat, Zenon
  <2> QED BY <2>1, Zenon
<1> HIDE DEF entry
<1>4. /\ seen' \subseteq added /\ added \subseteq [hello : DOMAIN hellos, expiry : Nat] /\ seen \subseteq added
      /\ \A e \in added : e \in seen' \/ ~(e.expiry >= now)
  BY <1>1, <1>2, <1>3, Zenon DEF Cleanup
<1>5. /\ early' \in [DOMAIN hellos -> Seq(0..MaxTime)] /\ DOMAIN early' = DOMAIN hellos
      /\ \A g \in DOMAIN hellos : g # h => early'[g] = early[g]
  BY <1>1, <1>2, AcceptsNow, Zenon DEF TicketsInv
<1>6. TicketsType'
  <2>1. seen' \subseteq [hello : DOMAIN hellos, expiry : Nat] /\ last_cleanup' \in 0..MaxTime
    BY <1>1, <1>2, <1>4, Zenon
  <2> QED BY <1>1, <1>5, <2>1, Zenon DEF TicketsInv, TicketsType
<1>7. \A g \in Guarded' : g \in Guarded /\ g \in DOMAIN hellos
  BY <1>1, <1>2, <1>5, Zenon DEF Guarded
<1>8. \A i \in DOMAIN early'[h] :
         \/ i \in DOMAIN early[h] /\ early'[h][i] = early[h][i]
         \/ ~known /\ early'[h][i] = now /\ \A j \in DOMAIN early'[h] : j <= i
  BY <1>1, AcceptsNow, Zenon DEF TicketsInv
<1>9. ASSUME ~known, h \in Guarded, NEW i \in DOMAIN early[h]
      PROVE  now > Until(early[h][i]) /\ (Window % Second = 0 => hellos[h].sent > WholeSeconds(early[h][i]))
  <2>1. now > Until(early[h][i])
    BY <1>9, Zenon DEF TicketsInv, EarlyInv, Remembered, known
  <2>2. now <= hellos[h].sent + Window
    BY <1>1, Zenon DEF Fresh
  <2>3. early[h][i] \in Nat /\ hellos[h].sent \in 0..MaxTime
    BY HelloTypes, Zenon DEF TicketsInv
  <2>4. WholeSeconds(early[h][i]) \in Nat /\ (Window % Second = 0 => WholeSeconds(Window) = Window)
    BY <2>3, WholeNat, Zenon
  <2>5. now > WholeSeconds(early[h][i]) + WholeSeconds(Window)
    BY <2>1, Zenon DEF Until
  <2>6. ASSUME Window % Second = 0 PROVE hellos[h].sent > WholeSeconds(early[h][i])
    <3>1. now > WholeSeconds(early[h][i]) + Window
      BY <2>4, <2>5, <2>6, Zenon
    <3>2. \A a, b, c, d \in Nat : a > b + c /\ a <= d + c => d > b
      OBVIOUS
    <3>3. hellos[h].sent \in Nat
      BY <2>3
    <3> QED BY <1>2, <2>2, <2>4, <3>1, <3>2, <3>3, TicketsNat, Zenon
  <2> QED BY <2>1, <2>6, Zenon
<1>10. AgainOnlyLate'
  <2>1. ASSUME NEW g \in Guarded', NEW i \in DOMAIN early'[g], NEW j \in DOMAIN early'[g], i < j
        PROVE  /\ early'[g][j] > Until(early'[g][i])
               /\ Window % Second = 0 => hellos[g].sent > WholeSeconds(early'[g][i])
    <3>1. \A k \in DOMAIN early[g], l \in DOMAIN early[g] : k < l =>
             /\ early[g][l] > Until(early[g][k])
             /\ Window % Second = 0 => hellos[g].sent > WholeSeconds(early[g][k])
      BY <1>7, Zenon DEF TicketsInv, EarlyInv, AgainOnlyLate
    <3>2. CASE g # h
      BY <1>5, <1>7, <2>1, <3>1, <3>2, Zenon
    <3>3. CASE g = h
      <4>1. early'[h] \in Seq(0..MaxTime)
        BY <1>5, Zenon
      <4>2. DOMAIN early'[h] = 1..Len(early'[h]) /\ Len(early'[h]) \in Nat
        BY <4>1, SeqParts, Zenon
      <4>3. ~(j <= i)
        BY <2>1, <3>3, <4>2
      <4>4. i \in DOMAIN early[h] /\ early'[h][i] = early[h][i]
        BY <1>8, <2>1, <3>3, <4>3, Zenon
      <4>5. CASE j \in DOMAIN early[h] /\ early'[h][j] = early[h][j]
        BY <2>1, <3>1, <3>3, <4>4, <4>5, Zenon
      <4>6. CASE ~known /\ early'[h][j] = now
        BY <1>7, <1>9, <3>3, <4>4, <4>6, Zenon
      <4> QED BY <1>8, <3>3, <4>5, <4>6, Zenon
    <3> QED BY <3>2, <3>3, Zenon
  <2> QED BY <2>1, Zenon DEF AgainOnlyLate, Until, WholeSeconds
<1>11. Remembered'
  <2>1. ASSUME NEW g \in Guarded', NEW i \in DOMAIN early'[g]
        PROVE  \/ now > Until(early'[g][i])
               \/ \E e \in added : e.hello = g /\ e.expiry >= Until(early'[g][i])
    <3>1. ASSUME i \in DOMAIN early[g], early'[g][i] = early[g][i]
          PROVE  \/ now > Until(early'[g][i])
                 \/ \E e \in added : e.hello = g /\ e.expiry >= Until(early'[g][i])
      BY <1>4, <1>7, <3>1, Zenon DEF TicketsInv, EarlyInv, Remembered
    <3>2. CASE g # h
      BY <1>5, <1>7, <3>1, <3>2, Zenon
    <3>3. CASE g = h /\ ~known /\ early'[h][i] = now
      <4>1. entry \in added
        BY <3>3, Zenon
      <4>2. Until(now) >= Until(now)
        BY <1>2, WholeNat
      <4> QED BY <1>3, <3>3, <4>1, <4>2, Zenon
    <3> QED BY <1>8, <3>1, <3>2, <3>3, Zenon
  <2>2. ASSUME NEW g \in Guarded', NEW i \in DOMAIN early'[g]
        PROVE  \/ now > Until(early'[g][i])
               \/ \E e \in seen' : e.hello = g /\ e.expiry >= Until(early'[g][i])
    <3>1. CASE now > Until(early'[g][i])
      BY <3>1, Zenon
    <3>2. ASSUME NEW e \in added, e.hello = g, e.expiry >= Until(early'[g][i]), ~(e.expiry >= now)
          PROVE  now > Until(early'[g][i])
      <4>1. e.expiry \in Nat
        BY <1>4, Zenon
      <4>2. early'[g] \in Seq(0..MaxTime)
        BY <1>5, <1>7, Zenon
      <4>3. early'[g][i] \in 0..MaxTime
        BY <4>2, SeqParts, Zenon
      <4>4. early'[g][i] \in Nat
        BY <4>3
      <4>5. Until(early'[g][i]) \in Nat
        BY <4>4, WholeNat, Zenon
      <4> QED BY <1>2, <3>2, <4>1, <4>5
    <3> QED BY <1>4, <2>1, <3>1, <3>2, Zenon
  <2> QED BY <2>2, Zenon DEF Remembered, Until, WholeSeconds
<1>12. AcceptedFresh'
  <2>1. CASE known
    BY <1>1, <2>1 DEF TicketsInv, EarlyInv, AcceptedFresh
  <2>2. CASE ~known
    BY <1>1, <2>2, FreshNow, Zenon
  <2> QED BY <2>1, <2>2, Zenon
<1>13. TicketOnce' /\ OnePlace'
  BY PlaceKept, Zenon DEF TicketsInv, TicketOnce
<1> QED BY <1>6, <1>10, <1>11, <1>12, <1>13, Zenon DEF TicketsInv, EarlyInv

\* A hello arrives, for the first time or again.
LEMMA ReplayKeeps ==
    ASSUME TicketsInv, NEW h \in DOMAIN hellos, anti_replay_store(h)
    PROVE  TicketsInv'
<1>1. UNCHANGED <<now, issued, transit, storage, hellos>>
  BY Zenon DEF anti_replay_store
<1>2. CASE Refused(h)
  <2>1. UNCHANGED <<seen, last_cleanup, early, unguarded>>
    BY <1>2, Zenon DEF Refused
  <2>2. TicketsType'
    BY <1>1, <2>1, Zenon DEF TicketsInv, TicketsType
  <2>3. EarlyInv' /\ TicketOnce' /\ OnePlace'
    BY <1>1, <2>1, EarlyKept, PlaceKept, Zenon DEF TicketsInv, TicketOnce
  <2> QED BY <2>2, <2>3, Zenon DEF TicketsInv
<1> QED BY <1>1, <1>2, AskedKeeps, ThrewKeeps, Zenon DEF anti_replay_store

\* Every step keeps the invariant.
LEMMA TicketsNextKeeps == TicketsInv /\ [TicketsNext]_ticketVars => TicketsInv'
<1> SUFFICES ASSUME TicketsInv, [TicketsNext]_ticketVars PROVE TicketsInv'
  BY Zenon
<1>1. CASE UNCHANGED ticketVars
  <2>1. UNCHANGED <<now, issued, transit, storage, hellos, seen, last_cleanup, early, unguarded>>
    BY <1>1, Zenon DEF ticketVars
  <2>2. TicketsType'
    BY <2>1, Zenon DEF TicketsInv, TicketsType
  <2>3. EarlyInv' /\ TicketOnce' /\ OnePlace'
    BY <2>1, EarlyKept, PlaceKept, Zenon DEF TicketsInv, TicketOnce
  <2> QED BY <2>2, <2>3, Zenon DEF TicketsInv
<1>2. CASE TicketsNext
  BY <1>2, TickKeeps, IssueKeeps, ConnectKeeps, ArriveKeeps, LoseKeeps, ReplayKeeps, Zenon DEF TicketsNext
<1> QED BY <1>1, <1>2, Zenon

\* However often and however late the network delivers a ClientHello again, its early data is not
\* accepted a second time before the time that GnuTLS gave anti_replay_store for its entry has
\* passed, unless the callback threw; with a window of whole seconds that leaves only a hello first
\* accepted in the second it was sent in.  And the client attempts early data at most once with a
\* ticket, whatever is stored, truncated, extracted or lost in between.
THEOREM EarlyReplaysAreBounded == TicketsSpec => []ReplaysBounded
<1>1. TicketsInv => ReplaysBounded
  BY Zenon DEF TicketsInv, EarlyInv, ReplaysBounded
<1> QED BY <1>1, TicketsStart, TicketsNextKeeps, PTL DEF TicketsSpec
=============================================================================

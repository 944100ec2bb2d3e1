------------------------------ MODULE ConnLookup ------------------------------
(***************************************************************************)
(* How an endpoint finds the connection a packet is for                    *)
(* (src/src/endpoint.cpp): conn_lookup from connection IDs to reference    *)
(* IDs, conns from those to connections, the connections' own lists of     *)
(* their IDs, a one-entry cache of the last lookup, and the stateless      *)
(* reset tokens of the peers.                                              *)
(***************************************************************************)
EXTENDS Integers, FiniteSets

CONSTANTS
    MaxConns,       \* bound: connections made
    RandomCids,     \* connection IDs this endpoint draws
    ClientCids,     \* initial connection IDs that clients choose
    Tokens,         \* stateless reset tokens of the peers
    None,
    Collide,        \* a drawn connection ID may be one that a client chose
    Throws          \* constructing a connection may fail

Rids == 1..MaxConns
Cids == RandomCids \cup ClientCids

ASSUME LookupAssumption == MaxConns \in Nat /\ {Collide, Throws} \subseteq BOOLEAN /\ None \notin Rids

VARIABLES
    next_rid, listening,
    conns,              \* per reference ID: no entry, an empty one, or a connection
    conn_lookup,        \* per connection ID: a reference ID, or None
    _last_lookup,       \* the cache: <<connection ID, reference ID>>, or None
    reset_token_conns,
    _associated_cids, _associated_resets,   \* of each connection
    initial_dcid,       \* of each accepted connection whose handshake is not completed
    reused,             \* history: tokens given to a connection while another listed them
    answer              \* what became of the last packet: <<what, its DCID>>

owned == <<_associated_cids, _associated_resets, reused, initial_dcid>>
vars == <<next_rid, listening, conns, conn_lookup, _last_lookup, reset_token_conns, owned, answer>>

Init ==
    /\ next_rid = 1 /\ listening = FALSE
    /\ conns = [r \in Rids |-> "none"]
    /\ conn_lookup = [k \in Cids |-> None] /\ _last_lookup = None
    /\ reset_token_conns = [t \in Tokens |-> None]
    /\ _associated_cids = [r \in Rids |-> {}] /\ _associated_resets = [r \in Rids |-> {}]
    /\ initial_dcid = [r \in Rids |-> None] /\ reused = {}
    /\ answer = None

Live(r) == conns[r] = "conn"

\* quic_cid::random for a new connection: drawn until it is not in use.
FreshCids == {k \in RandomCids \cup (IF Collide THEN ClientCids ELSE {}) : conn_lookup[k] = None}

-----------------------------------------------------------------------------
(* Connections made.                                                       *)

listen ==
    /\ ~listening /\ listening' = TRUE
    /\ UNCHANGED <<next_rid, conns, conn_lookup, _last_lookup, reset_token_conns, owned, answer>>

\* _connect: a failure takes both entries back.
_connect ==
    /\ next_rid <= MaxConns /\ next_rid' = next_rid + 1
    /\ \/ \E k \in FreshCids :
             /\ conns' = [conns EXCEPT ![next_rid] = "conn"]
             /\ conn_lookup' = [conn_lookup EXCEPT ![k] = next_rid]
             /\ _associated_cids' = [_associated_cids EXCEPT ![next_rid] = {k}]
             /\ UNCHANGED _last_lookup
       \/ /\ Throws /\ _last_lookup' = None
          /\ UNCHANGED <<conns, conn_lookup, _associated_cids>>
    /\ UNCHANGED <<listening, reset_token_conns, _associated_resets, reused, initial_dcid, answer>>

\* accept_initial_connection and then, as the new connection reads the packet,
\* associate_initial_dcid for the client's choice d: only if it is not in use.
AcceptMutant(k, d) ==   \* lists the client's choice without a lookup entry
    /\ conns' = [conns EXCEPT ![next_rid] = "conn"]
    /\ conn_lookup' = [conn_lookup EXCEPT ![k] = next_rid]
    /\ _associated_cids' = [_associated_cids EXCEPT ![next_rid] = {k, d}]
    /\ initial_dcid' = [initial_dcid EXCEPT ![next_rid] = d]
Accept(k, d) ==
    LET lookup == [conn_lookup EXCEPT ![k] = next_rid]
        inserted == lookup[d] = None
    IN  /\ conns' = [conns EXCEPT ![next_rid] = "conn"]
        /\ conn_lookup' = IF inserted THEN [lookup EXCEPT ![d] = next_rid] ELSE lookup
        /\ _associated_cids' = [_associated_cids EXCEPT ![next_rid] = IF inserted THEN {k, d} ELSE {k}]
        /\ initial_dcid' = [initial_dcid EXCEPT ![next_rid] = d]

-----------------------------------------------------------------------------
(* A packet arrives.                                                       *)

\* fetch_associated_conn: the connection it finds, and the cache afterwards.
Found(k) ==
    IF _last_lookup # None /\ _last_lookup[1] = k THEN _last_lookup[2]
    ELSE IF conn_lookup[k] # None /\ Live(conn_lookup[k]) THEN conn_lookup[k] ELSE None

\* check_stateless_reset: the token at the end of the packet names a connection.
ResetToken(t) == t # None /\ reset_token_conns[t] # None /\ Live(reset_token_conns[t])

handle_packet(k) ==
    \/ /\ Found(k) # None
       /\ _last_lookup' = <<k, Found(k)>>
       /\ answer' = <<"routed", k>>
       /\ UNCHANGED <<next_rid, conns, conn_lookup, reset_token_conns, owned>>
    \/ \* an Initial without a token, or with a good one
       /\ Found(k) = None /\ listening /\ k \in ClientCids /\ next_rid <= MaxConns
       /\ next_rid' = next_rid + 1
       /\ \/ \E s \in FreshCids : Accept(s, k) /\ answer' = <<"accepted", k>>
          \/ \E s \in FreshCids :
                /\ Throws   \* the exception leaves both entries behind
                /\ conns' = [conns EXCEPT ![next_rid] = "empty"]
                /\ conn_lookup' = [conn_lookup EXCEPT ![s] = next_rid]
                /\ answer' = <<"threw", k>> /\ UNCHANGED <<_associated_cids, initial_dcid>>
       /\ UNCHANGED <<_last_lookup, reset_token_conns, _associated_resets, reused>>
    \/ \* an Initial with a bad token: a Retry, or a stateless close
       /\ Found(k) = None /\ listening /\ k \in ClientCids
       /\ answer' = <<"refused", k>>
       /\ UNCHANGED <<next_rid, conns, conn_lookup, _last_lookup, reset_token_conns, owned>>
    \/ \* not an Initial: a stateless reset for us, or we send one
       /\ Found(k) = None
       /\ \E t \in Tokens \cup {None} :
             /\ answer' = <<IF ResetToken(t) THEN "reset read" ELSE "reset sent", k>>
             /\ reset_token_conns' =
                  IF t # None /\ ~ResetToken(t) THEN [reset_token_conns EXCEPT ![t] = None] ELSE reset_token_conns
       /\ UNCHANGED <<next_rid, conns, conn_lookup, _last_lookup, owned>>
HandlePacket == \E k \in Cids : handle_packet(k) /\ UNCHANGED listening

-----------------------------------------------------------------------------
(* What ngtcp2 asks for a live connection, and its end.                    *)

\* get_new_connection_id: associate_cid.
get_new_connection_id(r) ==
    /\ Live(r)
    /\ \E k \in FreshCids \cup (IF Collide THEN {initial_dcid[q] : q \in Rids} \ {None} ELSE {}) :
          /\ conn_lookup' = IF conn_lookup[k] = None THEN [conn_lookup EXCEPT ![k] = r] ELSE conn_lookup
          /\ _associated_cids' = [_associated_cids EXCEPT ![r] = @ \cup {k}]
    /\ UNCHANGED <<next_rid, listening, conns, _last_lookup, reset_token_conns, _associated_resets, reused, initial_dcid, answer>>

dissociate_cidMutant(r, k) ==   \* keeps the cached lookup
    /\ conn_lookup' = [conn_lookup EXCEPT ![k] = None]
    /\ _associated_cids' = [_associated_cids EXCEPT ![r] = @ \ {k}]
    /\ UNCHANGED _last_lookup
dissociate_cid(r, k) ==
    /\ conn_lookup' = [conn_lookup EXCEPT ![k] = None]
    /\ _associated_cids' = [_associated_cids EXCEPT ![r] = @ \ {k}]
    /\ _last_lookup' = None

\* remove_connection_id: the peer has retired one of our connection IDs; ngtcp2
\* keeps at least one.
remove_connection_id(r) ==
    /\ Live(r)
    /\ \E k \in _associated_cids[r] \ {initial_dcid[r]} :
          /\ _associated_cids[r] \ {k, initial_dcid[r]} # {}
          /\ dissociate_cid(r, k)
    /\ UNCHANGED <<next_rid, listening, conns, reset_token_conns, _associated_resets, reused, initial_dcid, answer>>

\* server_handshake_completed: the client's initial choice is no longer used.
server_handshake_completed(r) ==
    /\ Live(r) /\ initial_dcid[r] # None
    /\ initial_dcid' = [initial_dcid EXCEPT ![r] = None]
    /\ IF initial_dcid[r] \in _associated_cids[r] THEN dissociate_cid(r, initial_dcid[r])
       ELSE UNCHANGED <<conn_lookup, _associated_cids, _last_lookup>>
    /\ UNCHANGED <<next_rid, listening, conns, reset_token_conns, _associated_resets, reused, answer>>

\* on_connection_id_status: associate_reset overwrites the entry of a token that is
\* in use, dissociate_reset takes the entry out whichever connection it leads to.
associate_reset(r, t) ==
    /\ Live(r)
    /\ reused' = IF \E q \in Rids \ {r} : t \in _associated_resets[q] THEN reused \cup {t} ELSE reused
    /\ reset_token_conns' = [reset_token_conns EXCEPT ![t] = r]
    /\ _associated_resets' = [_associated_resets EXCEPT ![r] = @ \cup {t}]
    /\ UNCHANGED <<next_rid, listening, conns, conn_lookup, _last_lookup, _associated_cids, initial_dcid, answer>>
dissociate_reset(r, t) ==
    /\ Live(r) /\ t \in _associated_resets[r]
    /\ reset_token_conns' = [reset_token_conns EXCEPT ![t] = None]
    /\ _associated_resets' = [_associated_resets EXCEPT ![r] = @ \ {t}]
    /\ UNCHANGED <<next_rid, listening, conns, conn_lookup, _last_lookup, _associated_cids, reused, initial_dcid, answer>>

\* delete_connection.  (Closing and draining connections are still in the maps.)
delete_connection(r) ==
    /\ Live(r)
    /\ conns' = [conns EXCEPT ![r] = "none"]
    /\ conn_lookup' = [k \in Cids |-> IF k \in _associated_cids[r] THEN None ELSE conn_lookup[k]]
    /\ _associated_cids' = [_associated_cids EXCEPT ![r] = {}]
    /\ _last_lookup' = None
    /\ reset_token_conns' =
         [t \in Tokens |-> IF t \in _associated_resets[r] THEN None ELSE reset_token_conns[t]]
    /\ initial_dcid' = [initial_dcid EXCEPT ![r] = None]               \* with the
    /\ _associated_resets' = [_associated_resets EXCEPT ![r] = {}]     \* connection
    /\ UNCHANGED <<next_rid, listening, reused, answer>>

Next ==
    \/ listen \/ _connect \/ HandlePacket
    \/ \E r \in Rids :
          \/ get_new_connection_id(r) \/ remove_connection_id(r) \/ server_handshake_completed(r)
          \/ \E t \in Tokens : associate_reset(r, t) \/ dissociate_reset(r, t)
          \/ delete_connection(r)

Spec == Init /\ [][Next]_vars

-----------------------------------------------------------------------------
(* Properties.                                                             *)

TypeOK ==
    /\ next_rid \in 1..MaxConns + 1 /\ listening \in BOOLEAN
    /\ conns \in [Rids -> {"none", "empty", "conn"}]
    /\ conn_lookup \in [Cids -> Rids \cup {None}] /\ _last_lookup \in (Cids \X Rids) \cup {None}
    /\ reset_token_conns \in [Tokens -> Rids \cup {None}]
    /\ _associated_cids \in [Rids -> SUBSET Cids] /\ _associated_resets \in [Rids -> SUBSET Tokens]
    /\ initial_dcid \in [Rids -> Cids \cup {None}] /\ reused \subseteq Tokens
    /\ answer = None \/ answer[2] \in Cids

\* The lookup and the connections' own lists agree: every ID a connection lists
\* leads to it, and every entry leads to a connection that lists it, or to what a
\* failed constructor left behind.
LookupExact ==
    \A k \in Cids, r \in Rids :
      /\ Live(r) => (conn_lookup[k] = r <=> k \in _associated_cids[r])
      /\ conn_lookup[k] = r => conns[r] # "none"

\* "Has to be forgotten whenever an entry leaves either map": the cached lookup is
\* always what the maps would say.
CacheExact == _last_lookup # None => Live(_last_lookup[2]) /\ conn_lookup[_last_lookup[1]] = _last_lookup[2]

\* No reset token outlives its connection: one that has an entry leads to a live
\* connection that lists it.  Every token a connection lists leads to it as well,
\* unless the token was also given to another connection: then associate_reset has
\* overwritten its entry, and the end of either connection takes out the other's.
TokensExact ==
    \A t \in Tokens, r \in Rids :
      /\ reset_token_conns[t] = r => Live(r) /\ t \in _associated_resets[r]
      /\ Live(r) /\ t \in _associated_resets[r] => reset_token_conns[t] = r \/ t \in reused

\* Reference IDs not given out yet have no entry, and only connections have IDs,
\* tokens and an initial choice of their client.
OnlyLiveOwn ==
    /\ \A r \in Rids : r >= next_rid => conns[r] = "none"
    /\ \A r \in Rids : ~Live(r) =>
         _associated_cids[r] = {} /\ _associated_resets[r] = {} /\ initial_dcid[r] = None

\* The inductive invariant: the four tables agree whatever is accepted, retired,
\* deleted or half constructed.
LookupInv == TypeOK /\ LookupExact /\ CacheExact /\ TokensExact /\ OnlyLiveOwn

\* A stateless reset is only sent for a connection ID that no connection lists:
\* sent to a peer of ours it would end the connection.
ResetsOnlyUnknown ==
    answer'[1] = "reset sent" => \A r \in Rids : Live(r) => answer'[2] \notin _associated_cids[r]
NeverResetOwn == [][HandlePacket => ResetsOnlyUnknown]_vars
=============================================================================

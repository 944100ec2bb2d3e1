----------------------------- MODULE Migration -----------------------------
(***************************************************************************)
(* How an outbound connection follows the host from network to network     *)
(* (connection.cpp: check_local_address, migrate, local_address_mismatch,  *)
(* packet_too_big, send_unreachable; endpoint.cpp: network_changed,        *)
(* handle_packet, route_to).                                               *)
(*                                                                         *)
(* _path.local is the connection's label for the network it is on: its     *)
(* sends do not pin a source address, so packets leave from wherever the   *)
(* host routes them, and the connection has to find out that this changed. *)
(* ngtcp2 is external: it migrates once the handshake is confirmed and     *)
(* needs a spare connection ID each time, which only packets from the peer *)
(* bring.                                                                  *)
(***************************************************************************)
EXTENDS Naturals, FiniteSets

CONSTANTS
    Addrs,        \* local addresses of the host
    NAT64,        \* the peer's NAT64 address
    None,         \* std::nullopt
    MaxCids,      \* bound: spare connection IDs ngtcp2 holds
    MaxChanges,   \* bound: changes of the host's network
    Refusals      \* whether ngtcp2 may refuse to migrate (the peer disabled it)

ASSUME MigrationAssumption ==
    /\ MaxCids \in Nat \ {0} /\ MaxChanges \in Nat /\ Refusals \in BOOLEAN
    /\ None \notin Addrs /\ NAT64 # None

VARIABLES
    host,         \* how the host reaches the peer now: a route, or None
    changes,      \* changes of host so far
    told,         \* network_changed() has been called since the last change
    confirmed,    \* handshake_confirmed
    alive,        \* not draining, closing or dead
    path,         \* _path.local and _nat64_path: [local, nat64, nat64_local]
    pending,      \* _pending_route
    unconfirmed,  \* _unconfirmed_local
    ngtcp2,       \* ngtcp2's current local address
    cids,         \* spare connection IDs
    refused,      \* ngtcp2 has refused to migrate
    asked,        \* what the last call of migrate found: "none", "ok", "bad"
    closedBy      \* what closed the connection: None, or [host, path] at that time

env == <<host, changes, told>>
conn == <<path, pending, unconfirmed, ngtcp2, cids, refused, asked>>
vars == <<env, conn, confirmed, alive, closedBy>>

Routes == [local : Addrs, nat64 : {None, NAT64}]

TypeOK ==
    /\ host \in Routes \cup {None} /\ changes \in 0..MaxChanges /\ told \in BOOLEAN
    /\ confirmed \in BOOLEAN /\ alive \in BOOLEAN /\ refused \in BOOLEAN
    /\ path \in [local : Addrs, nat64 : {None, NAT64}, nat64_local : Addrs \cup {None}]
    /\ (path.nat64 = None) = (path.nat64_local = None)
    /\ pending \in Routes \cup {None} /\ unconfirmed \in Addrs \cup {None}
    /\ ngtcp2 \in Addrs /\ cids \in 0..MaxCids /\ asked \in {"none", "ok", "bad"}
    /\ closedBy \in [host : Routes \cup {None}, local : Addrs] \cup {None}

\* A route as set_route stores it.
PathFor(r) == [local |-> r.local, nat64 |-> r.nat64, nat64_local |-> IF r.nat64 = None THEN None ELSE r.local]

\* Endpoint::_connect: the connection starts on the route the host has, or, when there is none, on
\* the address the socket is bound to.
StartRoutes == IF host = None THEN [local : Addrs, nat64 : {None}] ELSE {host}

Init ==
    /\ host \in Routes \cup {None} /\ changes = 0 /\ told = TRUE
    /\ confirmed = FALSE /\ alive = TRUE /\ closedBy = None
    /\ \E r \in StartRoutes : path = PathFor(r) /\ ngtcp2 = r.local
    /\ pending = None /\ unconfirmed = None /\ cids = 0 /\ refused = FALSE /\ asked = "none"

-----------------------------------------------------------------------------
\* The connection's part of the state, as the functions below take and return it.
State == [path |-> path, pending |-> pending, unconfirmed |-> unconfirmed, ngtcp2 |-> ngtcp2,
          cids |-> cids, refused |-> refused, asked |-> asked, alive |-> alive]

Become(s) ==
    /\ path' = s.path /\ pending' = s.pending /\ unconfirmed' = s.unconfirmed
    /\ ngtcp2' = s.ngtcp2 /\ cids' = s.cids /\ refused' = s.refused /\ asked' = s.asked
    /\ alive' = s.alive

set_route(s, r) == [s EXCEPT !.path = PathFor(r)]

\* ngtcp2_conn_initiate_immediate_migration's answers to a request for address a.
initiate_migration(s, a) ==
    IF ~confirmed \/ a = s.ngtcp2 THEN {"bad"}
    ELSE {IF s.cids = 0 THEN "blocked" ELSE "ok"} \cup (IF Refusals THEN {"refused"} ELSE {})

\* The outcomes of migrate(to): the state it leaves and the local_check it returns.
migrate(s, to) ==
    IF ~s.alive THEN {[s |-> [s EXCEPT !.pending = None], check |-> "unchanged"]} ELSE
    {CASE rv = "blocked" -> [s |-> [s EXCEPT !.pending = to], check |-> "pending"]
       [] rv = "ok"      -> [s |-> [set_route(s, to) EXCEPT !.pending = None, !.unconfirmed = None,
                                    !.ngtcp2 = to.local, !.cids = s.cids - 1, !.asked = "ok"],
                             check |-> "migrated"]
       [] OTHER          -> [s |-> [s EXCEPT !.pending = None,
                                    !.refused = (s.refused \/ rv = "refused"),
                                    !.asked = IF rv = "bad" THEN "bad" ELSE s.asked],
                             check |-> "unchanged"]
     : rv \in initiate_migration(s, to.local)}

\* Mutant: the handshake is not looked at.
check_local_address_early(s) ==
    IF ~s.alive \/ host = None THEN {[s |-> s, check |-> "unchanged"]}
    ELSE IF host.local # s.path.local THEN migrate(s, host)
    ELSE IF host.nat64 = s.path.nat64 THEN {[s |-> [s EXCEPT !.pending = None], check |-> "unchanged"]}
    ELSE {[s |-> set_route([s EXCEPT !.pending = None], [local |-> s.path.local, nat64 |-> host.nat64]),
           check |-> "rerouted"]}

check_local_address(s) ==
    IF ~s.alive \/ host = None THEN {[s |-> s, check |-> "unchanged"]}
    ELSE IF host.local # s.path.local /\ confirmed THEN migrate(s, host)
    ELSE IF host.nat64 = s.path.nat64 THEN {[s |-> [s EXCEPT !.pending = None], check |-> "unchanged"]}
    ELSE {[s |-> set_route([s EXCEPT !.pending = None], [local |-> s.path.local, nat64 |-> host.nat64]),
           check |-> "rerouted"]}

\* Mutant: arrivals are checked before the handshake allows a migration.
local_address_mismatch_early(s, arrived_on) ==
    IF arrived_on = s.unconfirmed \/ (s.pending # None /\ arrived_on = s.pending.local)
    THEN {s}
    ELSE {IF c.check = "unchanged" THEN [c.s EXCEPT !.unconfirmed = arrived_on] ELSE c.s
          : c \in check_local_address(s)}

local_address_mismatch(s, arrived_on) ==
    IF ~confirmed \/ arrived_on = s.unconfirmed \/ (s.pending # None /\ arrived_on = s.pending.local)
    THEN {s}
    ELSE {IF c.check = "unchanged" THEN [c.s EXCEPT !.unconfirmed = arrived_on] ELSE c.s
          : c \in check_local_address(s)}

\* handle_packet, up to read_packet: the address a packet arrived on (None: not reported).
Arrives(s, arrived_on) ==
    IF arrived_on = None \/ arrived_on = s.path.local THEN {s} ELSE local_address_mismatch(s, arrived_on)

\* read_packet, after ngtcp2 took the packet: a migration that was waiting is tried again.
TryPending(s) == IF s.pending = None THEN {s} ELSE {c.s : c \in migrate(s, s.pending)}

-----------------------------------------------------------------------------
\* The host moves to another network, or between two.
NetworkChange ==
    /\ changes < MaxChanges
    /\ \E r \in (Routes \cup {None}) \ {host} : host' = r
    /\ changes' = changes + 1
    /\ told' = FALSE
    /\ UNCHANGED <<conn, confirmed, alive, closedBy>>

network_changed ==
    /\ alive
    /\ told' = TRUE
    /\ \E c \in check_local_address([State EXCEPT !.unconfirmed = None]) : Become(c.s)
    /\ UNCHANGED <<host, changes, confirmed, closedBy>>

\* A packet of the peer arrives.  It may confirm the handshake, bring a connection ID, and, through
\* a callback of the application, close the connection while ngtcp2 reads it.
handle_packet(arrived_on, confirms, brings, closes) ==
    /\ alive
    /\ confirmed' = (confirmed \/ confirms)
    /\ \E s1 \in Arrives(State, arrived_on) :
          LET s2 == [s1 EXCEPT !.cids = IF brings /\ @ < MaxCids THEN @ + 1 ELSE @, !.alive = ~closes]
          IN  \E s3 \in TryPending(s2) : Become(s3)
    /\ UNCHANGED <<env, closedBy>>

\* A send was refused as too big.  A PMTUD probe, larger than ngtcp2's confirmed size, is no
\* sign of anything.
packet_too_big ==
    /\ alive
    /\ \E c \in check_local_address(State) :
          /\ Become([c.s EXCEPT !.alive = (c.check # "unchanged")])
          /\ closedBy' = IF c.check = "unchanged" THEN [host |-> host, local |-> path.local] ELSE None
    /\ UNCHANGED <<env, confirmed>>

\* A send found no route; the host may have one again by the time it is looked up.
send_unreachable ==
    /\ alive
    /\ \E c \in check_local_address(State) : Become(c.s)
    /\ UNCHANGED <<env, confirmed, closedBy>>

\* The connection ends for a reason of its own.
Close ==
    /\ alive
    /\ alive' = FALSE
    /\ UNCHANGED <<env, conn, confirmed, closedBy>>

Next ==
    \/ NetworkChange \/ network_changed \/ packet_too_big \/ send_unreachable \/ Close
    \/ \E a \in Addrs \cup {None}, confirms, brings, closes \in BOOLEAN :
          handle_packet(a, confirms, brings, closes)

Spec == Init /\ [][Next]_vars

\* The application reports every change of the network, and while the connection lives packets
\* of the peer keep arriving on the address the host sends from, which confirm the handshake and
\* replace the connection IDs it used.
FairSpec ==
    /\ Spec
    /\ WF_vars(~told /\ network_changed)
    /\ WF_vars(host # None /\ handle_packet(host.local, TRUE, TRUE, FALSE))

-----------------------------------------------------------------------------
\* The path packets are sent on through NAT64 has the connection's own local address, and that
\* is the address ngtcp2 is on: set_route, migrate and ngtcp2 stay in step.
PathsInStep ==
    /\ path.nat64 # None => path.nat64_local = path.local
    /\ path.local = ngtcp2

\* ngtcp2 is never asked for a migration it is bound to reject: not before the handshake is
\* confirmed, and not to the address the connection is on, although a waiting migration is
\* retried after the network may have changed several times.
AsksAllowed == asked # "bad"

\* A connection that waits to migrate has a connection ID to wait for: as soon as one arrives
\* the migration goes ahead.  It never waits to go where it already is.
WaitsForCid == pending # None => cids = 0 /\ confirmed /\ pending.local # path.local

\* A packet refused as too big ends a connection only if the host still reaches the peer from
\* the connection's address, has no route at all, or ngtcp2 would not let it migrate.
ClosedOnOwnNetwork ==
    closedBy # None =>
      /\ ~alive
      /\ closedBy.host = None \/ closedBy.host.local = closedBy.local \/ ~confirmed \/ refused

\* The four together.
MigrationInv == TypeOK /\ PathsInStep /\ AsksAllowed /\ WaitsForCid /\ ClosedOnOwnNetwork

\* With network_changed() called after each change, a connection ends up on the host's route
\* once the network settles: from its address and through its NAT64, or not.
Settles == <>[](alive /\ host # None => path.local = host.local /\ path.nat64 = host.nat64)
=============================================================================

------------------------- MODULE Migration_proofs -------------------------
(***************************************************************************)
(* That the properties of Migration hold for any addresses, any number of  *)
(* connection IDs and any number of network changes.                       *)
(*                                                                         *)
(* check_local_address, migrate and local_address_mismatch take a state of *)
(* the connection and return the states they may leave, so what each of    *)
(* them preserves (Coherent) is a lemma, and the actions compose them.     *)
(***************************************************************************)
EXTENDS Migration, TLAPS

Paths == [local : Addrs, nat64 : {None, NAT64}, nat64_local : Addrs \cup {None}]

States == [path : Paths, pending : Routes \cup {None}, unconfirmed : Addrs \cup {None}, ngtcp2 : Addrs,
           cids : 0..MaxCids, refused : BOOLEAN, asked : {"none", "ok", "bad"}, alive : BOOLEAN]

\* The part of MigrationInv that holds in the middle of a step, too: a migration that waits
\* may have the connection ID it waits for.
Coherent(s) ==
    /\ s \in States
    /\ (s.path.nat64 = None) = (s.path.nat64_local = None)
    /\ s.path.nat64 # None => s.path.nat64_local = s.path.local
    /\ s.path.local = s.ngtcp2
    /\ s.asked # "bad"
    /\ s.pending # None => confirmed /\ s.pending.local # s.path.local

Waits(s) == s.pending # None => s.cids = 0

-----------------------------------------------------------------------------
(* The connection's functions.                                             *)

\* set_route leaves a path whose NAT64 half starts at its own local address.
LEMMA PathForType ==
    ASSUME NEW r \in Routes
    PROVE  /\ PathFor(r) \in Paths
           /\ PathFor(r).local = r.local
           /\ PathFor(r).nat64 = r.nat64
           /\ (PathFor(r).nat64 = None) = (PathFor(r).nat64_local = None)
           /\ PathFor(r).nat64 # None => PathFor(r).nat64_local = PathFor(r).local
  BY MigrationAssumption, Zenon DEF PathFor, Paths, Routes

\* migrate, asked for an address other than the connection's own once the handshake is
\* confirmed, keeps the state coherent, waits only without a connection ID, and gives up only
\* when ngtcp2 refuses (or the connection is closing).
LEMMA MigrateCoherent ==
    ASSUME NEW s, Coherent(s), NEW to \in Routes, to # None, confirmed, to.local # s.path.local,
           NEW c \in migrate(s, to)
    PROVE  /\ Coherent(c.s) /\ Waits(c.s)
           /\ c.s.alive = s.alive
           /\ s.alive /\ c.check = "unchanged" => c.s.refused
  <1>1. CASE ~s.alive
    <2>1. c = [s |-> [s EXCEPT !.pending = None], check |-> "unchanged"]
      BY <1>1, Zenon DEF migrate
    <2> QED  BY <2>1, <1>1, Zenon DEF Coherent, States, Waits
  <1>2. CASE s.alive
    <2> DEFINE out(rv) ==
          CASE rv = "blocked" -> [s |-> [s EXCEPT !.pending = to], check |-> "pending"]
            [] rv = "ok"      -> [s |-> [set_route(s, to) EXCEPT !.pending = None, !.unconfirmed = None,
                                         !.ngtcp2 = to.local, !.cids = s.cids - 1, !.asked = "ok"],
                                  check |-> "migrated"]
            [] OTHER          -> [s |-> [s EXCEPT !.pending = None,
                                         !.refused = (s.refused \/ rv = "refused"),
                                         !.asked = IF rv = "bad" THEN "bad" ELSE s.asked],
                                  check |-> "unchanged"]
    <2>1. PICK rv \in initiate_migration(s, to.local) : c = out(rv)
      BY <1>2, Zenon DEF migrate
    <2>2. (rv = "blocked" /\ s.cids = 0) \/ (rv = "ok" /\ s.cids # 0) \/ rv = "refused"
      BY <2>1, Zenon DEF initiate_migration, Coherent
    <2>3. CASE rv = "blocked" /\ s.cids = 0
      <3>1. c = [s |-> [s EXCEPT !.pending = to], check |-> "pending"]
        BY <2>1, <2>3, Zenon
      <3> QED  BY <3>1, <2>3, Zenon DEF Coherent, States, Waits
    <2>4. CASE rv = "ok" /\ s.cids # 0
      <3>1. c = [s |-> [[s EXCEPT !.path = PathFor(to)] EXCEPT !.pending = None, !.unconfirmed = None,
                          !.ngtcp2 = to.local, !.cids = s.cids - 1, !.asked = "ok"],
                 check |-> "migrated"]
        BY <2>1, <2>4, Zenon DEF set_route
      <3>2. s.cids - 1 \in 0..MaxCids
        BY <2>4, MigrationAssumption DEF Coherent, States
      <3>3. to.local \in Addrs
        BY Zenon DEF Routes
      <3> QED  BY <3>1, <3>2, <3>3, PathForType, ZenonT(30) DEF Coherent, States, Waits
    <2>5. CASE rv = "refused"
      <3>1. c = [s |-> [s EXCEPT !.pending = None, !.refused = TRUE, !.asked = s.asked], check |-> "unchanged"]
        BY <2>1, <2>5, Zenon
      <3> QED  BY <3>1, Zenon DEF Coherent, States, Waits
    <2> QED  BY <2>2, <2>3, <2>4, <2>5, Zenon
  <1> QED  BY <1>1, <1>2, Zenon DEF Coherent, States

\* So does check_local_address.  When it reports the address unchanged, the host has no route,
\* reaches the peer from the connection's address, or may not migrate.
LEMMA CheckCoherent ==
    ASSUME NEW s, Coherent(s), Waits(s), host \in Routes \cup {None}, confirmed \in BOOLEAN,
           NEW c \in check_local_address(s)
    PROVE  /\ Coherent(c.s) /\ Waits(c.s)
           /\ c.s.alive = s.alive
           /\ s.alive /\ c.check = "unchanged" =>
                host = None \/ host.local = s.path.local \/ ~confirmed \/ c.s.refused
  <1>1. CASE ~s.alive \/ host = None
    <2>1. c = [s |-> s, check |-> "unchanged"]
      BY <1>1, Zenon DEF check_local_address
    <2> QED  BY <2>1, <1>1, Zenon
  <1>2. CASE ~(~s.alive \/ host = None) /\ host.local # s.path.local /\ confirmed
    <2>1. c \in migrate(s, host)
      BY <1>2, Zenon DEF check_local_address
    <2> QED  BY <2>1, <1>2, MigrateCoherent, Zenon
  <1>3. CASE ~(~s.alive \/ host = None) /\ ~(host.local # s.path.local /\ confirmed)
    <2>1. CASE host.nat64 = s.path.nat64
      <3>1. c = [s |-> [s EXCEPT !.pending = None], check |-> "unchanged"]
        BY <1>3, <2>1, Zenon DEF check_local_address
      <3> QED  BY <3>1, <1>3, Zenon DEF Coherent, States, Waits
    <2>2. CASE host.nat64 # s.path.nat64
      <3> DEFINE r == [local |-> s.path.local, nat64 |-> host.nat64]
      <3>1. c = [s |-> [[s EXCEPT !.pending = None] EXCEPT !.path = PathFor(r)], check |-> "rerouted"]
        BY <1>3, <2>2, Zenon DEF check_local_address, set_route
      <3>2. r \in Routes
        BY <1>3, Zenon DEF Routes, Coherent, States, Paths
      <3>3. PathFor(r) \in Paths /\ PathFor(r).local = s.path.local
        BY <3>2, PathForType, Zenon
      <3> HIDE DEF r
      <3> QED  BY <3>1, <3>2, <3>3, PathForType, Zenon DEF Coherent, States, Waits
    <2> QED  BY <2>1, <2>2, Zenon
  <1> QED  BY <1>1, <1>2, <1>3, Zenon

\* And so does a packet that arrives on an address of the host, or on none that is reported.
LEMMA ArrivesCoherent ==
    ASSUME NEW s, Coherent(s), Waits(s), host \in Routes \cup {None}, confirmed \in BOOLEAN,
           NEW a \in Addrs \cup {None}, NEW t \in Arrives(s, a)
    PROVE  Coherent(t) /\ Waits(t) /\ t.alive = s.alive
  <1>1. CASE t = s
    BY <1>1, Zenon
  <1>2. CASE t # s
    <2>1. PICK c \in check_local_address(s) :
            t = IF c.check = "unchanged" THEN [c.s EXCEPT !.unconfirmed = a] ELSE c.s
      BY <1>2, Zenon DEF Arrives, local_address_mismatch
    <2>2. Coherent(c.s) /\ Waits(c.s) /\ c.s.alive = s.alive
      BY CheckCoherent, Zenon
    <2> QED  BY <2>1, <2>2 DEF Coherent, States, Waits
  <1> QED  BY <1>1, <1>2, Zenon

\* A migration that is tried again either goes ahead, is refused or has no connection ID.
LEMMA TryPendingCoherent ==
    ASSUME NEW s, Coherent(s), NEW t \in TryPending(s)
    PROVE  Coherent(t) /\ Waits(t) /\ t.alive = s.alive
  <1>1. CASE s.pending = None
    BY <1>1, Zenon DEF TryPending, Waits
  <1>2. CASE s.pending # None
    <2>1. PICK c \in migrate(s, s.pending) : t = c.s
      BY <1>2, Zenon DEF TryPending
    <2>2. s.pending \in Routes /\ confirmed /\ s.pending.local # s.path.local
      BY <1>2, Zenon DEF Coherent, States
    <2> QED  BY <2>1, <2>2, <1>2, MigrateCoherent, Zenon
  <1> QED  BY <1>1, <1>2, Zenon

-----------------------------------------------------------------------------
(* The actions.                                                            *)

LEMMA StateCoherent ==
    ASSUME MigrationInv
    PROVE  Coherent(State) /\ Waits(State)
  BY DEF MigrationInv, TypeOK, PathsInStep, AsksAllowed, WaitsForCid, Coherent, States, Waits, State, Paths

\* Becoming a coherent state keeps the invariant, whatever the handshake does meanwhile, as
\* long as what closed the connection is accounted for.
LEMMA BecomeInv ==
    ASSUME NEW s, Coherent(s), Waits(s), Become(s),
           host' \in Routes \cup {None}, changes' \in 0..MaxChanges, told' \in BOOLEAN,
           confirmed' \in BOOLEAN, confirmed => confirmed',
           closedBy' \in [host : Routes \cup {None}, local : Addrs] \cup {None},
           ClosedOnOwnNetwork'
    PROVE  MigrationInv'
  <1>1. s.path \in Paths /\ s.pending \in Routes \cup {None} /\ s.unconfirmed \in Addrs \cup {None}
        /\ s.ngtcp2 \in Addrs /\ s.cids \in 0..MaxCids /\ s.refused \in BOOLEAN
        /\ s.asked \in {"none", "ok", "bad"} /\ s.alive \in BOOLEAN
    BY Zenon DEF Coherent, States
  <1>2. TypeOK'
    BY <1>1, Zenon DEF TypeOK, Become, Coherent, Paths
  <1>3. PathsInStep' /\ AsksAllowed' /\ WaitsForCid'
    BY Zenon DEF PathsInStep, AsksAllowed, WaitsForCid, Become, Coherent, Waits
  <1> QED  BY <1>2, <1>3, Zenon DEF MigrationInv

LEMMA MigrationInit == Init => MigrationInv
  <1> SUFFICES ASSUME Init PROVE MigrationInv
    BY Zenon
  <1>0. StartRoutes \subseteq Routes
    BY Zenon DEF Init, StartRoutes, Routes
  <1>1. PICK r \in Routes : path = PathFor(r) /\ ngtcp2 = r.local
    BY <1>0, Zenon DEF Init
  <1>2. /\ path \in Paths /\ path.local = ngtcp2 /\ ngtcp2 \in Addrs
        /\ (path.nat64 = None) = (path.nat64_local = None)
        /\ path.nat64 # None => path.nat64_local = path.local
    BY <1>1, PathForType, Zenon DEF Routes
  <1>3. 0 \in 0..MaxCids /\ 0 \in 0..MaxChanges
    BY MigrationAssumption
  <1>4. TypeOK
    BY <1>2, <1>3, Zenon DEF Init, TypeOK, Paths
  <1>5. PathsInStep /\ AsksAllowed /\ WaitsForCid /\ ClosedOnOwnNetwork
    BY <1>2, Zenon DEF Init, PathsInStep, AsksAllowed, WaitsForCid, ClosedOnOwnNetwork
  <1> QED  BY <1>4, <1>5, Zenon DEF MigrationInv

LEMMA MigrationStep == MigrationInv /\ [Next]_vars => MigrationInv'
  <1> SUFFICES ASSUME MigrationInv, [Next]_vars PROVE MigrationInv'
    BY Zenon
  <1>0. Coherent(State) /\ Waits(State) /\ State.alive = alive /\ State.path = path
    BY StateCoherent, Zenon DEF State
  <1>t. /\ host \in Routes \cup {None} /\ changes \in 0..MaxChanges /\ told \in BOOLEAN
        /\ confirmed \in BOOLEAN /\ alive \in BOOLEAN
        /\ closedBy \in [host : Routes \cup {None}, local : Addrs] \cup {None}
        /\ ClosedOnOwnNetwork /\ path.local \in Addrs
    BY Zenon DEF MigrationInv, TypeOK
  <1>1. CASE NetworkChange
    <2>1. changes + 1 \in 0..MaxChanges /\ host' \in Routes \cup {None}
      BY <1>1, <1>t, MigrationAssumption DEF NetworkChange
    <2> QED
      BY <1>1, <2>1, ZenonT(30) DEF NetworkChange, conn, MigrationInv, TypeOK, PathsInStep, AsksAllowed, WaitsForCid,
                        ClosedOnOwnNetwork
  <1>2. CASE network_changed
    <2> DEFINE s == [State EXCEPT !.unconfirmed = None]
    <2>1. Coherent(s) /\ Waits(s)
      BY <1>0, Zenon DEF Coherent, Waits, States
    <2>2. PICK c \in check_local_address(s) : Become(c.s)
      BY <1>2, Zenon DEF network_changed
    <2> HIDE DEF s
    <2>3. Coherent(c.s) /\ Waits(c.s)
      BY <2>1, <1>t, CheckCoherent, Zenon
    <2>4. closedBy = None
      BY <1>2, <1>t, Zenon DEF network_changed, ClosedOnOwnNetwork
    <2> QED  BY <2>2, <2>3, <2>4, <1>2, <1>t, BecomeInv, Zenon DEF network_changed, ClosedOnOwnNetwork
  <1>3. CASE packet_too_big
    <2>1. PICK c \in check_local_address(State) :
            /\ Become([c.s EXCEPT !.alive = (c.check # "unchanged")])
            /\ closedBy' = IF c.check = "unchanged" THEN [host |-> host, local |-> path.local] ELSE None
      BY <1>3, Zenon DEF packet_too_big
    <2> DEFINE t == [c.s EXCEPT !.alive = (c.check # "unchanged")]
    <2>2. /\ Coherent(c.s) /\ Waits(c.s)
          /\ c.check = "unchanged" => host = None \/ host.local = path.local \/ ~confirmed \/ c.s.refused
      BY <1>0, <1>t, <1>3, CheckCoherent, Zenon DEF packet_too_big
    <2>3. Coherent(t) /\ Waits(t) /\ t.alive = (c.check # "unchanged") /\ t.refused = c.s.refused
      BY <2>2, Zenon DEF Coherent, Waits, States
    <2>4. closedBy' \in [host : Routes \cup {None}, local : Addrs] \cup {None}
      BY <2>1, <1>t, Zenon
    <2> HIDE DEF t
    <2>5. ClosedOnOwnNetwork'
      BY <2>1, <2>2, <2>3, <1>3, Zenon DEF t, ClosedOnOwnNetwork, Become, packet_too_big
    <2> QED  BY <2>1, <2>3, <2>4, <2>5, <1>3, <1>t, BecomeInv, Zenon DEF t, packet_too_big, env
  <1>4. CASE send_unreachable
    <2>1. PICK c \in check_local_address(State) : Become(c.s)
      BY <1>4, Zenon DEF send_unreachable
    <2>2. Coherent(c.s) /\ Waits(c.s)
      BY <1>0, <1>t, CheckCoherent, Zenon
    <2>3. closedBy = None
      BY <1>4, <1>t, Zenon DEF send_unreachable, ClosedOnOwnNetwork
    <2> QED  BY <2>1, <2>2, <2>3, <1>4, <1>t, BecomeInv, Zenon DEF send_unreachable, ClosedOnOwnNetwork, env
  <1>5. CASE Close
    BY <1>5, ZenonT(30) DEF Close, env, conn, MigrationInv, TypeOK, PathsInStep, AsksAllowed, WaitsForCid, ClosedOnOwnNetwork
  <1>6. ASSUME NEW a \in Addrs \cup {None}, NEW confirms \in BOOLEAN, NEW brings \in BOOLEAN,
               NEW closes \in BOOLEAN, handle_packet(a, confirms, brings, closes)
        PROVE  MigrationInv'
    <2>1. PICK s1 \in Arrives(State, a) :
            LET s2 == [s1 EXCEPT !.cids = IF brings /\ @ < MaxCids THEN @ + 1 ELSE @, !.alive = ~closes]
            IN  \E s3 \in TryPending(s2) : Become(s3)
      BY <1>6, Zenon DEF handle_packet
    <2> DEFINE n == IF brings /\ s1.cids < MaxCids THEN s1.cids + 1 ELSE s1.cids
               s2 == [s1 EXCEPT !.cids = n, !.alive = ~closes]
    <2>2. Coherent(s1)
      BY <1>0, <1>t, ArrivesCoherent, Zenon
    <2>3. n \in 0..MaxCids
      BY <2>2, MigrationAssumption DEF Coherent, States
    <2>4. s2 = [s1 EXCEPT !.cids = IF brings /\ @ < MaxCids THEN @ + 1 ELSE @, !.alive = ~closes]
      BY <2>2, Zenon DEF Coherent, States
    <2> HIDE DEF n
    <2>5. Coherent(s2)
      BY <2>2, <2>3, Zenon DEF Coherent, States
    <2>6. PICK s3 \in TryPending(s2) : Become(s3)
      BY <2>1, <2>4, Zenon
    <2> HIDE DEF s2
    <2>7. Coherent(s3) /\ Waits(s3)
      BY <2>5, TryPendingCoherent, Zenon
    <2>8. closedBy = None /\ closedBy' = None /\ confirmed' = (confirmed \/ confirms)
      BY <1>6, <1>t, Zenon DEF handle_packet, ClosedOnOwnNetwork
    <2> QED  BY <2>6, <2>7, <2>8, <1>6, <1>t, BecomeInv, Zenon DEF handle_packet, ClosedOnOwnNetwork, env
  <1>7. CASE UNCHANGED vars
    BY <1>7 DEF vars, env, conn, MigrationInv, TypeOK, PathsInStep, AsksAllowed, WaitsForCid, ClosedOnOwnNetwork
  <1> QED  BY <1>1, <1>2, <1>3, <1>4, <1>5, <1>6, <1>7, Zenon DEF Next

\* A connection's paths stay in step with ngtcp2's; it never asks ngtcp2 for a migration that is
\* bound to be rejected, and waits only for a connection ID it lacks and only to go elsewhere; a
\* packet refused as too big ends it only on its own network: check_local_address, migrate and
\* local_address_mismatch, in any order and over any number of network changes.
THEOREM MigrationIsSound == Spec => []MigrationInv
  <1> QED  BY MigrationInit, MigrationStep, PTL DEF Spec
=============================================================================

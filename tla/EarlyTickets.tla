---------------------------- MODULE EarlyTickets ----------------------------
(***************************************************************************)
(* Session tickets for 0-RTT (gnutls_crypto.cpp): the client's store of    *)
(* them (default_store_extract_callbacks), the attempt a new connection    *)
(* makes with one, and the server's memory of the attempts it has accepted *)
(* (anti_replay_store, default_anti_replay_add).                           *)
(*                                                                         *)
(* GnuTLS is external: it issues tickets, refuses early data with an       *)
(* expired ticket or a ClientHello older than the anti-replay window, and  *)
(* asks for every other one to be remembered, until the window is over.    *)
(* The times it hands over are in whole seconds (time_t), while ages and   *)
(* the clock are finer: time is counted in ticks, Second of them a second. *)
(* The network may deliver a ClientHello late and more than once.  The     *)
(* clocks of both sides advance together.                                  *)
(***************************************************************************)
EXTENDS Naturals, Sequences

CONSTANTS
    Remotes,     \* servers, as the client's store keeps them apart
    Second,      \* ticks in a second
    Validity,    \* how long tickets may be valid, in ticks
    Window,      \* anti_replay_window, in ticks
    NoTicket,    \* no session data
    MaxTickets,  \* bound: tickets issued
    MaxTime      \* bound: ticks

ASSUME TicketsAssumption ==
    /\ Second \in Nat \ {0} /\ Validity \subseteq Nat /\ Window \in Nat /\ MaxTickets \in Nat /\ MaxTime \in Nat
    /\ NoTicket \notin 1..MaxTickets

VARIABLES
    now,
    issued,        \* tickets issued: [remote, expiry], by number
    transit,       \* tickets on their way to the client
    storage,       \* the client's stored tickets for each remote, oldest first
    hellos,        \* ClientHellos with early data: [ticket, sent], by number
    seen,          \* the server's anti-replay storage: [hello, expiry]
    last_cleanup,
    early,         \* when the early data of each hello was accepted
    unguarded      \* hellos accepted because the anti_replay_add callback threw

ticketVars == <<now, issued, transit, storage, hellos, seen, last_cleanup, early, unguarded>>

Tickets == 1..MaxTickets
Expiry(t) == issued[t].expiry

\* A time handed over as a time_t.
WholeSeconds(t) == t - (t % Second)

TicketsType ==
    /\ now \in 0..MaxTime /\ last_cleanup \in 0..MaxTime
    /\ issued \in Seq([remote : Remotes, expiry : Nat]) /\ Len(issued) <= MaxTickets
    /\ transit \subseteq DOMAIN issued
    /\ storage \in [Remotes -> Seq(Tickets)]
    /\ \A r \in Remotes : storage[r] \in Seq(DOMAIN issued) /\ Len(storage[r]) <= 3
    /\ hellos \in Seq([ticket : Tickets, sent : 0..MaxTime])
    /\ \A h \in DOMAIN hellos : hellos[h].ticket \in DOMAIN issued
    /\ seen \subseteq [hello : DOMAIN hellos, expiry : Nat]
    /\ early \in [DOMAIN hellos -> Seq(0..MaxTime)] /\ unguarded \subseteq DOMAIN hellos

TicketsInit ==
    /\ now = 0 /\ last_cleanup = 0 /\ issued = <<>> /\ transit = {} /\ hellos = <<>>
    /\ storage = [r \in Remotes |-> <<>>] /\ seen = {} /\ early = <<>> /\ unguarded = {}

-----------------------------------------------------------------------------
Tick ==
    /\ now < MaxTime
    /\ now' = now + 1
    /\ UNCHANGED <<issued, transit, storage, hellos, seen, last_cleanup, early, unguarded>>

\* A handshake with r completes on the server, which sends two tickets.
send_session_tickets(r) ==
    /\ Len(issued) + 2 <= MaxTickets
    /\ \E v, w \in Validity :
          issued' = issued \o <<[remote |-> r, expiry |-> WholeSeconds(now + v)],
                                [remote |-> r, expiry |-> WholeSeconds(now + w)]>>
    /\ transit' = transit \cup {Len(issued) + 1, Len(issued) + 2}
    /\ UNCHANGED <<now, storage, hellos, seen, last_cleanup, early, unguarded>>

\* The default store callback: at most the two newest tickets stay beside the new one.
Store(mine, t) ==
    Append(IF Len(mine) > 2 THEN SubSeq(mine, Len(mine) - 1, Len(mine)) ELSE mine, t)

\* store_session_ticket: the store after the session callback ran.
store_session_ticket(t) == [storage EXCEPT ![issued[t].remote] = Store(@, t)]

\* A ticket arrives and is stored.
client_session_cb(t) ==
    /\ t \in transit
    /\ transit' = transit \ {t}
    /\ storage' = store_session_ticket(t)
    /\ UNCHANGED <<now, issued, hellos, seen, last_cleanup, early, unguarded>>

\* A ticket is lost: its connection ends before it arrives, or the ticket or the transport
\* parameters to be stored with it cannot be encoded.
LoseTicket(t) ==
    /\ t \in transit
    /\ transit' = transit \ {t}
    /\ UNCHANGED <<now, issued, storage, hellos, seen, last_cleanup, early, unguarded>>

\* The default extract callback: expired tickets are dropped from the newest back, and the first
\* that is still valid is taken out.
Extract(mine) ==
    LET found == {i \in DOMAIN mine :
                     Expiry(mine[i]) > now /\ \A j \in (i + 1)..Len(mine) : Expiry(mine[j]) <= now}
    IN  IF found = {} THEN [got |-> NoTicket, rest |-> <<>>]
        ELSE LET i == CHOOSE i \in found : TRUE IN [got |-> mine[i], rest |-> SubSeq(mine, 1, i - 1)]

\* extract_session_data: what was taken out counts only if it can be parsed.
extract_session_data(r, parses) ==
    LET x == Extract(storage[r]) IN [x EXCEPT !.got = IF parses THEN @ ELSE NoTicket]

\* A new connection to r: GNUTLSSession takes a ticket out, and attempts 0-RTT if there is one and
\* it loads: it can be parsed and GnuTLS accepts it.
Connect(r, loads) ==
    LET x == extract_session_data(r, loads)
    IN  /\ storage' = [storage EXCEPT ![r] = x.rest]
        /\ IF x.got # NoTicket
           THEN /\ hellos' = Append(hellos, [ticket |-> x.got, sent |-> now])
                /\ early' = Append(early, <<>>)
           ELSE UNCHANGED <<hellos, early>>
        /\ UNCHANGED <<now, issued, transit, seen, last_cleanup, unguarded>>

-----------------------------------------------------------------------------
\* Mutant: an entry is cleaned up at its expiry time.
Cleanup_at(s) == {e \in s : e.expiry > now}

\* What a cleanup leaves.
Cleanup(s) == {e \in s : e.expiry >= now}

\* default_anti_replay_add: a new key is stored and accepted; the storage is cleaned at most once a
\* second.
CleanupDue == now > last_cleanup + Second
default_anti_replay_add(h, expiry) ==
    LET accepted == \A e \in seen : e.hello # h
        added == IF accepted THEN seen \cup {[hello |-> h, expiry |-> expiry]} ELSE seen
    IN  [accepted |-> accepted, storage |-> IF CleanupDue THEN Cleanup(added) ELSE added]

\* A ClientHello with early data arrives, not for the first time perhaps.  GnuTLS refuses the early
\* data or asks anti_replay_store, which accepts it as well if the callback throws.  (Bound: the
\* callback throws once for a hello.)
Fresh(h) == Expiry(hellos[h].ticket) > now /\ now <= hellos[h].sent + Window
Refused(h) == ~Fresh(h) /\ UNCHANGED <<seen, last_cleanup, early, unguarded>>
Asked(h) ==
    LET add == default_anti_replay_add(h, WholeSeconds(now) + WholeSeconds(Window))
    IN  /\ Fresh(h)
        /\ seen' = add.storage
        /\ last_cleanup' = IF CleanupDue THEN now ELSE last_cleanup
        /\ early' = IF add.accepted THEN [early EXCEPT ![h] = Append(@, now)] ELSE early
        /\ UNCHANGED unguarded
Threw(h) ==
    /\ Fresh(h) /\ h \notin unguarded
    /\ early' = [early EXCEPT ![h] = Append(@, now)]
    /\ unguarded' = unguarded \cup {h}
    /\ UNCHANGED <<seen, last_cleanup>>
anti_replay_store(h) ==
    /\ h \in DOMAIN hellos
    /\ Refused(h) \/ Asked(h) \/ Threw(h)
    /\ UNCHANGED <<now, issued, transit, storage, hellos>>

TicketsNext ==
    \/ Tick
    \/ \E r \in Remotes : send_session_tickets(r) \/ \E loads \in BOOLEAN : Connect(r, loads)
    \/ \E t \in transit : client_session_cb(t) \/ LoseTicket(t)
    \/ \E h \in DOMAIN hellos : anti_replay_store(h)

TicketsSpec == TicketsInit /\ [][TicketsNext]_ticketVars

-----------------------------------------------------------------------------
\* What the server asks the storage to remember of an acceptance at time t, and for how long.
Until(t) == WholeSeconds(t) + WholeSeconds(Window)
Guarded == DOMAIN early \ unguarded

\* Early data is not accepted again before the time GnuTLS gave for its entry has passed, however
\* often it is delivered.  That time is cut to whole seconds, so the end of the window may come
\* later; but if the window is a whole number of seconds, only early data that was first accepted in
\* the very second it was sent can still be taken for fresh and be accepted a second time.
AgainOnlyLate ==
    \A h \in Guarded : \A i, j \in DOMAIN early[h] : i < j =>
        /\ early[h][j] > Until(early[h][i])
        /\ Window % Second = 0 => hellos[h].sent > WholeSeconds(early[h][i])

\* ... since what was accepted is remembered until then, and was fresh when it was accepted.
Remembered ==
    \A h \in Guarded : \A i \in DOMAIN early[h] :
        now > Until(early[h][i]) \/ \E e \in seen : e.hello = h /\ e.expiry >= Until(early[h][i])
AcceptedFresh ==
    \A h \in DOMAIN hellos :
        /\ hellos[h].sent <= now
        /\ \A i \in DOMAIN early[h] : early[h][i] \in hellos[h].sent..now /\ early[h][i] <= hellos[h].sent + Window

\* A ticket is used for at most one attempt.
TicketOnce == \A g, h \in DOMAIN hellos : hellos[g].ticket = hellos[h].ticket => g = h

\* ... since it is at one place: on its way, once in the client's store, or in a hello.
OnTheWay ==
    /\ \A r \in Remotes : \A i \in DOMAIN storage[r] : storage[r][i] \notin transit
    /\ \A h \in DOMAIN hellos : hellos[h].ticket \notin transit
StoredUnused ==
    \A r \in Remotes : \A i \in DOMAIN storage[r], h \in DOMAIN hellos : hellos[h].ticket # storage[r][i]
StoredOnce ==
    \A q, r \in Remotes : \A i \in DOMAIN storage[q], j \in DOMAIN storage[r] :
        storage[q][i] = storage[r][j] => q = r /\ i = j
OnePlace == OnTheWay /\ StoredUnused /\ StoredOnce

-----------------------------------------------------------------------------
\* The early data of a ClientHello is accepted again only after its entry's time has passed,
\* which takes a hello accepted in the second it was sent in; and a ticket is used for one attempt.
ReplaysBounded == TicketsType /\ AgainOnlyLate /\ TicketOnce
=============================================================================

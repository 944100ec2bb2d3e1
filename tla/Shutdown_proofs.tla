--------------------------- MODULE Shutdown_proofs ---------------------------
(***************************************************************************)
(* The end of a connection: what the application is told of it, for any    *)
(* number of queued jobs, timers and parked packets, and that a deleted    *)
(* connection stays deleted.  The end of a Network: for any number of      *)
(* endpoints, who may still use one, and the Network, when it goes.        *)
(***************************************************************************)
EXTENDS ConnClose, NetworkLife, TLAPS

-----------------------------------------------------------------------------
(* The end of a connection.                                                *)


JobNames == {"close", "idle", "drop", "drain", "reset"}
Ended == closing \/ draining

\* The inductive invariant.  Every path that runs the close hooks first checks, or
\* then sets, closing or draining; so at most one of them runs hooks unless a drop,
\* which checks neither, is queued.  What deletes a connection outside these paths
\* (a timer, a parked packet) exists only for one that has ended already.
EndInv ==
    /\ ~in_conns => closing
    /\ cleanups > 0 => Ended
    /\ parked => closing
    /\ ~Ended => closes = 0
    /\ confirmed => established
    /\ inbound /\ closes > 0 => confirmed
    /\ inbound /\ ~early /\ established => confirmed
    /\ ~early /\ Ended /\ established /\ ~quiet => closes > 0

\* What the application has been told when established = e and closes = c.
Sofar(e, c) ==
    IF c = 0 THEN IF e THEN <<"established">> ELSE <<>>
    ELSE IF e THEN <<"established", "closed">> ELSE <<"closed">>

\* Where no drop is ever queued, the hooks have run at most once.
OnceInv ==
    /\ \A i \in DOMAIN jobs : jobs[i] # "drop"
    /\ told = Sofar(established, closes)

CloseInv == TypeOK /\ EndInv /\ (~drops => OnceInv)

-----------------------------------------------------------------------------
(* Types.                                                                  *)

\* The conjuncts of TypeOK, one variable at a time.
Flags ==
    /\ inbound \in BOOLEAN /\ early \in BOOLEAN /\ drops \in BOOLEAN
    /\ closing \in BOOLEAN /\ draining \in BOOLEAN /\ dead \in BOOLEAN /\ halted \in BOOLEAN
    /\ in_conns \in BOOLEAN /\ app_ref \in BOOLEAN /\ parked \in BOOLEAN
    /\ confirmed \in BOOLEAN /\ established \in BOOLEAN /\ quiet \in BOOLEAN
    /\ closing \/ draining => halted
Peer == ngtcp2_draining \in BOOLEAN
Counts == cleanups \in Nat /\ closes \in Nat
Lists == jobs \in Seq(JobNames) /\ told \in Seq({"established", "closed"})

\* TypeOK as the four.
LEMMA TypeParts == TypeOK <=> Flags /\ Peer /\ Counts /\ Lists
  BY DEF TypeOK, Flags, Peer, Counts, Lists, JobNames

LEMMA TypePartsNext == TypeOK' <=> Flags' /\ Peer' /\ Counts' /\ Lists'
  BY DEF TypeOK, Flags, Peer, Counts, Lists, JobNames

LEMMA FlagsInit == Init => Flags
  BY Zenon DEF Init, Flags

LEMMA PeerInit == Init => Peer
  BY Zenon DEF Init, Peer

\* A step that changes none of the flags keeps their types.
SameFlags ==
  /\ inbound' = inbound /\ early' = early /\ drops' = drops /\ closing' = closing /\ draining' = draining
  /\ halted' = halted /\ in_conns' = in_conns /\ parked' = parked /\ dead' = dead /\ app_ref' = app_ref
  /\ confirmed' = confirmed /\ established' = established /\ quiet' = quiet

LEMMA FlagsKept == ASSUME Flags, SameFlags PROVE Flags'
<1>1. /\ inbound' \in BOOLEAN /\ early' \in BOOLEAN /\ drops' \in BOOLEAN
      /\ closing' \in BOOLEAN /\ draining' \in BOOLEAN /\ dead' \in BOOLEAN /\ halted' \in BOOLEAN
  <2>1. closing' = closing /\ draining' = draining /\ halted' = halted /\ dead' = dead
    BY Zenon DEF SameFlags
  <2>2. closing \in BOOLEAN /\ draining \in BOOLEAN /\ dead \in BOOLEAN /\ halted \in BOOLEAN
    BY Zenon DEF Flags
  <2>3. inbound' \in BOOLEAN /\ early' \in BOOLEAN /\ drops' \in BOOLEAN
    BY Zenon DEF Flags, SameFlags
  <2> QED BY <2>1, <2>2, <2>3, Zenon
<1>2. /\ in_conns' \in BOOLEAN /\ app_ref' \in BOOLEAN /\ parked' \in BOOLEAN
      /\ confirmed' \in BOOLEAN /\ established' \in BOOLEAN /\ quiet' \in BOOLEAN
  <2>1. /\ in_conns' = in_conns /\ parked' = parked /\ app_ref' = app_ref
        /\ confirmed' = confirmed /\ established' = established /\ quiet' = quiet
    BY Zenon DEF SameFlags
  <2>2. /\ in_conns \in BOOLEAN /\ app_ref \in BOOLEAN /\ parked \in BOOLEAN
        /\ confirmed \in BOOLEAN /\ established \in BOOLEAN /\ quiet \in BOOLEAN
    BY Zenon DEF Flags
  <2> QED BY <2>1, <2>2, Zenon
<1>3. closing' \/ draining' => halted'
  <2>1. closing' = closing /\ draining' = draining /\ halted' = halted
    BY Zenon DEF SameFlags
  <2>2. closing \/ draining => halted
    BY Zenon DEF Flags
  <2> QED BY <2>1, <2>2, Zenon
<1> QED BY <1>1, <1>2, <1>3, Zenon DEF Flags

LEMMA PeerNext ==
  ASSUME Peer, [Next]_vars
  PROVE  Peer'
<1>1. ngtcp2_draining' = ngtcp2_draining \/ ngtcp2_draining' = TRUE
  BY Zenon DEF Next, vars, Events, Jobs, flags, EarlyData, on_handshake, read_packet, OnExpiry, FlushFails,
               close_connection, set_close_quietly, ReleaseRef, RunClose, RunIdle, RunDrop,
               drain_connection, RunReset, Cleanup, SendParked
<1> QED
  BY <1>1, Zenon DEF Peer

LEMMA FlagsNext ==
  ASSUME Flags, [Next]_vars
  PROVE  Flags'
<1> USE DEF Flags
<1> CASE UNCHANGED vars
  <2>1. SameFlags
    BY Zenon DEF SameFlags, vars, kind, flags, handshake
  <2> QED
    BY <2>1, FlagsKept, Zenon
<1> CASE EarlyData /\ UNCHANGED kind
  BY Zenon DEF EarlyData, check_established, kind, flags
<1> CASE on_handshake /\ UNCHANGED kind
  <2>1. UNCHANGED <<inbound, early, drops, closing, draining, halted, in_conns, parked, dead, quiet>>
    BY Zenon DEF on_handshake, check_established, kind, flags
  <2>2. confirmed' \in BOOLEAN /\ established' \in BOOLEAN /\ app_ref' \in BOOLEAN
    BY Zenon DEF on_handshake, check_established
  <2> QED
    BY <2>1, <2>2, Zenon
<1> CASE read_packet /\ UNCHANGED kind
  <2>1. UNCHANGED <<inbound, early, drops, closing, draining, halted, in_conns, app_ref, parked, confirmed, established, quiet>>
    BY Zenon DEF read_packet, kind, handshake
  <2>2. dead' \in BOOLEAN
    BY Zenon DEF read_packet
  <2>3. closing' \/ draining' => halted'
    BY Zenon DEF read_packet
  <2> QED
    BY <2>1, <2>2, <2>3, Zenon
<1> CASE OnExpiry /\ UNCHANGED kind
  <2>1. UNCHANGED <<inbound, early, drops, closing, draining, halted, in_conns, parked, app_ref, confirmed, established, quiet>>
    BY Zenon DEF OnExpiry, kind, handshake
  <2>2. dead' \in BOOLEAN
    BY Zenon DEF OnExpiry
  <2> QED
    BY <2>1, <2>2, Zenon
<1> CASE FlushFails /\ UNCHANGED kind
  <2>1. UNCHANGED <<inbound, early, drops, closing, draining, halted, in_conns, parked, app_ref, confirmed, established, quiet>>
    BY Zenon DEF FlushFails, kind, handshake
  <2>2. dead' \in BOOLEAN
    BY Zenon DEF FlushFails
  <2> QED
    BY <2>1, <2>2, Zenon
<1> CASE close_connection /\ UNCHANGED kind
  <2>1. SameFlags
    BY Zenon DEF SameFlags, close_connection, kind, flags, handshake
  <2> QED
    BY <2>1, FlagsKept, Zenon
<1> CASE set_close_quietly /\ UNCHANGED kind
  <2>1. UNCHANGED <<inbound, early, drops, closing, draining, halted, in_conns, parked, dead, app_ref, confirmed, established>>
    BY Zenon DEF set_close_quietly, kind, flags, handshake
  <2>2. quiet' \in BOOLEAN
    BY Zenon DEF set_close_quietly
  <2> QED
    BY <2>1, <2>2, Zenon
<1> CASE ReleaseRef /\ UNCHANGED kind
  <2>1. UNCHANGED <<inbound, early, drops, closing, draining, halted, in_conns, parked, dead, confirmed, established, quiet>>
    BY Zenon DEF ReleaseRef, kind, flags, handshake
  <2>2. app_ref' \in BOOLEAN
    BY Zenon DEF ReleaseRef
  <2> QED
    BY <2>1, <2>2, Zenon
<1> CASE RunClose /\ UNCHANGED kind
  <2>1. UNCHANGED <<inbound, early, drops, draining, dead, app_ref, confirmed, established, quiet>>
    BY Zenon DEF RunClose, kind, handshake
  <2>2. closing' \in BOOLEAN /\ halted' \in BOOLEAN /\ in_conns' \in BOOLEAN /\ parked' \in BOOLEAN
    BY Zenon DEF RunClose, Close, delete_connection
  <2>3. closing' \/ draining' => halted'
    BY Zenon DEF RunClose, Close, delete_connection
  <2> QED
    BY <2>1, <2>2, <2>3, Zenon
<1> CASE RunIdle /\ UNCHANGED kind
  <2>1. UNCHANGED <<inbound, early, drops, draining, dead, app_ref, parked, confirmed, established, quiet>>
    BY Zenon DEF RunIdle, kind, handshake
  <2>2. closing' \in BOOLEAN /\ halted' \in BOOLEAN /\ in_conns' \in BOOLEAN
    BY Zenon DEF RunIdle, Drop, delete_connection
  <2>3. closing' \/ draining' => halted'
    BY Zenon DEF RunIdle, Drop, delete_connection
  <2> QED
    BY <2>1, <2>2, <2>3, Zenon
<1> CASE RunDrop /\ UNCHANGED kind
  <2>1. UNCHANGED <<inbound, early, drops, draining, dead, app_ref, parked, confirmed, established, quiet>>
    BY Zenon DEF RunDrop, kind, handshake
  <2>2. closing' \in BOOLEAN /\ halted' \in BOOLEAN /\ in_conns' \in BOOLEAN
    BY Zenon DEF RunDrop, Drop, delete_connection
  <2>3. closing' \/ draining' => halted'
    BY Zenon DEF RunDrop, Drop, delete_connection
  <2> QED
    BY <2>1, <2>2, <2>3, ZenonT(30)
<1> CASE drain_connection /\ UNCHANGED kind
  <2>1. UNCHANGED <<inbound, early, drops, closing, dead, in_conns, app_ref, parked, confirmed, established, quiet>>
    BY Zenon DEF drain_connection, kind, handshake
  <2>2. draining' \in BOOLEAN /\ halted' \in BOOLEAN
    BY Zenon DEF drain_connection
  <2>3. closing' \/ draining' => halted'
    BY Zenon DEF drain_connection
  <2> QED
    BY <2>1, <2>2, <2>3, ZenonT(30)
<1> CASE RunReset /\ UNCHANGED kind
  <2>1. SameFlags
    BY Zenon DEF SameFlags, RunReset, kind, flags, handshake
  <2> QED
    BY <2>1, FlagsKept, Zenon
<1> CASE Cleanup
  <2>1. UNCHANGED <<inbound, early, drops, draining, dead, app_ref, parked, confirmed, established, quiet>>
    BY Zenon DEF Cleanup, kind, handshake
  <2>2. closing' \in BOOLEAN /\ halted' \in BOOLEAN /\ in_conns' \in BOOLEAN
    BY Zenon DEF Cleanup, delete_connection
  <2>3. closing' \/ draining' => halted'
    BY Zenon DEF Cleanup, delete_connection
  <2> QED
    BY <2>1, <2>2, <2>3, ZenonT(30)
<1> CASE SendParked
  <2>1. UNCHANGED <<inbound, early, drops, draining, dead, app_ref, confirmed, established, quiet>>
    BY Zenon DEF SendParked, kind, handshake
  <2>2. closing' \in BOOLEAN /\ halted' \in BOOLEAN /\ in_conns' \in BOOLEAN /\ parked' \in BOOLEAN
    BY Zenon DEF SendParked, delete_connection
  <2>3. halted' = TRUE \/ UNCHANGED <<closing, halted>>
    BY Zenon DEF SendParked, delete_connection
  <2> QED
    BY <2>1, <2>2, <2>3, Zenon
<1> QED
  BY Zenon DEF Next, Events, Jobs

-----------------------------------------------------------------------------
(* The hooks, and the invariant of the flags.                              *)

\* _execute_close_hooks leaves a count that is still a number, positive if it was or
\* if nothing keeps the hooks from running, and else unchanged.
LEMMA HooksRun ==
  ASSUME Counts, _execute_close_hooks
  PROVE  /\ closes' \in Nat
         /\ closes > 0 => closes' > 0
         /\ quiet \/ (inbound /\ ~confirmed) \/ closes' > 0
         /\ closes' > 0 => closes > 0 \/ ~(inbound /\ ~confirmed)
<1>1. CASE quiet \/ (inbound /\ ~confirmed)
  <2>1. closes' = closes
    BY <1>1, Zenon DEF _execute_close_hooks
  <2> QED
    BY <1>1, <2>1, Zenon DEF Counts
<1>2. CASE ~(quiet \/ (inbound /\ ~confirmed))
  <2>1. closes' = closes + 1
    BY <1>2, Zenon DEF _execute_close_hooks
  <2>2. closes' \in Nat /\ closes' > 0
    BY <2>1 DEF Counts
  <2> QED
    BY <1>2, <2>2, Zenon
<1> QED
  BY <1>1, <1>2, Zenon

LEMMA CountsNext ==
  ASSUME Counts, [Next]_vars
  PROVE  Counts'
<1>1. closes' \in Nat
  <2>1. closes' = closes \/ _execute_close_hooks
    BY Zenon DEF Next, vars, Events, Jobs, EarlyData, on_handshake, read_packet, OnExpiry, FlushFails,
                 close_connection, set_close_quietly, ReleaseRef, RunClose, Close, RunIdle, RunDrop,
                 Drop, drain_connection, RunReset, Cleanup, SendParked
  <2> QED
    BY <2>1, HooksRun, Zenon DEF Counts
<1>2. cleanups' \in Nat
  <2>1. \/ cleanups' = cleanups
        \/ cleanups' = cleanups + 1
        \/ cleanups > 0 /\ cleanups' = cleanups - 1
    BY Zenon DEF Next, vars, Events, Jobs, EarlyData, on_handshake, read_packet, OnExpiry, FlushFails,
                 close_connection, set_close_quietly, ReleaseRef, RunClose, Close, RunIdle, RunDrop,
                 drain_connection, RunReset, Cleanup, SendParked
  <2> QED
    BY <2>1 DEF Counts
<1> QED
  BY <1>1, <1>2, Zenon DEF Counts

LEMMA EndInit == Init => EndInv
  BY DEF Init, EndInv, Ended

\* The connection ends now: the hooks run, and closing or draining is set.
LEMMA EndsNow ==
  ASSUME Counts, EndInv, _execute_close_hooks, Ended', ~in_conns' => closing', parked' => closing',
         UNCHANGED <<kind, handshake, quiet>>
  PROVE  EndInv'
<1>1. UNCHANGED <<inbound, early, confirmed, established, quiet>>
  BY Zenon DEF kind, handshake
<1>2. inbound /\ ~confirmed => ~(closes > 0) /\ (early \/ ~established)
  BY Zenon DEF EndInv
<1>3. /\ inbound' /\ closes' > 0 => confirmed'
      /\ ~early' /\ established' /\ ~quiet' => closes' > 0
  <2>1. /\ quiet \/ (inbound /\ ~confirmed) \/ closes' > 0
        /\ closes' > 0 => closes > 0 \/ ~(inbound /\ ~confirmed)
    BY HooksRun, Zenon
  <2>2. /\ inbound /\ closes' > 0 => confirmed
        /\ ~early /\ established /\ ~quiet => closes' > 0
    BY <1>2, <2>1, Zenon
  <2> QED
    BY <1>1, <2>2
<1> QED
  BY <1>1, <1>3, Zenon DEF EndInv

\* Nothing about the end changes: no hook runs, and neither flag is taken back.
LEMMA EndStays ==
  ASSUME EndInv, UNCHANGED <<kind, closes, confirmed, established, quiet>>,
         Ended' <=> Ended, ~in_conns' => closing', parked' => closing', cleanups' > 0 => Ended
  PROVE  EndInv'
<1>1. UNCHANGED <<inbound, early>>
  BY Zenon DEF kind
<1> QED
  BY <1>1, Zenon DEF EndInv

LEMMA EndNext ==
  ASSUME TypeOK, EndInv, [Next]_vars
  PROVE  EndInv'
<1> Flags /\ Counts
  BY TypeParts, Zenon
<1>1. CASE UNCHANGED vars
  BY <1>1, EndStays, Zenon DEF vars, flags, handshake, EndInv, Ended
<1>2. CASE EarlyData /\ UNCHANGED kind
  <2>1. ~Ended /\ inbound /\ early /\ established' = TRUE
    BY <1>2, Zenon DEF EarlyData, Receives, Reads, check_established, Ended, Flags
  <2>2. UNCHANGED <<inbound, early, closing, draining, in_conns, cleanups, parked, confirmed, quiet, closes>>
    BY <1>2, Zenon DEF EarlyData, kind, flags
  <2> QED
    BY <2>1, <2>2, Zenon DEF EndInv, Ended
<1>3. CASE on_handshake /\ UNCHANGED kind
  <2>1. ~Ended /\ established' = TRUE /\ confirmed' = TRUE
    BY <1>3, Zenon DEF on_handshake, Receives, Reads, check_established, Ended, Flags
  <2>2. UNCHANGED <<inbound, early, closing, draining, in_conns, cleanups, parked, quiet, closes>>
    BY <1>3, Zenon DEF on_handshake, kind, flags
  <2> QED
    BY <2>1, <2>2, Zenon DEF EndInv, Ended
<1>4. CASE (read_packet \/ OnExpiry \/ FlushFails \/ close_connection \/ ReleaseRef \/ RunReset) /\ UNCHANGED kind
  <2>1. UNCHANGED <<closing, draining, in_conns, cleanups, parked, confirmed, established, quiet, closes>>
    BY <1>4, Zenon DEF read_packet, OnExpiry, FlushFails, close_connection, ReleaseRef, RunReset, flags, handshake
  <2> QED
    BY <1>4, <2>1, EndStays, Zenon DEF EndInv, Ended
<1>5. CASE set_close_quietly /\ UNCHANGED kind
  <2>1. UNCHANGED <<inbound, early, closing, draining, in_conns, cleanups, parked, confirmed, established, closes>>
    BY <1>5, Zenon DEF set_close_quietly, kind, flags, handshake
  <2>2. quiet'
    BY <1>5, Zenon DEF set_close_quietly
  <2> QED
    BY <2>1, <2>2, Zenon DEF EndInv, Ended
<1>6. CASE RunClose /\ UNCHANGED kind
  <2>1. UNCHANGED <<draining, handshake, quiet>>
    BY <1>6, Zenon DEF RunClose
  <2>2. CASE ~in_conns \/ closing \/ draining
    <3>1. UNCHANGED <<closing, in_conns, cleanups, parked, closes>>
      BY <1>6, <2>2, Zenon DEF RunClose, Close
    <3> QED
      BY <1>6, <2>1, <3>1, EndStays, Zenon DEF EndInv, Ended, handshake
  <2>3. CASE ~(~in_conns \/ closing \/ draining)
    <3>1. _execute_close_hooks /\ closing' = TRUE
      BY <1>6, <2>3, Zenon DEF RunClose, Close, delete_connection
    <3> QED
      BY <1>6, <2>1, <3>1, EndsNow, Zenon DEF Ended
  <2> QED
    BY <2>2, <2>3, Zenon
<1>7. CASE RunIdle /\ UNCHANGED kind
  <2>1. UNCHANGED <<draining, cleanups, parked, handshake, quiet>>
    BY <1>7, Zenon DEF RunIdle
  <2>2. CASE ~in_conns \/ closing \/ draining
    <3>1. UNCHANGED <<closing, in_conns, closes>>
      BY <1>7, <2>2, Zenon DEF RunIdle, Drop
    <3> QED
      BY <1>7, <2>1, <3>1, EndStays, Zenon DEF EndInv, Ended, handshake
  <2>3. CASE ~(~in_conns \/ closing \/ draining)
    <3>1. _execute_close_hooks /\ closing' = TRUE
      BY <1>7, <2>3, Zenon DEF RunIdle, Drop, delete_connection
    <3> QED
      BY <1>7, <2>1, <3>1, EndsNow, Zenon DEF Ended
  <2> QED
    BY <2>2, <2>3, Zenon
<1>8. CASE RunDrop /\ UNCHANGED kind
  <2>1. UNCHANGED <<draining, cleanups, parked, handshake, quiet>>
    BY <1>8, Zenon DEF RunDrop
  <2>2. CASE ~in_conns
    <3>1. UNCHANGED <<closing, in_conns, closes>>
      BY <1>8, <2>2, Zenon DEF RunDrop, Drop
    <3> QED
      BY <1>8, <2>1, <3>1, EndStays, Zenon DEF EndInv, Ended, handshake
  <2>3. CASE in_conns
    <3>1. _execute_close_hooks /\ closing' = TRUE
      BY <1>8, <2>3, Zenon DEF RunDrop, Drop, delete_connection
    <3> QED
      BY <1>8, <2>1, <3>1, EndsNow, Zenon DEF Ended
  <2> QED
    BY <2>2, <2>3, Zenon
<1>9. CASE drain_connection /\ UNCHANGED kind
  <2>1. UNCHANGED <<closing, in_conns, parked, handshake, quiet>>
    BY <1>9, Zenon DEF drain_connection
  <2>2. CASE ~Alive \/ closing \/ draining
    <3>1. UNCHANGED <<draining, cleanups, closes>>
      BY <1>9, <2>2, Zenon DEF drain_connection
    <3> QED
      BY <1>9, <2>1, <3>1, EndStays, Zenon DEF EndInv, Ended, handshake
  <2>3. CASE ~(~Alive \/ closing \/ draining)
    <3>1. _execute_close_hooks /\ draining' = TRUE
      BY <1>9, <2>3, Zenon DEF drain_connection
    <3> QED
      BY <1>9, <2>1, <3>1, EndsNow, Zenon DEF Ended, EndInv
  <2> QED
    BY <2>2, <2>3, Zenon
<1>10. CASE Cleanup
  <2>1. UNCHANGED <<kind, draining, parked, handshake, quiet, closes>> /\ cleanups > 0
    BY <1>10, Zenon DEF Cleanup
  <2>2. Ended
    BY <2>1, Zenon DEF EndInv
  <2>3. \/ closing' = TRUE
        \/ UNCHANGED <<closing, in_conns>>
    BY <1>10, Zenon DEF Cleanup, delete_connection
  <2> QED
    BY <2>1, <2>2, <2>3, EndStays, Zenon DEF EndInv, Ended, handshake
<1>11. CASE SendParked
  <2>1. UNCHANGED <<kind, draining, cleanups, handshake, quiet, closes>> /\ closing
    BY <1>11, Zenon DEF SendParked, EndInv
  <2>2. \/ closing' = TRUE
        \/ UNCHANGED <<closing, in_conns>>
    BY <1>11, Zenon DEF SendParked, delete_connection
  <2>3. closing'
    BY <2>1, <2>2, Zenon
  <2> QED
    BY <2>1, <2>3, EndStays, Zenon DEF EndInv, Ended, handshake
<1> QED
  BY <1>1, <1>2, <1>3, <1>4, <1>5, <1>6, <1>7, <1>8, <1>9, <1>10, <1>11, Zenon DEF Next, Events, Jobs

-----------------------------------------------------------------------------
(* What is told, and the jobs.                                             *)

LEMMA AppendIn ==
  ASSUME NEW S, NEW q \in Seq(S), NEW e \in S
  PROVE  Append(q, e) \in Seq(S)
  OBVIOUS

LEMMA ListsInit == Init => Lists
  BY DEF Init, Lists

\* Every step takes the first job off the queue, or leaves it, and may add jobs.
LEMMA ListsNext ==
  ASSUME Lists, [Next]_vars
  PROVE  Lists'
<1> USE DEF Lists
<1>1. \/ UNCHANGED told
      \/ told' = Append(told, "established")
      \/ told' = Append(told, "closed")
  BY Zenon DEF Next, vars, Events, Jobs, EarlyData, on_handshake, check_established, read_packet, OnExpiry,
               FlushFails, close_connection, set_close_quietly, ReleaseRef, RunClose, Close, RunIdle,
               RunDrop, Drop, _execute_close_hooks, drain_connection, RunReset, Cleanup, SendParked
<1>2. told' \in Seq({"established", "closed"})
  BY <1>1, AppendIn, Zenon
<1>3. jobs' \in Seq(JobNames)
  <2>1. CASE jobs' = jobs
    BY <2>1, Zenon
  <2>2. CASE \E a \in JobNames : Queue(<<a>>)
    BY <2>2 DEF Queue
  <2>3. CASE Queue(<<"drop", "drain">>)
    BY <2>3 DEF Queue, JobNames
  <2>4. CASE jobs' = Append(jobs, "reset")
    BY <2>4 DEF JobNames
  <2>5. CASE jobs # <<>> /\ (jobs' = Tail(jobs) \/ jobs' = Append(Tail(jobs), "reset"))
    <3>1. Tail(jobs) \in Seq(JobNames)
      BY <2>5
    <3> QED
      BY <2>5, <3>1, AppendIn, Zenon DEF JobNames
  <2> QED
    <3>1. CASE Events
      BY <3>1, <2>1, <2>2, <2>3, Zenon DEF Events, EarlyData, on_handshake, read_packet, OnExpiry, FlushFails,
           close_connection, set_close_quietly, ReleaseRef, JobNames
    <3>2. CASE Jobs
      BY <3>2, <2>1, <2>5, Zenon DEF Jobs, RunClose, Close, RunIdle, RunDrop, Drop, delete_connection,
           drain_connection, RunReset
    <3>3. CASE Cleanup \/ SendParked \/ UNCHANGED vars
      BY <3>3, <2>1, <2>4, Zenon DEF Cleanup, SendParked, delete_connection, vars
    <3> QED
      BY <3>1, <3>2, <3>3, Zenon DEF Next
<1> QED
  BY <1>2, <1>3, Zenon

LEMMA OnceInit == Init => OnceInv
  BY DEF Init, OnceInv, Sofar

\* Without drops no queued job is one; the queue is as in ListsNext.
LEMMA NoDropQueued ==
  ASSUME Lists, ~drops, \A i \in DOMAIN jobs : jobs[i] # "drop", [Next]_vars
  PROVE  (\A i \in DOMAIN jobs : jobs[i] # "drop")'
<1> USE DEF Lists
<1> DEFINE Others == JobNames \ {"drop"}
<1>1. jobs \in Seq(Others)
  OBVIOUS
<1>2. jobs' \in Seq(Others)
  <2>1. CASE jobs' = jobs
    BY <1>1, <2>1, Zenon
  <2>2. CASE \E a \in Others : Queue(<<a>>)
    BY <1>1, <2>2 DEF Queue
  <2>4. CASE jobs' = Append(jobs, "reset")
    BY <1>1, <2>4 DEF JobNames
  <2>5. CASE jobs # <<>> /\ (jobs' = Tail(jobs) \/ jobs' = Append(Tail(jobs), "reset"))
    <3>1. Tail(jobs) \in Seq(Others)
      BY <1>1, <2>5
    <3> QED
      BY <2>5, <3>1, AppendIn, Zenon DEF JobNames
  <2> QED
    <3>0. {"close", "idle", "drain"} \subseteq Others
      BY Zenon DEF JobNames
    <3>1. CASE Events
      BY <3>0, <3>1, <2>1, <2>2, Zenon DEF Events, EarlyData, on_handshake, read_packet, OnExpiry, FlushFails,
           close_connection, set_close_quietly, ReleaseRef
    <3>2. CASE Jobs
      BY <3>2, <2>1, <2>5, Zenon DEF Jobs, RunClose, Close, RunIdle, RunDrop, Drop, delete_connection,
           drain_connection, RunReset
    <3>3. CASE Cleanup \/ SendParked \/ UNCHANGED vars
      BY <3>3, <2>1, <2>4, Zenon DEF Cleanup, SendParked, delete_connection, vars
    <3> QED
      BY <3>1, <3>2, <3>3, Zenon DEF Next
<1> QED
  BY <1>2

\* What a step may tell the application: that the connection is established, before
\* it has ended; that it is closed, as it ends; or nothing.
LEMMA WhatIsTold ==
  ASSUME TypeOK, EndInv, OnceInv, [Next]_vars
  PROVE  \/ UNCHANGED <<told, established, closes>>
         \/ ~Ended /\ check_established /\ UNCHANGED closes
         \/ ~Ended /\ _execute_close_hooks /\ UNCHANGED established
<1>1. CASE Events
  BY <1>1, Zenon DEF Events, EarlyData, on_handshake, Receives, Reads, Ended, read_packet, OnExpiry, FlushFails,
       close_connection, set_close_quietly, ReleaseRef, handshake
<1>2. CASE RunClose \/ RunIdle \/ drain_connection \/ RunReset
  BY <1>2, Zenon DEF RunClose, Close, RunIdle, Drop, drain_connection, RunReset, Ended, handshake
<1>3. ~RunDrop
  <2>1. jobs \in Seq(JobNames)
    BY TypeParts, Zenon DEF Lists
  <2>2. jobs # <<>> => 1 \in DOMAIN jobs /\ Head(jobs) = jobs[1]
    BY <2>1
  <2> QED
    BY <2>2, Zenon DEF RunDrop, OnceInv
<1>4. CASE Cleanup \/ SendParked \/ UNCHANGED vars
  BY <1>4, Zenon DEF Cleanup, SendParked, vars, handshake
<1> QED
  BY <1>1, <1>2, <1>3, <1>4, Zenon DEF Next, Jobs

LEMMA OnceNext ==
  ASSUME TypeOK, EndInv, ~drops, OnceInv, [Next]_vars
  PROVE  OnceInv'
<1>1. (\A i \in DOMAIN jobs : jobs[i] # "drop")'
  <2>1. Lists
    BY TypeParts, Zenon
  <2> QED
    BY <2>1, NoDropQueued, Zenon DEF OnceInv
<1>2. told' = Sofar(established', closes')
  <2>1. CASE UNCHANGED <<told, established, closes>>
    BY <2>1, Zenon DEF OnceInv
  <2>2. CASE ~Ended /\ check_established /\ UNCHANGED closes
    <3>1. CASE established
      BY <2>2, <3>1, Zenon DEF check_established, OnceInv
    <3>2. CASE ~established
      <4>1. closes = 0 /\ closes' = 0
        BY <2>2, Zenon DEF EndInv
      <4>2. told = <<>>
        BY <3>2, <4>1, Zenon DEF OnceInv, Sofar
      <4>3. told' = Append(told, "established") /\ established' = TRUE
        BY <2>2, <3>2, Zenon DEF check_established
      <4> QED
        BY <4>1, <4>2, <4>3 DEF Sofar
    <3> QED
      BY <3>1, <3>2, Zenon
  <2>3. CASE ~Ended /\ _execute_close_hooks /\ UNCHANGED established
    <3>1. closes = 0
      BY <2>3, Zenon DEF EndInv
    <3>2. CASE UNCHANGED <<closes, told>>
      BY <2>3, <3>2, Zenon DEF OnceInv
    <3>3. CASE closes' = closes + 1 /\ told' = Append(told, "closed")
      <4>1. told = IF established THEN <<"established">> ELSE <<>>
        BY <3>1, Zenon DEF OnceInv, Sofar
      <4>2. closes' # 0
        BY <3>1, <3>3
      <4> QED
        BY <2>3, <3>3, <4>1, <4>2 DEF Sofar
    <3> QED
      BY <2>3, <3>2, <3>3, Zenon DEF _execute_close_hooks
  <2> QED
    BY <2>1, <2>2, <2>3, WhatIsTold, Zenon
<1> QED
  BY <1>1, <1>2, Zenon DEF OnceInv

-----------------------------------------------------------------------------
(* The theorems.                                                           *)

\* CloseInv holds of a connection from Connection::make_conn to its deletion and after.
THEOREM CloseInvariant == Spec => []CloseInv
<1>1. Init => CloseInv
  <2> SUFFICES ASSUME Init PROVE CloseInv
    BY Zenon
  <2>1. Counts
    BY Zenon DEF Init, Counts
  <2> QED
    BY <2>1, TypeParts, FlagsInit, PeerInit, ListsInit, EndInit, OnceInit, Zenon DEF CloseInv
<1>2. CloseInv /\ [Next]_vars => CloseInv'
  <2> SUFFICES ASSUME CloseInv, [Next]_vars PROVE CloseInv'
    BY Zenon
  <2>1. TypeOK /\ EndInv /\ (~drops => OnceInv)
    BY Zenon DEF CloseInv
  <2>2. TypeOK'
    BY <2>1, TypeParts, TypePartsNext, FlagsNext, PeerNext, CountsNext, ListsNext, Zenon
  <2>3. EndInv'
    BY <2>1, EndNext, Zenon
  <2>4. drops' = drops
    BY Zenon DEF Next, vars, Events, Jobs, Cleanup, SendParked, kind
  <2>5. ~drops => OnceInv'
    BY <2>1, OnceNext, Zenon
  <2> QED
    BY <2>2, <2>3, <2>4, <2>5, Zenon DEF CloseInv
<1> QED
  BY <1>1, <1>2, PTL DEF Spec

\* What the application hears of a connection (Endpoint::_execute_close_hooks,
\* Connection::check_established): that it is established at most once, that it is
\* closed at most once and nothing after that, unless something drops it; the end of
\* every connection it was told of, unless the peer sends early data; and the end of
\* an accepted connection only if it was told of its beginning.
THEOREM TheApplicationIsToldOfEnds == Spec => []ToldOfEnds
<1>1. CloseInv => ToldOfEnds
  <2> SUFFICES ASSUME CloseInv PROVE ToldOfEnds
    BY Zenon
  <2>1. TypeOK /\ EndInv /\ (~drops => OnceInv)
    BY Zenon DEF CloseInv
  <2>2. ASSUME ~drops PROVE ToldInOrder
    <3>1. told = Sofar(established, closes)
      BY <2>1, <2>2, Zenon DEF OnceInv
    <3> QED
      BY <3>1, Zenon DEF Sofar, ToldInOrder
  <2>3. ~early => EveryEndTold
    BY <2>1, Zenon DEF EveryEndTold, EndInv, Ended
  <2>4. NoUnknownClose
    BY <2>1, Zenon DEF NoUnknownClose, EndInv
  <2> QED
    BY <2>1, <2>2, <2>3, <2>4, Zenon DEF ToldOfEnds
<1> QED
  BY <1>1, CloseInvariant, PTL

\* Once delete_connection has taken a connection out of the endpoint, none of the
\* jobs, timers and packets still under way runs its hooks or arms a timer.
THEOREM DeletedForGood == Spec => GoneIsFinal
<1>1. CloseInv /\ [Next]_vars => [AfterDeletion]_vars
  <2> SUFFICES ASSUME CloseInv, Next, ~in_conns PROVE UNCHANGED closes /\ cleanups' <= cleanups
    BY Zenon DEF AfterDeletion
  <2>1. closing /\ cleanups \in Nat
    BY TypeParts, Zenon DEF CloseInv, EndInv, Counts
  <2>2. UNCHANGED closes
    BY <2>1, Zenon DEF Next, Events, Jobs, EarlyData, on_handshake, read_packet, OnExpiry, FlushFails,
                 close_connection, set_close_quietly, ReleaseRef, RunClose, Close, RunIdle, RunDrop,
                 Drop, drain_connection, RunReset, Cleanup, SendParked
  <2>3. cleanups' = cleanups \/ cleanups' = cleanups - 1
    BY <2>1, Zenon DEF Next, Events, Jobs, EarlyData, on_handshake, read_packet, OnExpiry, FlushFails,
                 close_connection, set_close_quietly, ReleaseRef, RunClose, Close, RunIdle, RunDrop,
                 drain_connection, RunReset, Cleanup, SendParked
  <2>4. cleanups' <= cleanups
    BY <2>1, <2>3
  <2> QED
    BY <2>2, <2>4, Zenon
<1> QED
  BY <1>1, CloseInvariant, PTL DEF Spec, GoneIsFinal

-----------------------------------------------------------------------------
(* The end of a Network.                                                   *)

\* Steps that only begin what the application thread has left to do.
Heads == {"wait", "insert", "delete", "close_ep", "close_all", "stop"}

\* How the steps of the application thread follow one another, with the pointers h it holds; gone
\* says that the Network is.
Fits(s, h, gone) ==
    \A i \in DOMAIN s :
        /\ i # 1 => s[i].op \notin Heads
        /\ s[i].op = "reset" => i = Len(s) /\ s[i].ep \in h
        /\ s[i].op = "members" => \A k \in DOMAIN s : k > i => s[k].op = "unloop"
        /\ gone => s[i].op \in {"unloop", "stop", "wait"}

HeadIs(o) == app # <<>> /\ app[1].op = o
InApp(ops) == \E i \in DOMAIN app : app[i].op \in ops

\* Nobody has a pointer to e, and no job is to close it.
Unowned(e) ==
    /\ e \in Endpoints /\ e \notin endpoints /\ e \notin held /\ locked # e
    /\ \A j \in Line : j.do = "close_ep" => j.ep # e

\* What is true of each job: who owns the endpoint it is about, and what it follows from.
JobTrue(j) ==
    /\ j.owns => j.do = "close_ep" /\ j.ep \in Endpoints /\ state[j.ep] = "live"
    /\ j.do = "close_ep" /\ ~j.owns => j.get /\ j.ep \in held
    /\ j.do = "delete" => Unowned(j.ep)
    /\ j.ep \in Endpoints => state[j.ep] # "none"
    /\ j.do = "stop" /\ j # NoJob => j.get
    /\ j.get => HeadIs("wait")
    /\ j.do = "close_soon" => shut
JobsTrue == \A j \in Line : JobTrue(j)

\* The job that the application waits for is the last, and nothing that works on the Network but
\* such a job comes behind a close_soon().
InTurn ==
    /\ \A i \in DOMAIN net_jobs : net_jobs[i].get => i = Len(net_jobs)
    /\ running.get => net_jobs = <<>>
    /\ \A i, k \in DOMAIN net_jobs :
          i < k /\ net_jobs[i].do = "close_soon" => Quiet(net_jobs[k]) \/ net_jobs[k].get
    /\ running.do = "close_soon" => \A k \in DOMAIN net_jobs : Quiet(net_jobs[k]) \/ net_jobs[k].get
    /\ running # NoJob => locked = None

\* The Network's, the application's and a callback's pointers are to live endpoints.
PointersLive ==
    /\ \A e \in endpoints \cup held : state[e] = "live"
    /\ locked # None => state[locked] = "live"

\* What the application thread is about to do makes sense.
HeadTrue ==
    /\ HeadIs("close_ep") => ~shut /\ Len(app) = 2 /\ app[2] = Step("reset", app[1].ep)
    /\ HeadIs("close_all") => app[1].ep = None /\ ~InApp({"clearing"})
    /\ HeadIs("stop") => app[1].ep = None /\ Len(app) = 1
    /\ HeadIs("delete") => Unowned(app[1].ep) /\ (app[1].ep \in Endpoints => state[app[1].ep] # "none")
    /\ HeadIs("insert") => /\ Len(app) = 1 /\ app[1].ep \in Endpoints /\ state[app[1].ep] = "live"
                           /\ Unowned(app[1].ep) /\ (\A j \in Line : j.ep # app[1].ep)
                           /\ (~Late => Settled)
AppTrue == Fits(app, held, net = "gone") /\ HeadTrue

\* The application waits for a job that comes behind all others, or is about to queue it.
Draining == HeadIs("close_ep") \/ HeadIs("close_all") \/ \E j \in Line : j.get

\* Unless the shutdown is made immediate while jobs are queued, none of them works on the Network
\* when it is, or when the endpoints are cleared.
Calm ==
    ~Hasty =>
        /\ shutdown_immediate \/ InApp({"clear", "clearing", "immediate", "members"}) => AllQuiet \/ Draining
        /\ InApp({"clearing"}) \/ net = "gone" => AllQuiet

\* What is inductive.
NetworkInv ==
    NetworkType /\ NoneAbandoned /\ PointersLive /\ JobsTrue /\ InTurn /\ AppTrue /\ Calm

-----------------------------------------------------------------------------
\* What a sequence is made of.
LEMMA SeqParts ==
    ASSUME NEW S, NEW s \in Seq(S)
    PROVE  Len(s) \in Nat /\ DOMAIN s = 1..Len(s) /\ \A i \in DOMAIN s : s[i] \in S
  OBVIOUS

LEMMA ShortSeq ==
    ASSUME NEW S
    PROVE  <<>> \in Seq(S) /\ DOMAIN <<>> = {} /\ \A x \in S : <<x>> \in Seq(S)
  OBVIOUS

LEMMA TailParts ==
    ASSUME NEW S, NEW s \in Seq(S), s # <<>>
    PROVE  /\ 1 \in DOMAIN s /\ Head(s) = s[1] /\ s[1] \in S
           /\ Tail(s) \in Seq(S) /\ Len(Tail(s)) = Len(s) - 1
           /\ \A i \in DOMAIN Tail(s) : i + 1 \in DOMAIN s /\ i + 1 # 1 /\ Tail(s)[i] = s[i + 1]
  OBVIOUS

LEMMA Pushed ==
    ASSUME NEW S, NEW s \in Seq(S), NEW x \in S
    PROVE  /\ <<x>> \o s \in Seq(S) /\ <<x>> \o s # <<>> /\ Len(<<x>> \o s) = Len(s) + 1
           /\ (<<x>> \o s)[1] = x
           /\ \A i \in DOMAIN (<<x>> \o s) : i = 1 \/ (i - 1 \in DOMAIN s /\ (<<x>> \o s)[i] = s[i - 1])
  OBVIOUS

LEMMA Appended ==
    ASSUME NEW S, NEW s \in Seq(S), NEW x \in S
    PROVE  /\ Append(s, x) \in Seq(S) /\ Len(Append(s, x)) = Len(s) + 1
           /\ DOMAIN Append(s, x) = 1..Len(s) + 1
           /\ Append(s, x)[Len(s) + 1] = x /\ \A i \in 1..Len(s) : Append(s, x)[i] = s[i]
  OBVIOUS

\* A step less.
LEMMA FitsTail ==
    ASSUME NEW s \in Seq(Steps), s # <<>>, NEW h, NEW gone \in BOOLEAN, Fits(s, h, gone)
    PROVE  Fits(Tail(s), h, gone) /\ \A i \in DOMAIN Tail(s) : Tail(s)[i].op \notin Heads
<1>1. /\ Len(Tail(s)) = Len(s) - 1 /\ DOMAIN Tail(s) = 1..Len(Tail(s)) /\ Len(s) \in Nat /\ DOMAIN s = 1..Len(s)
      /\ \A i \in DOMAIN Tail(s) : i + 1 \in DOMAIN s /\ i + 1 # 1 /\ Tail(s)[i] = s[i + 1]
    BY TailParts, SeqParts, Zenon
<1> DEFINE t == Tail(s)
<1> HIDE DEF t
<1>2. \A i \in DOMAIN t : t[i].op \notin Heads
    BY <1>1, Zenon DEF Fits, t
<1>3. ASSUME NEW i \in DOMAIN t
      PROVE  /\ t[i].op = "reset" => i = Len(t) /\ t[i].ep \in h
             /\ t[i].op = "members" => \A k \in DOMAIN t : k > i => t[k].op = "unloop"
             /\ gone => t[i].op \in {"unloop", "stop", "wait"}
    BY <1>1, <1>3 DEF Fits, t
<1> QED BY <1>2, <1>3, Zenon DEF Fits, t

\* A step more.
LEMMA FitsPush ==
    ASSUME NEW s \in Seq(Steps), NEW x \in Steps, NEW h, NEW gone \in BOOLEAN, Fits(s, h, gone),
           \A i \in DOMAIN s : s[i].op \notin Heads,
           x.op \notin {"reset", "members"}, gone => x.op \in {"unloop", "stop", "wait"}
    PROVE  Fits(<<x>> \o s, h, gone)
<1>1. /\ Len(<<x>> \o s) = Len(s) + 1 /\ (<<x>> \o s)[1] = x
      /\ \A i \in DOMAIN (<<x>> \o s) : i = 1 \/ (i - 1 \in DOMAIN s /\ (<<x>> \o s)[i] = s[i - 1])
      /\ Len(s) \in Nat /\ DOMAIN s = 1..Len(s) /\ DOMAIN (<<x>> \o s) = 1..Len(s) + 1
    BY Pushed, SeqParts
<1> DEFINE t == <<x>> \o s
<1> HIDE DEF t
<1>2. ASSUME NEW i \in DOMAIN t
      PROVE  /\ i # 1 => t[i].op \notin Heads
             /\ t[i].op = "reset" => i = Len(t) /\ t[i].ep \in h
             /\ t[i].op = "members" => \A k \in DOMAIN t : k > i => t[k].op = "unloop"
             /\ gone => t[i].op \in {"unloop", "stop", "wait"}
  <2>1. CASE i = 1
    BY <1>1, <2>1, Zenon DEF t
  <2>2. CASE i - 1 \in DOMAIN s /\ t[i] = s[i - 1]
    <3>1. /\ t[i].op \notin Heads
          /\ t[i].op = "reset" => i - 1 = Len(s) /\ t[i].ep \in h
          /\ t[i].op = "members" => \A k \in DOMAIN s : k > i - 1 => s[k].op = "unloop"
          /\ gone => t[i].op \in {"unloop", "stop", "wait"}
      BY <2>2, Zenon DEF Fits
    <3> QED BY <1>1, <2>2, <3>1 DEF t
  <2> QED BY <1>1, <2>1, <2>2, Zenon DEF t
<1> QED BY <1>2, Zenon DEF Fits, t

-----------------------------------------------------------------------------
\* The job that is none is true.
LEMMA NoJobTrue == NoJob \in NetJobs /\ Quiet(NoJob) /\ ~NoJob.get /\ JobTrue(NoJob) /\ JobTrue(NoJob)'
  BY NetworkAssumption, Zenon DEF NoJob, Job, NetJobs, Quiet, JobTrue

\* Jobs are jobs.
LEMMA LineTypes ==
    ASSUME NetworkType
    PROVE  Line \subseteq NetJobs /\ running \in Line /\ \A i \in DOMAIN net_jobs : net_jobs[i] \in Line
<1>1. net_jobs \in Seq(NetJobs) /\ running \in NetJobs
    BY Zenon DEF NetworkType
<1>2. \A i \in DOMAIN net_jobs : net_jobs[i] \in NetJobs
    BY <1>1, SeqParts, Zenon
<1> QED BY <1>1, <1>2, Zenon DEF Line

\* Nobody waits unless the application thread does.
LEMMA NoGet ==
    ASSUME JobsTrue, ~HeadIs("wait")
    PROVE  \A j \in Line : ~j.get
  BY Zenon DEF JobsTrue, JobTrue

\* A new job.
LEMMA LineAdd ==
    ASSUME NetworkType, NEW j \in NetJobs, net_jobs' = Append(net_jobs, j), running' = running
    PROVE  /\ Line' = Line \cup {j} /\ net_jobs' \in Seq(NetJobs) /\ Len(net_jobs') = Len(net_jobs) + 1
           /\ Len(net_jobs) \in Nat /\ DOMAIN net_jobs = 1..Len(net_jobs) /\ DOMAIN net_jobs' = 1..Len(net_jobs) + 1
           /\ net_jobs'[Len(net_jobs) + 1] = j
           /\ \A i \in DOMAIN net_jobs : i \in DOMAIN net_jobs' /\ net_jobs'[i] = net_jobs[i]
<1>1. net_jobs \in Seq(NetJobs)
    BY Zenon DEF NetworkType
<1>2. /\ Append(net_jobs, j) \in Seq(NetJobs) /\ Len(Append(net_jobs, j)) = Len(net_jobs) + 1
      /\ DOMAIN Append(net_jobs, j) = 1..Len(net_jobs) + 1 /\ Append(net_jobs, j)[Len(net_jobs) + 1] = j
      /\ \A i \in 1..Len(net_jobs) : Append(net_jobs, j)[i] = net_jobs[i]
    BY <1>1, Appended
<1>3. Len(net_jobs) \in Nat /\ DOMAIN net_jobs = 1..Len(net_jobs)
    BY <1>1, SeqParts, Zenon
<1>4. \A i \in DOMAIN net_jobs : i \in DOMAIN net_jobs' /\ net_jobs'[i] = net_jobs[i]
    BY <1>2, <1>3
<1>a. \A n \in Nat : n + 1 \in 1..n + 1 /\ \A i \in 1..n + 1 : i = n + 1 \/ i \in 1..n
    OBVIOUS
<1>5. \A i \in DOMAIN net_jobs' : i = Len(net_jobs) + 1 \/ i \in DOMAIN net_jobs
    BY <1>2, <1>3, <1>a, Zenon
<1>6. Len(net_jobs) + 1 \in DOMAIN net_jobs'
    BY <1>2, <1>3, <1>a, Zenon
<1>7. Line' = Line \cup {j}
    BY <1>2, <1>4, <1>5, <1>6, Zenon DEF Line
<1> QED BY <1>2, <1>3, <1>4, <1>7, Zenon

\* A job is taken from the queue.
LEMMA LineRun ==
    ASSUME NetworkType, net_jobs # <<>>, running' = Head(net_jobs), net_jobs' = Tail(net_jobs)
    PROVE  /\ Line' \subseteq Line /\ net_jobs' \in Seq(NetJobs) /\ running' \in NetJobs
           /\ Len(net_jobs') = Len(net_jobs) - 1 /\ 1 \in DOMAIN net_jobs /\ running' = net_jobs[1]
           /\ Len(net_jobs) \in Nat /\ DOMAIN net_jobs = 1..Len(net_jobs) /\ DOMAIN net_jobs' = 1..Len(net_jobs) - 1
           /\ \A i \in DOMAIN net_jobs' : i + 1 \in DOMAIN net_jobs /\ i + 1 # 1 /\ net_jobs'[i] = net_jobs[i + 1]
<1>1. net_jobs \in Seq(NetJobs)
    BY Zenon DEF NetworkType
<1>2. /\ 1 \in DOMAIN net_jobs /\ Head(net_jobs) = net_jobs[1] /\ net_jobs[1] \in NetJobs
      /\ Tail(net_jobs) \in Seq(NetJobs) /\ Len(Tail(net_jobs)) = Len(net_jobs) - 1
      /\ \A i \in DOMAIN Tail(net_jobs) :
            i + 1 \in DOMAIN net_jobs /\ i + 1 # 1 /\ Tail(net_jobs)[i] = net_jobs[i + 1]
    BY <1>1, TailParts, Zenon
<1>3. Len(net_jobs) \in Nat /\ DOMAIN net_jobs = 1..Len(net_jobs) /\ DOMAIN net_jobs' = 1..Len(net_jobs')
    BY <1>1, <1>2, SeqParts, Zenon
<1>4. Line' \subseteq Line
  <2>1. running' \in Line
    BY <1>2, Zenon DEF Line
  <2>2. \A i \in DOMAIN net_jobs' : net_jobs'[i] \in Line
    BY <1>2, Zenon DEF Line
  <2> QED BY <2>1, <2>2, Zenon DEF Line
<1> QED BY <1>2, <1>3, <1>4, Zenon

\* A job ends.
LEMMA LineEnd ==
    ASSUME running' = NoJob, net_jobs' = net_jobs \/ net_jobs' = <<>>
    PROVE  Line' \subseteq Line \cup {NoJob}
  BY DEF Line

\* Jobs stay true when little changes.
JobsSteady ==
    /\ Line' \subseteq Line \cup {NoJob} /\ UNCHANGED <<state, held, locked>> /\ endpoints' \subseteq endpoints
    /\ shut => shut'
    /\ \A j \in Line' : j.get => HeadIs("wait")'
LEMMA JobsSame == ASSUME JobsTrue, JobsSteady PROVE JobsTrue'
<1> SUFFICES ASSUME NEW j \in Line' PROVE JobTrue(j)'
    BY Zenon DEF JobsTrue
<1>1. CASE j = NoJob
    BY <1>1, NoJobTrue, Zenon
<1>2. CASE j \in Line
  <2>1. JobTrue(j)
    BY <1>2, Zenon DEF JobsTrue
  <2>2. Unowned(j.ep) => Unowned(j.ep)'
    BY NetworkAssumption DEF Unowned, JobsSteady, NoJob, Job
  <2> QED BY <2>1, <2>2, Zenon DEF JobTrue, JobsSteady
<1> QED BY <1>1, <1>2, Zenon DEF JobsSteady

\* The order of jobs that stay.
LEMMA TurnSame == ASSUME InTurn, UNCHANGED <<net_jobs, running, locked>> PROVE InTurn'
  BY Zenon DEF InTurn, Quiet

\* What the line is, if it stays.
LEMMA LineSame ==
    ASSUME UNCHANGED <<net_jobs, running>>
    PROVE  Line' = Line /\ (AllQuiet => AllQuiet') /\ (Settled => Settled') /\ (AllQuiet' => AllQuiet)
  BY Zenon DEF Line, AllQuiet, Quiet, Settled

\* A free application thread: what is queued is quiet once the shutdown is immediate.
LEMMA WhenFree ==
    ASSUME NetworkInv, app = <<>>
    PROVE  /\ \A j \in Line : ~j.get
           /\ ~Hasty /\ shutdown_immediate => AllQuiet
           /\ ~Hasty /\ net = "gone" => AllQuiet
<1>1. ~HeadIs("wait") /\ ~HeadIs("close_ep") /\ ~HeadIs("close_all")
    BY Zenon DEF HeadIs
<1>2. \A j \in Line : ~j.get
    BY <1>1, NoGet, Zenon DEF NetworkInv
<1> QED BY <1>1, <1>2, Zenon DEF NetworkInv, Calm, Draining

-----------------------------------------------------------------------------
LEMMA NetworkStart == NetworkInit => NetworkInv
<1> SUFFICES ASSUME NetworkInit PROVE NetworkInv
    BY Zenon
<1> USE DEF NetworkInit
<1>1. NetworkType
  <2>1. own_loop \in BOOLEAN /\ shut \in BOOLEAN /\ shutdown_immediate \in BOOLEAN
    BY Zenon
  <2>2. running \in NetJobs
    BY NoJobTrue, Zenon
  <2>3. state \in [Endpoints -> {"none", "live", "gone"}] /\ conns \in [Endpoints -> {"none", "open", "closed"}]
    BY Zenon
  <2>4. net_jobs \in Seq(NetJobs) /\ app \in Seq(Steps)
    OBVIOUS
  <2> QED BY <2>1, <2>2, <2>3, <2>4, Zenon DEF NetworkType
<1>2. NoneAbandoned /\ PointersLive
    BY Zenon DEF NoneAbandoned, PointersLive
<1>3. Line = {NoJob}
    BY DEF Line
<1>4. JobsTrue /\ AllQuiet
    BY <1>3, NoJobTrue, Zenon DEF JobsTrue, AllQuiet
<1>5. InTurn
    BY NoJobTrue DEF InTurn, NoJob, Job
<1>6. AppTrue
    BY DEF AppTrue, Fits, HeadTrue, HeadIs
<1> QED BY <1>1, <1>2, <1>4, <1>5, <1>6, Zenon DEF NetworkInv, Calm

-----------------------------------------------------------------------------
\* A call begins: only what the application thread has left to do changes, and flags.
CallBegins ==
    /\ app = <<>> /\ net # "gone" /\ net' \in {"up", "down"} /\ shut' \in BOOLEAN /\ (shut => shut')
    /\ app' \in Seq(Steps) /\ shutdown_immediate' \in BOOLEAN
    /\ UNCHANGED <<own_loop, state, conns, endpoints, held, net_jobs, running, locked>>
LEMMA CallKeeps ==
    ASSUME NetworkInv, CallBegins
    PROVE  /\ NetworkType' /\ NoneAbandoned' /\ PointersLive' /\ JobsTrue' /\ InTurn'
           /\ \A j \in Line' : ~j.get
           /\ ~Hasty /\ shutdown_immediate => AllQuiet'
<1>1. NetworkType'
    BY Zenon DEF NetworkInv, NetworkType, CallBegins
<1>2. NoneAbandoned' /\ PointersLive' /\ InTurn'
    BY TurnSame, Zenon DEF NetworkInv, NoneAbandoned, PointersLive, CallBegins
<1>3. /\ Line' = Line /\ (AllQuiet => AllQuiet')
    BY LineSame, Zenon DEF CallBegins
<1>4. (\A j \in Line : ~j.get) /\ (~Hasty /\ shutdown_immediate => AllQuiet)
    BY WhenFree, Zenon DEF CallBegins
<1>5. JobsSteady
    BY <1>3, <1>4, Zenon DEF JobsSteady, CallBegins
<1>6. JobsTrue'
    BY <1>5, JobsSame, Zenon DEF NetworkInv
<1> QED BY <1>1, <1>2, <1>3, <1>4, <1>6, Zenon

\* close(endpoint).
LEMMA CloseEndpointKeeps == ASSUME NetworkInv, NEW e \in Endpoints, close_endpoint(e) PROVE NetworkInv'
<1>1. /\ app' = <<Step("close_ep", e), Step("reset", e)>> /\ e \in held /\ ~shut /\ net = "up" /\ app = <<>>
      /\ UNCHANGED <<own_loop, state, conns, endpoints, shutdown_immediate, net, shut, held, net_jobs, running, locked>>
    BY Zenon DEF close_endpoint, Free, loop
<1>2. app' \in Seq(Steps)
    BY <1>1 DEF Steps, Step
<1>3. CallBegins
    BY <1>1, <1>2, Zenon DEF CallBegins, NetworkInv, NetworkType
<1>4. Fits(app', held', net' = "gone")
    BY <1>1 DEF Fits, Heads, Step
<1>5. HeadTrue'
    BY <1>1, Zenon DEF HeadTrue, HeadIs, Step
<1>6. Calm'
    BY <1>1, <1>3, CallKeeps DEF Calm, InApp, Step
<1> QED BY <1>3, <1>4, <1>5, <1>6, CallKeeps, Zenon DEF NetworkInv, AppTrue

\* The application lets go of an endpoint.
LEMMA ReleaseKeeps == ASSUME NetworkInv, NEW e \in Endpoints, Release(e) PROVE NetworkInv'
<1>1. /\ app' = <<Step("reset", e)>> /\ e \in held /\ net = "up" /\ app = <<>>
      /\ UNCHANGED <<own_loop, state, conns, endpoints, shutdown_immediate, net, shut, held, net_jobs, running, locked>>
    BY Zenon DEF Release, loop
<1>2. app' \in Seq(Steps)
    BY <1>1 DEF Steps, Step
<1>3. CallBegins
    BY <1>1, <1>2, Zenon DEF CallBegins, NetworkInv, NetworkType
<1>4. Fits(app', held', net' = "gone")
    BY <1>1 DEF Fits, Heads, Step
<1>5. HeadTrue'
    BY <1>1, Zenon DEF HeadTrue, HeadIs, Step
<1>6. Calm'
    BY <1>1, <1>3, CallKeeps DEF Calm, InApp, Step
<1> QED BY <1>3, <1>4, <1>5, <1>6, CallKeeps, Zenon DEF NetworkInv, AppTrue

\* close().
LEMMA CloseKeeps == ASSUME NetworkInv, close PROVE NetworkInv'
<1>1. /\ app' = CloseSteps /\ net = "up" /\ app = <<>> /\ shut' = TRUE
      /\ UNCHANGED <<own_loop, state, conns, endpoints, shutdown_immediate, net, held, net_jobs, running, locked>>
    BY Zenon DEF close, Free, loop
<1>2. app' \in Seq(Steps)
    BY <1>1 DEF CloseSteps, Steps, Step
<1>3. CallBegins
    BY <1>1, <1>2, Zenon DEF CallBegins, NetworkInv, NetworkType
<1>4. Fits(app', held', net' = "gone")
    BY <1>1 DEF CloseSteps, Fits, Heads, Step
<1>5. HeadIs("close_all")' /\ ~InApp({"clearing"})' /\ app'[1].ep = None
    BY <1>1 DEF CloseSteps, HeadIs, InApp, Step
<1>6. HeadTrue'
    BY <1>5, Zenon DEF HeadTrue, HeadIs
<1>7. Calm'
    BY <1>1, <1>5, Zenon DEF Calm, Draining
<1> QED BY <1>3, <1>4, <1>6, <1>7, CallKeeps, Zenon DEF NetworkInv, AppTrue

\* ~Network begins.
LEMMA DestroyNetworkKeeps == ASSUME NetworkInv, DestroyNetwork PROVE NetworkInv'
<1>1. /\ app' = Destructor /\ net = "up" /\ app = <<>> /\ net' = "down"
      /\ UNCHANGED <<own_loop, state, conns, endpoints, shutdown_immediate, shut, held, net_jobs, running, locked>>
    BY Zenon DEF DestroyNetwork, loop
<1> DEFINE tail == <<Step("clear", None), Step("members", None), Step("unloop", None)>>
<1> DEFINE all == <<Step("close_all", None), Step("clear", None), Step("immediate", None), Step("clear", None),
                    Step("members", None), Step("unloop", None)>>
<1>2. app' = IF shutdown_immediate THEN tail ELSE all
    BY <1>1, Zenon DEF Destructor
<1>3. tail \in Seq(Steps) /\ all \in Seq(Steps)
    BY DEF Steps, Step
<1>4. CallBegins
    BY <1>1, <1>2, <1>3, Zenon DEF CallBegins, NetworkInv, NetworkType
<1>5. Fits(tail, held, FALSE) /\ Fits(all, held, FALSE)
    BY DEF Fits, Heads, Step
<1>6. Fits(app', held', net' = "gone")
    BY <1>1, <1>2, <1>5, Zenon
<1>7. CASE shutdown_immediate
  <2>1. app' = tail
    BY <1>2, <1>7, Zenon
  <2>2. HeadTrue' /\ ~InApp({"clearing"})'
    BY <2>1 DEF HeadTrue, HeadIs, InApp, Step
  <2>3. Calm'
    BY <1>1, <1>4, <1>7, <2>2, CallKeeps, Zenon DEF Calm
  <2> QED BY <1>4, <1>6, <2>2, <2>3, CallKeeps, Zenon DEF NetworkInv, AppTrue
<1>8. CASE ~shutdown_immediate
  <2>1. app' = all
    BY <1>2, <1>8, Zenon
  <2>2. HeadIs("close_all")' /\ ~InApp({"clearing"})' /\ app'[1].ep = None
    BY <2>1 DEF HeadIs, InApp, Step
  <2>3. HeadTrue'
    BY <2>2, Zenon DEF HeadTrue, HeadIs
  <2>4. Calm'
    BY <1>1, <2>2, Zenon DEF Calm, Draining
  <2> QED BY <1>4, <1>6, <2>3, <2>4, CallKeeps, Zenon DEF NetworkInv, AppTrue
<1> QED BY <1>7, <1>8, Zenon

\* Nothing left to do.
LEMMA NothingToDo ==
    ASSUME app' = <<>>
    PROVE  AppTrue' /\ (\A o : ~HeadIs(o)') /\ \A ops : ~InApp(ops)'
  BY DEF AppTrue, HeadTrue, HeadIs, Fits, InApp

\* The shutdown is made immediate.
LEMMA SetImmediateKeeps == ASSUME NetworkInv, set_shutdown_immediate PROVE NetworkInv'
<1>1. /\ UNCHANGED app /\ net = "up" /\ app = <<>> /\ shutdown_immediate' = TRUE /\ (Hasty \/ Settled)
      /\ UNCHANGED <<own_loop, state, conns, endpoints, net, shut, held, net_jobs, running, locked>>
    BY Zenon DEF set_shutdown_immediate, loop, Free, thread
<1>2. CallBegins
    BY <1>1, Zenon DEF CallBegins, NetworkInv, NetworkType
<1>3. AppTrue'
    BY <1>1, NothingToDo, Zenon
<1>4. Calm'
  <2>1. Settled => Line = {NoJob}
    BY DEF Settled, Line
  <2>2. Settled => AllQuiet
    BY <2>1, NoJobTrue, Zenon DEF AllQuiet
  <2>3. AllQuiet => AllQuiet'
    BY <1>1, LineSame, Zenon
  <2> QED BY <1>1, <2>2, <2>3, Zenon DEF Calm
<1> QED BY <1>2, <1>3, <1>4, CallKeeps, Zenon DEF NetworkInv

\* Network::endpoint: nobody knows of the new endpoint yet.
LEMMA EndpointKeeps == ASSUME NetworkInv, NEW e \in Endpoints, endpoint(e) PROVE NetworkInv'
<1>1. /\ app' = <<Step("insert", e)>> /\ net = "up" /\ app = <<>> /\ state[e] = "none" /\ (Late \/ Settled)
      /\ state' = [state EXCEPT ![e] = "live"]
      /\ UNCHANGED <<own_loop, conns, endpoints, shutdown_immediate, net, shut, held, net_jobs, running, locked>>
    BY Zenon DEF endpoint, Free, loop
<1>2. state \in [Endpoints -> {"none", "live", "gone"}]
    BY Zenon DEF NetworkInv, NetworkType
<1>3. state'[e] = "live" /\ \A x \in Endpoints : x # e => state'[x] = state[x]
    BY <1>1, <1>2, Zenon
<1>4. NetworkType'
  <2>1. app' \in Seq(Steps)
    BY <1>1 DEF Steps, Step
  <2>2. state' \in [Endpoints -> {"none", "live", "gone"}]
    BY <1>1, <1>2, Zenon
  <2> QED BY <1>1, <2>1, <2>2, Zenon DEF NetworkInv, NetworkType
<1>5. e \notin endpoints /\ e \notin held /\ locked # e
  <2>1. "none" # "live"
    BY Zenon
  <2> QED BY <1>1, <2>1, NetworkAssumption, Zenon DEF NetworkInv, PointersLive
<1>6. /\ endpoints \subseteq Endpoints /\ held \subseteq Endpoints /\ locked \in Endpoints \cup {None}
    BY Zenon DEF NetworkInv, NetworkType
<1>7. NoneAbandoned'
    BY <1>1, <1>3, Zenon DEF NetworkInv, NoneAbandoned
<1>8. PointersLive'
    BY <1>1, <1>3, <1>5, <1>6, Zenon DEF NetworkInv, PointersLive
<1>9. Line' = Line /\ (AllQuiet => AllQuiet') /\ (Settled => Settled')
    BY <1>1, LineSame, Zenon
<1>10. \A j \in Line : j.ep # e
    BY <1>1, Zenon DEF NetworkInv, JobsTrue, JobTrue
<1>11. (\A j \in Line : ~j.get) /\ (~Hasty /\ shutdown_immediate => AllQuiet)
    BY <1>1, WhenFree, Zenon
<1>12. JobsTrue'
  <2> SUFFICES ASSUME NEW j \in Line PROVE JobTrue(j)'
    BY <1>9, Zenon DEF JobsTrue
  <2>1. JobTrue(j) /\ j.ep # e /\ ~j.get
    BY <1>10, <1>11, Zenon DEF NetworkInv, JobsTrue
  <2>2. j.ep \in Endpoints => state'[j.ep] = state[j.ep]
    BY <1>3, <2>1, Zenon
  <2>3. Unowned(j.ep) => Unowned(j.ep)'
    BY <1>1, <1>9, Zenon DEF Unowned
  <2> QED BY <1>1, <2>1, <2>2, <2>3, Zenon DEF JobTrue
<1>13. InTurn'
    BY <1>1, TurnSame, Zenon DEF NetworkInv
<1>14. Unowned(e)'
    BY <1>1, <1>5, <1>9, <1>10, Zenon DEF Unowned
<1>15. AppTrue'
  <2>1. Fits(app', held', net' = "gone")
    BY <1>1 DEF Fits, Step
  <2>2. app'[1].ep = e /\ app'[1].op = "insert" /\ Len(app') = 1
    BY <1>1, Zenon DEF Step
  <2>3. HeadTrue'
    BY <1>1, <1>3, <1>9, <1>10, <1>14, <2>2, Zenon DEF HeadTrue, HeadIs
  <2> QED BY <2>1, <2>3, Zenon DEF AppTrue
<1>16. Calm'
  <2>1. ~InApp({"clear", "clearing", "immediate", "members"})' /\ ~InApp({"clearing"})'
    BY <1>1 DEF InApp, Step
  <2>2. net' # "gone"
    BY <1>1, Zenon
  <2> QED BY <1>1, <1>9, <1>11, <2>1, <2>2, Zenon DEF Calm
<1> QED BY <1>4, <1>7, <1>8, <1>12, <1>13, <1>15, <1>16, Zenon DEF NetworkInv

\* A job is queued while the application thread is free: none has a close_soon() before it.
LEMMA TurnAdd ==
    ASSUME NetworkInv, NEW j \in NetJobs, net_jobs' = Append(net_jobs, j), UNCHANGED <<running, locked>>,
           \A x \in Line : ~x.get,
           (\A x \in Line : x.do # "close_soon") \/ Quiet(j) \/ j.get
    PROVE  InTurn'
<1>1. /\ Len(net_jobs') = Len(net_jobs) + 1
      /\ Len(net_jobs) \in Nat /\ DOMAIN net_jobs = 1..Len(net_jobs) /\ DOMAIN net_jobs' = 1..Len(net_jobs) + 1
      /\ net_jobs'[Len(net_jobs) + 1] = j
      /\ \A i \in DOMAIN net_jobs : i \in DOMAIN net_jobs' /\ net_jobs'[i] = net_jobs[i]
    BY LineAdd, Zenon DEF NetworkInv
<1>2. running \in Line /\ \A i \in DOMAIN net_jobs : net_jobs[i] \in Line
    BY LineTypes, Zenon DEF NetworkInv
<1>3. \A i \in DOMAIN net_jobs' : i = Len(net_jobs) + 1 \/ i \in DOMAIN net_jobs
    BY <1>1
<1>4. /\ \A i \in DOMAIN net_jobs' : net_jobs'[i].get => i = Len(net_jobs')
      /\ running'.get => net_jobs' = <<>>
  <2>1. running' = running
    OBVIOUS
  <2>2. \A i \in DOMAIN net_jobs : ~net_jobs'[i].get
    BY <1>1, <1>2, Zenon
  <2> QED BY <1>1, <1>2, <1>3, <2>1, <2>2, Zenon
<1>5. ASSUME NEW i \in DOMAIN net_jobs', NEW k \in DOMAIN net_jobs', i < k, net_jobs'[i].do = "close_soon"
      PROVE  Quiet(net_jobs'[k]) \/ net_jobs'[k].get
  <2>1. i \in DOMAIN net_jobs
    BY <1>1, <1>5
  <2>2. CASE k \in DOMAIN net_jobs
    <3>1. net_jobs'[i] = net_jobs[i] /\ net_jobs'[k] = net_jobs[k]
      BY <1>1, <2>1, <2>2, Zenon
    <3>2. Quiet(net_jobs[k]) \/ net_jobs[k].get
      BY <1>5, <2>1, <2>2, <3>1, Zenon DEF NetworkInv, InTurn
    <3> QED BY <3>1, <3>2, Zenon
  <2>3. CASE k = Len(net_jobs) + 1
    BY <1>1, <1>2, <1>5, <2>1, <2>3, Zenon
  <2> QED BY <1>3, <2>2, <2>3, Zenon
<1>6. ASSUME NEW k \in DOMAIN net_jobs', running'.do = "close_soon"
      PROVE  Quiet(net_jobs'[k]) \/ net_jobs'[k].get
  <2>2. CASE k \in DOMAIN net_jobs
    BY <1>1, <1>6, <2>2, Zenon DEF NetworkInv, InTurn
  <2>3. CASE k = Len(net_jobs) + 1
    BY <1>1, <1>2, <1>6, <2>3, Zenon
  <2> QED BY <1>3, <2>2, <2>3, Zenon
<1>7. running' # NoJob => locked' = None
    BY Zenon DEF NetworkInv, InTurn
<1>8. /\ \A i, k \in DOMAIN net_jobs' :
          i < k /\ net_jobs'[i].do = "close_soon" => Quiet(net_jobs'[k]) \/ net_jobs'[k].get
      /\ running'.do = "close_soon" => \A k \in DOMAIN net_jobs' : Quiet(net_jobs'[k]) \/ net_jobs'[k].get
    BY <1>5, <1>6, Zenon
<1> QED BY <1>4, <1>7, <1>8, Zenon DEF InTurn, Quiet

\* close_soon(endpoint): the application's pointer becomes the job's.
LEMMA CloseSoonEndpointKeeps ==
    ASSUME NetworkInv, NEW e \in Endpoints, close_soon_endpoint(e)
    PROVE  NetworkInv'
<1> DEFINE new == Job("close_ep", e, TRUE, FALSE)
<1>1. /\ net = "up" /\ app = <<>> /\ ~shut /\ e \in held /\ (Hasty \/ ~shutdown_immediate)
      /\ held' = held \ {e} /\ net_jobs' = Append(net_jobs, new)
      /\ UNCHANGED <<own_loop, state, conns, endpoints, shutdown_immediate, net, shut, app, running, locked>>
    BY Zenon DEF close_soon_endpoint, Free
<1>2. /\ new \in NetJobs /\ new.do = "close_ep" /\ new.ep = e /\ new.owns /\ ~new.get
    BY Zenon DEF Job, NetJobs
<1> HIDE DEF new
<1>3. /\ Line' = Line \cup {new} /\ net_jobs' \in Seq(NetJobs)
    BY <1>1, <1>2, LineAdd, Zenon DEF NetworkInv
<1>4. \A j \in Line : ~j.get
    BY <1>1, WhenFree, Zenon
<1>5. \A j \in Line : j.do # "close_soon"
    BY <1>1, Zenon DEF NetworkInv, JobsTrue, JobTrue
<1>6. InTurn'
    BY <1>1, <1>2, <1>4, <1>5, TurnAdd, Zenon
<1>7. NetworkType'
    BY <1>1, <1>3, Zenon DEF NetworkInv, NetworkType
<1>8. NoneAbandoned' /\ PointersLive' /\ state[e] = "live"
    BY <1>1, Zenon DEF NetworkInv, NoneAbandoned, PointersLive
<1>9. JobTrue(new)'
    BY <1>1, <1>2, <1>8, Zenon DEF JobTrue
<1>10. JobsTrue'
  <2> SUFFICES ASSUME NEW j \in Line PROVE JobTrue(j)'
    BY <1>3, <1>9, Zenon DEF JobsTrue
  <2>1. JobTrue(j) /\ ~j.get
    BY <1>4, Zenon DEF NetworkInv, JobsTrue
  <2>2. ASSUME Unowned(j.ep) PROVE Unowned(j.ep)'
    BY <1>1, <1>2, <1>3, <2>2, Zenon DEF Unowned
  <2> QED BY <1>1, <2>1, <2>2, Zenon DEF JobTrue
<1>11. AppTrue' /\ \A ops : ~InApp(ops)'
    BY <1>1, NothingToDo, Zenon
<1>12. net' # "gone"
    BY <1>1, Zenon
<1>13. Calm'
    BY <1>1, <1>11, <1>12, Zenon DEF Calm
<1> QED BY <1>6, <1>7, <1>8, <1>10, <1>11, <1>13, Zenon DEF NetworkInv

\* close_soon().
LEMMA CloseSoonKeeps == ASSUME NetworkInv, close_soon PROVE NetworkInv'
<1> DEFINE new == Job("close_soon", None, FALSE, FALSE)
<1>1. /\ net = "up" /\ app = <<>> /\ ~shut /\ (Hasty \/ ~shutdown_immediate)
      /\ shut' = TRUE /\ net_jobs' = Append(net_jobs, new)
      /\ UNCHANGED <<own_loop, state, conns, endpoints, shutdown_immediate, net, held, app, running, locked>>
    BY Zenon DEF close_soon, Free
<1>2. /\ new \in NetJobs /\ new.do = "close_soon" /\ new.ep \notin Endpoints /\ ~new.owns /\ ~new.get
    BY NetworkAssumption, Zenon DEF Job, NetJobs
<1> HIDE DEF new
<1>3. /\ Line' = Line \cup {new} /\ net_jobs' \in Seq(NetJobs)
    BY <1>1, <1>2, LineAdd, Zenon DEF NetworkInv
<1>4. \A j \in Line : ~j.get
    BY <1>1, WhenFree, Zenon
<1>5. \A j \in Line : j.do # "close_soon"
    BY <1>1, Zenon DEF NetworkInv, JobsTrue, JobTrue
<1>6. InTurn'
    BY <1>1, <1>2, <1>4, <1>5, TurnAdd, Zenon
<1>7. NetworkType'
    BY <1>1, <1>3, Zenon DEF NetworkInv, NetworkType
<1>8. NoneAbandoned' /\ PointersLive'
    BY <1>1, Zenon DEF NetworkInv, NoneAbandoned, PointersLive
<1>9. JobTrue(new)'
    BY <1>1, <1>2, <1>8, Zenon DEF JobTrue
<1>10. JobsTrue'
  <2> SUFFICES ASSUME NEW j \in Line PROVE JobTrue(j)'
    BY <1>3, <1>9, Zenon DEF JobsTrue
  <2>1. JobTrue(j) /\ ~j.get
    BY <1>4, Zenon DEF NetworkInv, JobsTrue
  <2>2. new.do # "close_ep"
    BY <1>2, Zenon
  <2>3. ASSUME Unowned(j.ep) PROVE Unowned(j.ep)'
    BY <1>1, <1>3, <2>2, <2>3, Zenon DEF Unowned
  <2> QED BY <1>1, <2>1, <2>3, Zenon DEF JobTrue
<1>11. AppTrue' /\ \A ops : ~InApp(ops)'
    BY <1>1, NothingToDo, Zenon
<1>12. net' # "gone"
    BY <1>1, Zenon
<1>13. Calm'
    BY <1>1, <1>11, <1>12, Zenon DEF Calm
<1> QED BY <1>6, <1>7, <1>8, <1>10, <1>11, <1>13, Zenon DEF NetworkInv

-----------------------------------------------------------------------------
\* The application thread is at a step other than those that wait.
LEMMA AtStep ==
    ASSUME NetworkInv, app # <<>>, app[1].op \notin {"wait", "close_ep", "close_all"}
    PROVE  /\ \A j \in Line : ~j.get
           /\ ~Hasty => /\ shutdown_immediate \/ net = "gone" => AllQuiet
                        /\ InApp({"clear", "clearing", "immediate", "members"}) => AllQuiet
<1>1. ~HeadIs("wait") /\ ~HeadIs("close_ep") /\ ~HeadIs("close_all")
    BY Zenon DEF HeadIs
<1>2. \A j \in Line : ~j.get
    BY <1>1, NoGet, Zenon DEF NetworkInv
<1> QED BY <1>1, <1>2, Zenon DEF NetworkInv, Calm, Draining

\* The first step.
LEMMA FirstStep ==
    ASSUME NetworkInv, app # <<>>
    PROVE  /\ 1 \in DOMAIN app /\ app[1] \in Steps /\ app \in Seq(Steps) /\ Tail(app) \in Seq(Steps)
           /\ app[1].op = "reset" => Len(app) = 1 /\ app[1].ep \in held
           /\ app[1].op = "members" => \A k \in DOMAIN app : k > 1 => app[k].op = "unloop"
           /\ net = "gone" => app[1].op \in {"unloop", "stop", "wait"}
           /\ Fits(Tail(app), held, net = "gone")
           /\ \A i \in DOMAIN Tail(app) : Tail(app)[i].op \notin Heads
           /\ \A i \in DOMAIN Tail(app) : i + 1 \in DOMAIN app /\ Tail(app)[i] = app[i + 1]
           /\ Len(app) = 1 => Tail(app) = <<>>
<1>1. app \in Seq(Steps) /\ Fits(app, held, net = "gone") /\ (net = "gone") \in BOOLEAN
    BY Zenon DEF NetworkInv, NetworkType, AppTrue
<1>2. /\ 1 \in DOMAIN app /\ app[1] \in Steps /\ Tail(app) \in Seq(Steps) /\ Len(Tail(app)) = Len(app) - 1
      /\ \A i \in DOMAIN Tail(app) : i + 1 \in DOMAIN app /\ Tail(app)[i] = app[i + 1]
    BY <1>1, TailParts, Zenon
<1>3. Fits(Tail(app), held, net = "gone") /\ \A i \in DOMAIN Tail(app) : Tail(app)[i].op \notin Heads
    BY <1>1, FitsTail, Zenon
<1>4. /\ app[1].op = "reset" => Len(app) = 1 /\ app[1].ep \in held
      /\ app[1].op = "members" => \A k \in DOMAIN app : k > 1 => app[k].op = "unloop"
      /\ net = "gone" => app[1].op \in {"unloop", "stop", "wait"}
    BY <1>1, <1>2, Zenon DEF Fits
<1>5. Len(app) = 1 => Tail(app) = <<>>
    BY <1>1, <1>2
<1> QED BY <1>1, <1>2, <1>3, <1>4, <1>5, Zenon

\* No step that only begins a call is next.
LEMMA NoHead ==
    ASSUME app' \in Seq(Steps), \A i \in DOMAIN app' : app'[i].op \notin Heads
    PROVE  HeadTrue'
<1>1. app' # <<>> => app'[1].op \notin Heads
    OBVIOUS
<1> QED BY <1>1, Zenon DEF HeadTrue, HeadIs, Heads

\* An endpoint is inserted.
LEMMA InsertKeeps == ASSUME NetworkInv, app # <<>>, Insert PROVE NetworkInv'
<1> DEFINE e == app[1].ep
<1>1. /\ app[1].op = "insert" /\ endpoints' = endpoints \cup {e} /\ app' = Tail(app)
      /\ held' = held \/ held' = held \cup {e}
      /\ UNCHANGED <<own_loop, state, conns, shutdown_immediate, net, shut, net_jobs, running, locked>>
  <2>1. /\ app[1].op = "insert" /\ endpoints' = endpoints \cup {e} /\ app' = Tail(app)
        /\ (\E keep \in {{}, {e}} : held' = held \cup keep)
        /\ UNCHANGED <<own_loop, state, conns, shutdown_immediate, net, shut, net_jobs, running, locked>>
    BY Zenon DEF Insert, Op, loop
  <2> QED BY <2>1, Zenon
<1>2. HeadIs("insert")
    BY <1>1, Zenon DEF HeadIs
<1>3. /\ Len(app) = 1 /\ e \in Endpoints /\ state[e] = "live" /\ \A j \in Line : j.ep # e
    BY <1>2, Zenon DEF NetworkInv, AppTrue, HeadTrue
<1>4. app' = <<>>
    BY <1>1, <1>3, FirstStep, Zenon
<1> HIDE DEF e
<1>5. /\ \A j \in Line : ~j.get
      /\ ~Hasty => (shutdown_immediate \/ net = "gone" => AllQuiet)
  <2>1. app[1].op \notin {"wait", "close_ep", "close_all"}
    BY <1>1, Zenon
  <2> QED BY <2>1, AtStep, Zenon
<1>6. Line' = Line /\ (AllQuiet => AllQuiet')
    BY <1>1, LineSame, Zenon
<1>7. NetworkType'
  <2>1. endpoints' \subseteq Endpoints /\ held' \subseteq Endpoints /\ app' \in Seq(Steps)
    BY <1>1, <1>3, <1>4 DEF NetworkInv, NetworkType
  <2> QED BY <1>1, <2>1, Zenon DEF NetworkInv, NetworkType
<1>8. NoneAbandoned' /\ InTurn'
    BY <1>1, TurnSame, Zenon DEF NetworkInv, NoneAbandoned
<1>9. PointersLive'
    BY <1>1, <1>3, Zenon DEF NetworkInv, PointersLive
<1>10. JobsTrue'
  <2> SUFFICES ASSUME NEW j \in Line PROVE JobTrue(j)'
    BY <1>6, Zenon DEF JobsTrue
  <2>1. JobTrue(j) /\ ~j.get /\ j.ep # e
    BY <1>3, <1>5, Zenon DEF NetworkInv, JobsTrue
  <2>2. Unowned(j.ep) => Unowned(j.ep)'
    BY <1>1, <1>6, <2>1, Zenon DEF Unowned
  <2> QED BY <1>1, <2>1, <2>2, Zenon DEF JobTrue
<1>11. AppTrue' /\ \A ops : ~InApp(ops)'
    BY <1>4, NothingToDo, Zenon
<1>12. Calm'
    BY <1>1, <1>5, <1>6, <1>11, Zenon DEF Calm
<1> QED BY <1>7, <1>8, <1>9, <1>10, <1>11, <1>12, Zenon DEF NetworkInv

\* call_get.
LEMMA CallGetKeeps == ASSUME NetworkInv, app # <<>>, call_get PROVE NetworkInv'
<1> DEFINE w == Step("wait", None)
<1>2. app[1] \in Steps /\ app[1].op \in {"close_ep", "close_all", "delete", "stop"}
    BY FirstStep, Zenon DEF call_get, Op
<1>3. PICK new \in NetJobs : /\ new = Job(app[1].op, app[1].ep, FALSE, TRUE)
                            /\ new.do = app[1].op /\ new.ep = app[1].ep /\ ~new.owns /\ new.get
  <2> DEFINE n == Job(app[1].op, app[1].ep, FALSE, TRUE)
  <2>1. n \in NetJobs /\ n.do = app[1].op /\ n.ep = app[1].ep /\ ~n.owns /\ n.get
    BY <1>2, Zenon DEF Job, NetJobs, Steps
  <2> QED BY <2>1, Zenon
<1>1. /\ app[1].op \in {"close_ep", "close_all", "delete", "stop"}
      /\ net_jobs' = Append(net_jobs, new) /\ app' = <<w>> \o Tail(app)
      /\ UNCHANGED <<own_loop, state, conns, endpoints, shutdown_immediate, net, shut, held, running, locked>>
    BY <1>3, Zenon DEF call_get, Op
<1>4. w \in Steps /\ w.op = "wait"
    BY Zenon DEF Step, Steps
<1> HIDE DEF w
<1>5. /\ app' \in Seq(Steps) /\ app' # <<>> /\ app'[1] = w
      /\ \A i \in DOMAIN app' : i = 1 \/ (i - 1 \in DOMAIN Tail(app) /\ app'[i] = Tail(app)[i - 1])
  <2>1. Tail(app) \in Seq(Steps)
    BY FirstStep, Zenon
  <2>2. /\ <<w>> \o Tail(app) \in Seq(Steps) /\ <<w>> \o Tail(app) # <<>> /\ (<<w>> \o Tail(app))[1] = w
        /\ \A i \in DOMAIN (<<w>> \o Tail(app)) :
              i = 1 \/ (i - 1 \in DOMAIN Tail(app) /\ (<<w>> \o Tail(app))[i] = Tail(app)[i - 1])
    BY <1>4, <2>1, Pushed
  <2> QED BY <1>1, <2>2, Zenon
<1>6. HeadIs("wait")' /\ \A o \in Heads : o # "wait" => ~HeadIs(o)'
    BY <1>4, <1>5, Zenon DEF HeadIs
<1>7. HeadTrue'
  <2>1. {"close_ep", "close_all", "stop", "delete", "insert"} \subseteq Heads \ {"wait"}
    BY Zenon DEF Heads
  <2> QED BY <1>6, <2>1, Zenon DEF HeadTrue
<1>8. Fits(app', held', net' = "gone")
  <2>1. w.op \notin {"reset", "members"} /\ w.op \in {"unloop", "stop", "wait"} /\ (net = "gone") \in BOOLEAN
    BY <1>4, Zenon
  <2>2. Fits(<<w>> \o Tail(app), held, net = "gone")
    BY <1>4, <2>1, FirstStep, FitsPush, Zenon
  <2> QED BY <1>1, <2>2, Zenon
<1>9. Line' = Line \cup {new} /\ net_jobs' \in Seq(NetJobs)
    BY <1>1, <1>3, LineAdd, Zenon DEF NetworkInv
<1>10. \A j \in Line : ~j.get
  <2>1. ~HeadIs("wait")
    BY <1>1, Zenon DEF HeadIs
  <2> QED BY <2>1, NoGet, Zenon DEF NetworkInv
<1>11. InTurn'
    BY <1>1, <1>3, <1>10, TurnAdd, Zenon
<1>12. NetworkType'
    BY <1>1, <1>5, <1>9, Zenon DEF NetworkInv, NetworkType
<1>13. NoneAbandoned' /\ PointersLive'
    BY <1>1, Zenon DEF NetworkInv, NoneAbandoned, PointersLive
<1>14. HeadTrue /\ Fits(app, held, net = "gone")
    BY Zenon DEF NetworkInv, AppTrue
<1>15. app[1].op = "close_ep" => app[1].ep \in held /\ Len(app) = 2 /\ app[2].op = "reset"
  <2> SUFFICES ASSUME app[1].op = "close_ep" PROVE app[1].ep \in held /\ Len(app) = 2 /\ app[2].op = "reset"
    BY Zenon
  <2>1. Len(app) = 2 /\ app[2] = Step("reset", app[1].ep)
    BY <1>14, Zenon DEF HeadTrue, HeadIs
  <2>2. 2 \in DOMAIN app
    BY <2>1, FirstStep
  <2>3. app[2].op = "reset" /\ app[2].ep = app[1].ep
    BY <2>1 DEF Step
  <2> QED BY <1>14, <2>1, <2>2, <2>3, Zenon DEF Fits
<1>16. JobTrue(new)'
  <2>1. new.do = "delete" => Unowned(new.ep)
    BY <1>3, <1>14, Zenon DEF HeadTrue, HeadIs
  <2>2. new.do = "delete" => Unowned(new.ep)'
    BY <1>1, <1>3, <1>9, <2>1, Zenon DEF Unowned
  <2>3. app[1].ep \in Endpoints => state[app[1].ep] # "none"
    <3>1. CASE app[1].op = "close_ep"
      BY <1>15, <3>1, Zenon DEF NetworkInv, PointersLive
    <3>2. CASE app[1].op = "delete"
      BY <1>14, <3>2, Zenon DEF HeadTrue, HeadIs
    <3>3. CASE app[1].op \in {"close_all", "stop"}
      BY <1>14, <3>3, NetworkAssumption, Zenon DEF HeadTrue, HeadIs
    <3> QED BY <1>1, <3>1, <3>2, <3>3, Zenon
  <2>4. new.do # "close_soon"
    BY <1>1, <1>3, Zenon
  <2> QED BY <1>1, <1>3, <1>6, <1>15, <2>2, <2>3, <2>4, Zenon DEF JobTrue
<1>17. JobsTrue'
  <2> SUFFICES ASSUME NEW j \in Line PROVE JobTrue(j)'
    BY <1>9, <1>16, Zenon DEF JobsTrue
  <2>1. JobTrue(j) /\ ~j.get
    BY <1>10, Zenon DEF NetworkInv, JobsTrue
  <2>2. ASSUME Unowned(j.ep) PROVE Unowned(j.ep)'
    BY <1>1, <1>3, <1>9, <1>15, <2>2, Zenon DEF Unowned
  <2> QED BY <1>1, <2>1, <2>2, Zenon DEF JobTrue
<1>18. Calm'
  <2>1. Draining'
    BY <1>3, <1>9, Zenon DEF Draining
  <2> SUFFICES ASSUME ~Hasty, InApp({"clearing"})' \/ net = "gone" PROVE AllQuiet'
    BY <1>1, <2>1, Zenon DEF Calm
  <2>2. ASSUME InApp({"clearing"})' PROVE InApp({"clearing"}) /\ app[1].op # "close_ep"
    <3>1. PICK i \in DOMAIN app' : app'[i].op = "clearing"
      BY <2>2, Zenon DEF InApp
    <3>2. i - 1 \in DOMAIN Tail(app) /\ app'[i] = Tail(app)[i - 1]
      <4>1. i # 1
        BY <1>4, <1>5, <3>1, Zenon
      <4> QED BY <1>5, <4>1, Zenon
    <3>3. (i - 1) + 1 \in DOMAIN app /\ app[(i - 1) + 1].op = "clearing"
      BY <3>1, <3>2, FirstStep, Zenon
    <3>4. InApp({"clearing"})
      BY <3>3, Zenon DEF InApp
    <3>5. app[1].op = "close_ep" => (i - 1) + 1 \in {1, 2}
      <4>1. app \in Seq(Steps)
        BY FirstStep, Zenon
      <4> QED BY <1>15, <3>3, <4>1
    <3> QED BY <1>15, <3>3, <3>4, <3>5, Zenon
  <2>3. AllQuiet
    BY <1>1, <2>2, Zenon DEF NetworkInv, Calm
  <2>4. app[1].op \in {"delete", "stop"}
    <3>1. CASE net = "gone"
      BY <1>1, <3>1, FirstStep, Zenon
    <3>2. CASE InApp({"clearing"})'
      <4>1. app[1].op # "close_all"
        BY <1>14, <2>2, <3>2, Zenon DEF HeadTrue, HeadIs
      <4> QED BY <1>1, <2>2, <3>2, <4>1, Zenon
    <3> QED BY <3>1, <3>2, Zenon
  <2>5. Quiet(new)
    BY <1>3, <2>4, Zenon DEF Quiet
  <2> QED BY <1>9, <2>3, <2>5, Zenon DEF AllQuiet, Quiet
<1> QED BY <1>7, <1>8, <1>11, <1>12, <1>13, <1>17, <1>18, Zenon DEF NetworkInv, AppTrue

\* What loop_deleter makes of the steps that follow: the endpoint that is handed over is nobody's.
LEMMA DeleterHands ==
    ASSUME NetworkInv, app # <<>>, app[1].op \in {"reset", "clear", "clearing"},
           NEW e \in Endpoints, state[e] = "live",
           NEW rest \in Seq(Steps), \A i \in DOMAIN rest : rest[i].op \notin Heads,
           app' = loop_deleter(e, rest), endpoints' \subseteq endpoints, held' \subseteq held,
           Fits(rest, held', FALSE),
           UNCHANGED <<own_loop, state, conns, shutdown_immediate, net, shut, net_jobs, running, locked>>
    PROVE  /\ NetworkType' /\ NoneAbandoned' /\ PointersLive' /\ JobsTrue' /\ InTurn' /\ AppTrue'
           /\ (\A j \in Line : ~j.get) /\ net # "gone"
           /\ ~Hasty /\ shutdown_immediate => AllQuiet
           /\ AllQuiet => AllQuiet'
           /\ \A ops : "delete" \notin ops /\ InApp(ops)' => \E i \in DOMAIN rest : rest[i].op \in ops
<1>1. /\ \A j \in Line : ~j.get
      /\ ~Hasty /\ shutdown_immediate => AllQuiet
  <2>1. app[1].op \notin {"wait", "close_ep", "close_all"}
    BY Zenon
  <2> QED BY <2>1, AtStep, Zenon
<1>2. net # "gone"
    BY FirstStep, Zenon
<1>3. Line' = Line /\ (AllQuiet => AllQuiet')
    BY LineSame, Zenon
<1>4. NoneAbandoned' /\ PointersLive' /\ InTurn'
    BY TurnSame, Zenon DEF NetworkInv, NoneAbandoned, PointersLive
<1>5. JobsTrue'
  <2> SUFFICES ASSUME NEW j \in Line PROVE JobTrue(j)'
    BY <1>3, Zenon DEF JobsTrue
  <2>1. JobTrue(j) /\ ~j.get
    BY <1>1, Zenon DEF NetworkInv, JobsTrue
  <2>2. Unowned(j.ep) => Unowned(j.ep)'
    BY <1>3, Zenon DEF Unowned
  <2> QED BY <2>1, <2>2, Zenon DEF JobTrue
<1>6. ASSUME app' \in Seq(Steps) PROVE NetworkType'
    BY <1>6, Zenon DEF NetworkInv, NetworkType
<1>7. CASE app' = rest
  <2>1. app' \in Seq(Steps)
    BY <1>7, Zenon
  <2>2. HeadTrue'
    BY <1>7, NoHead, Zenon
  <2>3. Fits(app', held', net' = "gone")
    BY <1>2, <1>7, Zenon
  <2>4. \A ops : InApp(ops)' => \E i \in DOMAIN rest : rest[i].op \in ops
    BY <1>7, Zenon DEF InApp
  <2> QED BY <1>1, <1>2, <1>3, <1>4, <1>5, <1>6, <2>1, <2>2, <2>3, <2>4, Zenon DEF AppTrue
<1>8. CASE app' # rest
  <2> DEFINE d == Step("delete", e)
  <2>1. /\ app' = <<d>> \o rest
        /\ ~(e \in endpoints' \/ e \in held' \/ LoopOwns(e) \/ Owns(running, e))
    BY <1>8, Zenon DEF loop_deleter
  <2>2. d \in Steps /\ d.op = "delete" /\ d.ep = e
    BY Zenon DEF Step, Steps
  <2> HIDE DEF d
  <2>3. /\ <<d>> \o rest \in Seq(Steps) /\ <<d>> \o rest # <<>> /\ (<<d>> \o rest)[1] = d
        /\ \A i \in DOMAIN (<<d>> \o rest) :
              i = 1 \/ (i - 1 \in DOMAIN rest /\ (<<d>> \o rest)[i] = rest[i - 1])
    BY <2>2, Pushed
  <2>4. /\ app' \in Seq(Steps) /\ app' # <<>> /\ app'[1] = d
        /\ \A i \in DOMAIN app' : i = 1 \/ (i - 1 \in DOMAIN rest /\ app'[i] = rest[i - 1])
    BY <2>1, <2>3, Zenon
  <2>5. Fits(<<d>> \o rest, held', FALSE)
    <3>1. d.op \notin {"reset", "members"}
      BY <2>2, Zenon
    <3> QED BY <2>2, <3>1, FitsPush, Zenon
  <2>6. Fits(app', held', net' = "gone")
    BY <1>2, <2>1, <2>5, Zenon
  <2>7. Unowned(e)'
    <3>1. e \notin endpoints' /\ e \notin held' /\ locked # e /\ ~Owns(running, e)
          /\ \A i \in DOMAIN net_jobs : ~Owns(net_jobs[i], e)
      BY <2>1, Zenon DEF LoopOwns
    <3>2. \A j \in Line : ~(j.owns /\ j.ep = e)
      BY <3>1, Zenon DEF Line, Owns
    <3>3. \A j \in Line : j.do = "close_ep" => j.ep # e
      BY <1>1, <3>2, Zenon DEF NetworkInv, JobsTrue, JobTrue
    <3> QED BY <1>3, <3>1, <3>3, Zenon DEF Unowned
  <2>8. HeadIs("delete")' /\ \A o : o # "delete" => ~HeadIs(o)'
    BY <2>2, <2>4, Zenon DEF HeadIs
  <2>9. Unowned(app[1].ep)' /\ (app'[1].ep \in Endpoints' => state'[app'[1].ep] # "none")
    <3>1. app'[1].ep = e
      BY <2>2, <2>4, Zenon
    <3>2. state'[e] # "none"
      BY Zenon
    <3> QED BY <2>7, <3>1, <3>2, Zenon DEF Unowned
  <2>10. HeadTrue'
    BY <2>8, <2>9, Zenon DEF HeadTrue
  <2>11. ASSUME NEW ops, "delete" \notin ops, InApp(ops)' PROVE \E i \in DOMAIN rest : rest[i].op \in ops
    <3>1. PICK i \in DOMAIN app' : app'[i].op \in ops
      BY <2>11, Zenon DEF InApp
    <3>2. i # 1
      BY <2>2, <2>4, <2>11, <3>1
    <3> QED BY <2>4, <3>1, <3>2, Zenon
  <2> QED BY <1>1, <1>2, <1>3, <1>4, <1>5, <1>6, <2>4, <2>6, <2>10, <2>11, Zenon DEF AppTrue
<1> QED BY <1>7, <1>8, Zenon

\* A pointer of the application's is reset.
LEMMA ResetKeeps == ASSUME NetworkInv, app # <<>>, Reset PROVE NetworkInv'
<1>1. PICK e \in Endpoints : e = app[1].ep /\ e \in held /\ state[e] = "live"
  <2>1. app[1].ep \in held
    BY FirstStep, Zenon DEF Reset, Op
  <2> QED BY <2>1, Zenon DEF NetworkInv, NetworkType, PointersLive
<1>2. /\ app[1].op = "reset" /\ held' = held \ {e} /\ app' = loop_deleter(e, Tail(app))
      /\ UNCHANGED <<own_loop, state, conns, endpoints, shutdown_immediate, net, shut, net_jobs, running, locked>>
    BY <1>1, Zenon DEF Reset, Op, loop
<1>3. Tail(app) = <<>>
    BY <1>2, FirstStep, Zenon
<1>4. /\ Tail(app) \in Seq(Steps) /\ (\A i \in DOMAIN Tail(app) : FALSE) /\ Fits(Tail(app), held', FALSE)
  <2>1. Tail(app) \in Seq(Steps) /\ DOMAIN Tail(app) = {}
    BY <1>3, ShortSeq, Zenon
  <2> QED BY <2>1, Zenon DEF Fits
<1>5. /\ NetworkType' /\ NoneAbandoned' /\ PointersLive' /\ JobsTrue' /\ InTurn' /\ AppTrue'
      /\ net # "gone" /\ (~Hasty /\ shutdown_immediate => AllQuiet) /\ (AllQuiet => AllQuiet')
      /\ \A ops : "delete" \notin ops /\ InApp(ops)' => \E i \in DOMAIN Tail(app) : Tail(app)[i].op \in ops
  <2>1. app[1].op \in {"reset", "clear", "clearing"} /\ held' \subseteq held /\ endpoints' \subseteq endpoints
    BY <1>2, Zenon
  <2> QED BY <1>1, <1>2, <1>4, <2>1, DeleterHands, Zenon
<1>6. ~InApp({"clear", "clearing", "immediate", "members"})' /\ ~InApp({"clearing"})'
  <2>1. "delete" \notin {"clear", "clearing", "immediate", "members"} /\ "delete" \notin {"clearing"}
    BY Zenon
  <2> QED BY <1>4, <1>5, <2>1, Zenon
<1>7. Calm'
    BY <1>2, <1>5, <1>6, Zenon DEF Calm
<1> QED BY <1>5, <1>7, Zenon DEF NetworkInv

\* A step ends that changes little, and the rest follows.
LEMMA RestFollows ==
    ASSUME NetworkInv, app # <<>>, app[1].op \in {"clear", "clearing", "immediate", "members"}, app' = Tail(app),
           shutdown_immediate' \in BOOLEAN, net' = net \/ (net' = "gone" /\ app[1].op = "members"),
           UNCHANGED <<own_loop, state, conns, endpoints, shut, held, net_jobs, running, locked>>
    PROVE  NetworkInv'
<1>1. (\A j \in Line : ~j.get) /\ (~Hasty => AllQuiet)
  <2>1. app[1].op \notin {"wait", "close_ep", "close_all"}
    BY Zenon
  <2>2. InApp({"clear", "clearing", "immediate", "members"})
    BY FirstStep, Zenon DEF InApp
  <2> QED BY <2>1, <2>2, AtStep, Zenon
<1>2. Line' = Line /\ (AllQuiet => AllQuiet')
    BY LineSame, Zenon
<1>3. NoneAbandoned' /\ PointersLive' /\ InTurn'
    BY TurnSame, Zenon DEF NetworkInv, NoneAbandoned, PointersLive
<1>4. JobsSteady
    BY <1>1, <1>2, Zenon DEF JobsSteady
<1>5. JobsTrue'
    BY <1>4, JobsSame, Zenon DEF NetworkInv
<1>6. NetworkType'
  <2>1. net' \in {"up", "down", "gone"}
    BY Zenon DEF NetworkInv, NetworkType
  <2>2. app' \in Seq(Steps)
    BY FirstStep, Zenon
  <2> QED BY <2>1, <2>2, Zenon DEF NetworkInv, NetworkType
<1>7. HeadTrue'
    BY FirstStep, NoHead, Zenon
<1>8. Fits(app', held', net' = "gone")
  <2>1. CASE net' = net
    <3>1. (net' = "gone") = (net = "gone")
      BY <2>1, Zenon
    <3> QED BY <3>1, FirstStep, Zenon
  <2>2. CASE net' = "gone" /\ app[1].op = "members"
    <3>1. /\ \A i \in DOMAIN Tail(app) : i + 1 \in DOMAIN app /\ Tail(app)[i] = app[i + 1]
          /\ \A k \in DOMAIN app : k > 1 => app[k].op = "unloop"
      BY <2>2, FirstStep, Zenon
    <3>2. Tail(app) \in Seq(Steps)
      BY FirstStep, Zenon
    <3>3. \A i \in DOMAIN Tail(app) : i + 1 > 1
      BY <3>2
    <3>4. \A i \in DOMAIN Tail(app) : Tail(app)[i].op = "unloop"
      BY <3>1, <3>3, Zenon
    <3>5. Fits(Tail(app), held, TRUE)
      BY <3>4, Zenon DEF Fits, Heads
    <3> QED BY <2>2, <3>5, Zenon
  <2> QED BY <2>1, <2>2, Zenon
<1>9. Calm'
    BY <1>1, <1>2, Zenon DEF Calm
<1> QED BY <1>3, <1>5, <1>6, <1>7, <1>8, <1>9, Zenon DEF NetworkInv, AppTrue

\* An element of Network::endpoints is removed, or there is none left.
LEMMA ClearKeeps == ASSUME NetworkInv, app # <<>>, Clear PROVE NetworkInv'
<1>1. /\ app[1].op \in {"clear", "clearing"}
      /\ UNCHANGED <<own_loop, state, conns, shutdown_immediate, net, shut, held, net_jobs, running, locked>>
    BY Zenon DEF Clear, Op, loop
<1>2. CASE endpoints = {} /\ app' = Tail(app) /\ UNCHANGED endpoints
  <2>1. app[1].op \in {"clear", "clearing", "immediate", "members"} /\ shutdown_immediate' \in BOOLEAN
    BY <1>1, Zenon DEF NetworkInv, NetworkType
  <2> QED BY <1>1, <1>2, <2>1, RestFollows, Zenon
<1>3. ASSUME NEW e \in endpoints, endpoints' = endpoints \ {e},
             app' = loop_deleter(e, <<Step("clearing", None)>> \o Tail(app))
      PROVE  NetworkInv'
  <2> DEFINE c == Step("clearing", None)
  <2>1. c \in Steps /\ c.op = "clearing" /\ c.op \notin Heads /\ c.op \notin {"reset", "members"}
    BY Zenon DEF Step, Steps, Heads
  <2>2. app' = loop_deleter(e, <<c>> \o Tail(app))
    BY <1>3, Zenon
  <2> HIDE DEF c
  <2>3. Tail(app) \in Seq(Steps) /\ (\A i \in DOMAIN Tail(app) : Tail(app)[i].op \notin Heads)
        /\ Fits(Tail(app), held, net = "gone")
    BY FirstStep, Zenon
  <2>4. net # "gone"
    BY <1>1, FirstStep, Zenon
  <2>5. PICK rest \in Seq(Steps) : /\ rest = <<c>> \o Tail(app) /\ Fits(rest, held, FALSE)
                                   /\ \A i \in DOMAIN rest : rest[i].op \notin Heads
    <3>1. /\ <<c>> \o Tail(app) \in Seq(Steps) /\ (<<c>> \o Tail(app))[1] = c
          /\ \A i \in DOMAIN (<<c>> \o Tail(app)) :
                i = 1 \/ (i - 1 \in DOMAIN Tail(app) /\ (<<c>> \o Tail(app))[i] = Tail(app)[i - 1])
      BY <2>1, <2>3, Pushed
    <3>2. Fits(Tail(app), held, FALSE)
      BY <2>3, <2>4, Zenon
    <3>3. Fits(<<c>> \o Tail(app), held, FALSE)
      BY <2>1, <2>3, <3>2, FitsPush, Zenon
    <3>4. \A i \in DOMAIN (<<c>> \o Tail(app)) : (<<c>> \o Tail(app))[i].op \notin Heads
      BY <2>1, <2>3, <3>1, Zenon
    <3> QED BY <3>1, <3>3, <3>4, Zenon
  <2>6. e \in Endpoints /\ state[e] = "live"
    BY <1>3, Zenon DEF NetworkInv, NetworkType, PointersLive
  <2>7. /\ NetworkType' /\ NoneAbandoned' /\ PointersLive' /\ JobsTrue' /\ InTurn' /\ AppTrue'
        /\ AllQuiet => AllQuiet'
    <3>1. /\ app[1].op \in {"reset", "clear", "clearing"} /\ held' \subseteq held /\ endpoints' \subseteq endpoints
          /\ held' = held /\ app' = loop_deleter(e, rest)
      BY <1>1, <1>3, <2>2, <2>5, Zenon
    <3> QED BY <1>1, <2>5, <2>6, <3>1, DeleterHands, Zenon
  <2>8. ~Hasty => AllQuiet
    <3>1. app[1].op \notin {"wait", "close_ep", "close_all"}
      BY <1>1, Zenon
    <3>2. InApp({"clear", "clearing", "immediate", "members"})
      BY <1>1, FirstStep, Zenon DEF InApp
    <3> QED BY <3>1, <3>2, AtStep, Zenon
  <2>9. Calm'
    BY <2>7, <2>8, Zenon DEF Calm
  <2> QED BY <2>7, <2>9, Zenon DEF NetworkInv
<1> QED BY <1>2, <1>3, Zenon DEF Clear

\* The last steps of close() and of ~Network.
LEMMA FinishKeeps == ASSUME NetworkInv, app # <<>>, Finish PROVE NetworkInv'
<1>1. UNCHANGED <<own_loop, state, conns, endpoints, shut, held, net_jobs, running, locked>>
    BY Zenon DEF Finish, loop
<1>2. CASE app[1].op = "immediate" /\ shutdown_immediate' = TRUE /\ app' = Tail(app) /\ UNCHANGED net
  <2>1. app[1].op \in {"clear", "clearing", "immediate", "members"} /\ shutdown_immediate' \in BOOLEAN
    BY <1>2, Zenon
  <2> QED BY <1>1, <1>2, <2>1, RestFollows, Zenon
<1>3. CASE app[1].op = "members" /\ net' = "gone" /\ app' = Tail(app) /\ UNCHANGED shutdown_immediate
  <2>1. app[1].op \in {"clear", "clearing", "immediate", "members"} /\ shutdown_immediate' \in BOOLEAN
    BY <1>3, Zenon DEF NetworkInv, NetworkType
  <2> QED BY <1>1, <1>3, <2>1, RestFollows, Zenon
<1>4. CASE /\ app[1].op = "unloop" /\ app' = (IF own_loop THEN <<Step("stop", None)>> ELSE <<>>)
           /\ UNCHANGED <<net, shutdown_immediate>>
  <2>1. /\ \A j \in Line : ~j.get
        /\ ~Hasty => (shutdown_immediate \/ net = "gone" => AllQuiet)
    <3>1. app[1].op \notin {"wait", "close_ep", "close_all"}
      BY <1>4, Zenon
    <3> QED BY <3>1, AtStep, Zenon
  <2>2. Line' = Line /\ (AllQuiet => AllQuiet')
    BY <1>1, LineSame, Zenon
  <2>3. NoneAbandoned' /\ PointersLive' /\ InTurn'
    BY <1>1, TurnSame, Zenon DEF NetworkInv, NoneAbandoned, PointersLive
  <2>4. JobsSteady
    BY <1>1, <2>1, <2>2, Zenon DEF JobsSteady
  <2>5. JobsTrue'
    BY <2>4, JobsSame, Zenon DEF NetworkInv
  <2>6. app' = <<Step("stop", None)>> \/ app' = <<>>
    BY <1>4, Zenon
  <2>7. app' \in Seq(Steps)
    <3>1. Step("stop", None) \in Steps
      BY Zenon DEF Step, Steps
    <3> QED BY <2>6, <3>1, ShortSeq, Zenon
  <2>8. NetworkType'
    BY <1>1, <1>4, <2>7, Zenon DEF NetworkInv, NetworkType
  <2>9. AppTrue'
    BY <2>6 DEF AppTrue, Fits, HeadTrue, HeadIs, Step
  <2>10. ~InApp({"clear", "clearing", "immediate", "members"})' /\ ~InApp({"clearing"})'
    BY <2>6 DEF InApp, Step
  <2>11. Calm'
    BY <1>4, <2>1, <2>2, <2>10, Zenon DEF Calm
  <2> QED BY <2>3, <2>5, <2>8, <2>9, <2>11, Zenon DEF NetworkInv
<1> QED BY <1>2, <1>3, <1>4, Zenon DEF Finish, Op

-----------------------------------------------------------------------------
\* A job is begun.
LEMMA RunJobKeeps == ASSUME NetworkInv, RunJob PROVE NetworkInv'
<1>1. /\ running = NoJob /\ locked = None /\ net_jobs # <<>>
      /\ running' = Head(net_jobs) /\ net_jobs' = Tail(net_jobs)
      /\ UNCHANGED <<own_loop, state, conns, endpoints, shutdown_immediate, net, shut, held, app, locked>>
    BY Zenon DEF RunJob, LoopIdle, thread
<1>2. /\ Line' \subseteq Line /\ net_jobs' \in Seq(NetJobs) /\ running' \in NetJobs
      /\ Len(net_jobs') = Len(net_jobs) - 1 /\ 1 \in DOMAIN net_jobs /\ running' = net_jobs[1]
      /\ Len(net_jobs) \in Nat /\ DOMAIN net_jobs = 1..Len(net_jobs) /\ DOMAIN net_jobs' = 1..Len(net_jobs) - 1
      /\ \A i \in DOMAIN net_jobs' : i + 1 \in DOMAIN net_jobs /\ i + 1 # 1 /\ net_jobs'[i] = net_jobs[i + 1]
    BY <1>1, LineRun, Zenon DEF NetworkInv
<1>3. NetworkType'
    BY <1>1, <1>2, Zenon DEF NetworkInv, NetworkType
<1>4. NoneAbandoned' /\ PointersLive'
    BY <1>1, Zenon DEF NetworkInv, NoneAbandoned, PointersLive
<1>5. \A o : HeadIs(o)' = HeadIs(o)
    BY <1>1, Zenon DEF HeadIs
<1>6. \A j \in Line : j.get => HeadIs("wait")
    BY Zenon DEF NetworkInv, JobsTrue, JobTrue
<1>7. JobsSteady
    BY <1>1, <1>2, <1>5, <1>6, Zenon DEF JobsSteady
<1>8. JobsTrue'
    BY <1>7, JobsSame, Zenon DEF NetworkInv
<1>9. InTurn'
  <2>1. /\ \A i \in DOMAIN net_jobs : net_jobs[i].get => i = Len(net_jobs)
        /\ \A i, k \in DOMAIN net_jobs :
              i < k /\ net_jobs[i].do = "close_soon" => Quiet(net_jobs[k]) \/ net_jobs[k].get
    BY Zenon DEF NetworkInv, InTurn
  <2>2. \A i \in DOMAIN net_jobs' : net_jobs'[i].get => i = Len(net_jobs')
    BY <1>2, <2>1
  <2>3. running'.get => net_jobs' = <<>>
    BY <1>2, <2>1
  <2>4. ASSUME NEW k \in DOMAIN net_jobs', running'.do = "close_soon"
        PROVE  Quiet(net_jobs'[k]) \/ net_jobs'[k].get
    <3>1. k + 1 \in DOMAIN net_jobs /\ 1 < k + 1 /\ net_jobs'[k] = net_jobs[k + 1] /\ net_jobs[1].do = "close_soon"
      BY <1>2, <2>4
    <3> QED BY <1>2, <2>1, <3>1, Zenon
  <2>5. ASSUME NEW i \in DOMAIN net_jobs', NEW k \in DOMAIN net_jobs', i < k, net_jobs'[i].do = "close_soon"
        PROVE  Quiet(net_jobs'[k]) \/ net_jobs'[k].get
    <3>1. /\ i + 1 \in DOMAIN net_jobs /\ k + 1 \in DOMAIN net_jobs /\ i + 1 < k + 1
          /\ net_jobs'[k] = net_jobs[k + 1] /\ net_jobs[i + 1].do = "close_soon"
      BY <1>2, <2>5
    <3> QED BY <2>1, <3>1, Zenon
  <2> QED BY <1>1, <2>2, <2>3, <2>4, <2>5, Zenon DEF InTurn, Quiet
<1>10. HeadTrue'
  <2>1. ASSUME NEW e, Unowned(e) PROVE Unowned(e)'
    BY <1>1, <1>2, <2>1, Zenon DEF Unowned
  <2>2. ~Settled
    BY <1>1, Zenon DEF Settled
  <2>3. HeadTrue
    BY Zenon DEF NetworkInv, AppTrue
  <2>4. Unowned(app[1].ep) => Unowned(app[1].ep)'
    BY <1>1, <1>2, Zenon DEF Unowned
  <2>5. InApp({"clearing"})' => InApp({"clearing"})
    BY <1>1, Zenon DEF InApp
  <2>6. HeadIs("insert") => Late
    BY <2>2, <2>3, Zenon DEF HeadTrue
  <2>7. /\ HeadIs("close_ep")' => ~shut' /\ Len(app)' = 2 /\ app'[2] = Step("reset", app'[1].ep)
        /\ HeadIs("close_all")' => app'[1].ep = None /\ ~InApp({"clearing"})'
        /\ HeadIs("stop")' => app'[1].ep = None /\ Len(app') = 1
    BY <1>1, <1>5, <2>3, <2>5, Zenon DEF HeadTrue
  <2>8. HeadIs("delete")' => Unowned(app[1].ep)' /\ (app'[1].ep \in Endpoints => state'[app'[1].ep] # "none")
    BY <1>1, <1>5, <2>3, <2>4, Zenon DEF HeadTrue
  <2>9. HeadIs("insert")' => /\ Len(app') = 1 /\ app'[1].ep \in Endpoints /\ state'[app'[1].ep] = "live"
                             /\ Unowned(app[1].ep)' /\ (\A j \in Line' : j.ep # app'[1].ep) /\ Late
    BY <1>1, <1>2, <1>5, <2>3, <2>4, <2>6, Zenon DEF HeadTrue
  <2> QED BY <2>7, <2>8, <2>9, Zenon DEF HeadTrue
<1>11. Fits(app', held', net' = "gone")
    BY <1>1, Zenon DEF NetworkInv, AppTrue
<1>12. \A j \in Line : j = NoJob \/ j \in Line'
  <2>1. \A i \in DOMAIN net_jobs : i = 1 \/ (i - 1 \in DOMAIN net_jobs' /\ net_jobs'[i - 1] = net_jobs[i])
    BY <1>2
  <2>2. running' \in Line' /\ \A i \in DOMAIN net_jobs' : net_jobs'[i] \in Line'
    BY Zenon DEF Line
  <2>3. \A i \in DOMAIN net_jobs : net_jobs[i] \in Line'
    BY <1>2, <2>1, <2>2, Zenon
  <2> QED BY <1>1, <2>3, Zenon DEF Line
<1>13. (AllQuiet => AllQuiet') /\ (Draining => Draining')
  <2>1. AllQuiet => AllQuiet'
    BY <1>2, Zenon DEF AllQuiet, Quiet
  <2>2. (\E j \in Line : j.get) => \E j \in Line' : j.get
    BY <1>12, NoJobTrue, Zenon
  <2> QED BY <1>5, <2>1, <2>2, Zenon DEF Draining
<1>14. Calm'
  <2>1. \A ops : InApp(ops)' = InApp(ops)
    BY <1>1, Zenon DEF InApp
  <2> QED BY <1>1, <1>13, <2>1, Zenon DEF NetworkInv, Calm
<1> QED BY <1>3, <1>4, <1>8, <1>9, <1>10, <1>11, <1>14, Zenon DEF NetworkInv, AppTrue

\* Endpoints are destroyed that nobody has a pointer to.
LEMMA Destroyed ==
    ASSUME NetworkType, NoneAbandoned, NEW gone, NEW emptied, Destroy(gone, emptied)
    PROVE  /\ state' \in [Endpoints -> {"none", "live", "gone"}]
           /\ conns' \in [Endpoints -> {"none", "open", "closed"}]
           /\ NoneAbandoned'
           /\ \A e \in Endpoints : e \notin gone => state'[e] = state[e]
           /\ \A e \in Endpoints : state[e] # "none" => state'[e] # "none"
<1>1. /\ state \in [Endpoints -> {"none", "live", "gone"}] /\ conns \in [Endpoints -> {"none", "open", "closed"}]
      /\ \A e \in Endpoints : state[e] = "gone" => conns[e] # "open"
    BY Zenon DEF NetworkType, NoneAbandoned
<1>2. /\ state' = [e \in Endpoints |-> IF e \in gone THEN "gone" ELSE state[e]]
      /\ conns' = [e \in Endpoints |->
                      IF e \in gone \cup emptied /\ conns[e] = "open" THEN "closed" ELSE conns[e]]
    BY Zenon DEF Destroy
<1>3. \A e \in Endpoints : state'[e] = "gone" => conns'[e] # "open"
  <2> TAKE e \in Endpoints
  <2>1. CASE e \in gone
    BY <1>1, <1>2, <2>1, Zenon
  <2>2. CASE e \notin gone
    BY <1>1, <1>2, <2>2, Zenon
  <2> QED BY <2>1, <2>2, Zenon
<1>4. state' \in [Endpoints -> {"none", "live", "gone"}] /\ conns' \in [Endpoints -> {"none", "open", "closed"}]
    BY <1>1, <1>2, Zenon
<1>5. /\ \A e \in Endpoints : e \notin gone => state'[e] = state[e]
      /\ \A e \in Endpoints : state[e] # "none" => state'[e] # "none"
    BY <1>1, <1>2, Zenon
<1> QED BY <1>3, <1>4, <1>5, Zenon DEF NoneAbandoned

\* What the end of the running job changes, in terms of the endpoints gone.
JobEnds(gone, removed) ==
    /\ endpoints' = endpoints \ removed
    /\ (\E emptied : Destroy(gone, emptied))
    /\ \A e \in gone : e \notin endpoints' /\ e \notin held
    /\ \A e \in gone : \A i \in DOMAIN net_jobs : ~Owns(net_jobs[i], e)
    /\ gone \subseteq endpoints \cup {running.ep}
    /\ shutdown_immediate' = (shutdown_immediate \/ running.do = "close_soon")
    /\ net_jobs' = net_jobs /\ running' = NoJob /\ locked' = locked /\ running # NoJob
    /\ app' = IF running.get THEN Tail(app) ELSE app
    /\ UNCHANGED <<own_loop, net, shut, held>>
LEMMA EndJobDoes == ASSUME NetworkInv, EndJob PROVE \E gone, removed : JobEnds(gone, removed)
<1> DEFINE left == IF running.do = "stop" THEN <<>> ELSE net_jobs
           orphans == {e \in Dropped : /\ e \notin held /\ e \notin (endpoints \ Removed)
                                       /\ ~\E i \in DOMAIN left : Owns(left[i], e)}
           gone == IF running.do = "delete" THEN {running.ep} ELSE orphans
<1>1. /\ running # NoJob /\ endpoints' = endpoints \ Removed /\ Destroy(gone, Closing)
      /\ shutdown_immediate' = (shutdown_immediate \/ running.do = "close_soon")
      /\ net_jobs' = left /\ running' = NoJob /\ locked' = locked
      /\ app' = IF running.get THEN Tail(app) ELSE app
      /\ UNCHANGED <<own_loop, net, shut, held>>
    BY Zenon DEF EndJob
<1>2. JobTrue(running) /\ running \in Line /\ locked = None /\ (running.get => net_jobs = <<>>)
  <2>1. running \in Line
    BY LineTypes, Zenon DEF NetworkInv
  <2> QED BY <1>1, <2>1, Zenon DEF NetworkInv, JobsTrue, InTurn
<1>3. running.do = "stop" => net_jobs = <<>>
    BY <1>1, <1>2, Zenon DEF JobTrue
<1>4. left = net_jobs
    BY <1>3, Zenon
<1>5. ASSUME running.do = "delete"
      PROVE  /\ running.ep \notin endpoints' /\ running.ep \notin held
             /\ \A i \in DOMAIN net_jobs : ~Owns(net_jobs[i], running.ep)
  <2>1. Unowned(running.ep)
    BY <1>2, <1>5, Zenon DEF JobTrue
  <2>2. \A i \in DOMAIN net_jobs : net_jobs[i].owns => net_jobs[i].do = "close_ep" /\ net_jobs[i] \in Line
    BY LineTypes, Zenon DEF NetworkInv, JobsTrue, JobTrue
  <2> QED BY <1>1, <2>1, <2>2, Zenon DEF Unowned, Owns
<1>6. ASSUME running.do # "delete"
      PROVE  /\ \A e \in orphans : e \notin endpoints' /\ e \notin held
             /\ \A e \in orphans : \A i \in DOMAIN net_jobs : ~Owns(net_jobs[i], e)
             /\ orphans \subseteq endpoints \cup {running.ep}
  <2>1. \A e \in orphans : e \in Dropped /\ e \notin held /\ e \notin endpoints'
                           /\ ~\E i \in DOMAIN net_jobs : Owns(net_jobs[i], e)
    BY <1>1, <1>4, Zenon
  <2>2. \A e \in Dropped : e \in Removed \/ (running.do = "stop" /\ e \in Endpoints /\ LoopOwns(e))
    BY Zenon DEF Dropped
  <2>3. running.do = "stop" => \A e \in Endpoints : ~LoopOwns(e)
    BY <1>2, <1>3, NetworkAssumption DEF LoopOwns
  <2>4. Removed \subseteq endpoints \cup {running.ep}
    BY Zenon DEF Removed
  <2>5. \A e \in Dropped : e \in endpoints \cup {running.ep}
    BY <2>2, <2>3, <2>4, Zenon
  <2> QED BY <2>1, <2>5, Zenon
<1>7. /\ \A e \in gone : e \notin endpoints' /\ e \notin held
      /\ \A e \in gone : \A i \in DOMAIN net_jobs : ~Owns(net_jobs[i], e)
      /\ gone \subseteq endpoints \cup {running.ep}
  <2> HIDE DEF orphans
  <2>1. CASE running.do = "delete"
    BY <1>5, <2>1, Zenon
  <2>2. CASE running.do # "delete"
    BY <1>6, <2>2, Zenon
  <2> QED BY <2>1, <2>2, Zenon
<1> HIDE DEF gone, left
<1>8. JobEnds(gone, Removed)
    BY <1>1, <1>4, <1>7, Zenon DEF JobEnds
<1> QED BY <1>8, Zenon

\* The end of a job.
LEMMA EndJobKeeps == ASSUME NetworkInv, EndJob PROVE NetworkInv'
<1>1. PICK gone, removed : JobEnds(gone, removed)
    BY EndJobDoes, Zenon
<1>2. /\ endpoints' = endpoints \ removed
      /\ \A e \in gone : e \notin endpoints' /\ e \notin held
      /\ \A e \in gone : \A i \in DOMAIN net_jobs : ~Owns(net_jobs[i], e)
      /\ gone \subseteq endpoints \cup {running.ep}
      /\ shutdown_immediate' = (shutdown_immediate \/ running.do = "close_soon")
      /\ net_jobs' = net_jobs /\ running' = NoJob /\ locked' = locked /\ running # NoJob
      /\ app' = IF running.get THEN Tail(app) ELSE app
      /\ UNCHANGED <<own_loop, net, shut, held>>
    BY <1>1, Zenon DEF JobEnds
<1>3. /\ state' \in [Endpoints -> {"none", "live", "gone"}]
      /\ conns' \in [Endpoints -> {"none", "open", "closed"}]
      /\ NoneAbandoned'
      /\ \A e \in Endpoints : e \notin gone => state'[e] = state[e]
      /\ \A e \in Endpoints : state[e] # "none" => state'[e] # "none"
  <2>1. PICK emptied : Destroy(gone, emptied)
    BY <1>1, Zenon DEF JobEnds
  <2> QED BY <2>1, Destroyed, Zenon DEF NetworkInv
<1>4. /\ running \in Line /\ JobTrue(running) /\ locked = None /\ (running.get => net_jobs = <<>>)
      /\ running.do = "close_soon" => \A k \in DOMAIN net_jobs : Quiet(net_jobs[k]) \/ net_jobs[k].get
  <2>1. running \in Line
    BY LineTypes, Zenon DEF NetworkInv
  <2> QED BY <1>2, <2>1, Zenon DEF NetworkInv, JobsTrue, InTurn
<1>5. /\ \A j \in Line' : j = NoJob \/ (j \in Line /\ \E i \in DOMAIN net_jobs : j = net_jobs[i])
      /\ \A j \in Line : j = running \/ j \in Line'
    BY <1>2, Zenon DEF Line
<1>6. running.get => app # <<>> /\ HeadIs("wait")
    BY <1>4, Zenon DEF JobTrue, HeadIs
<1>7. NetworkType'
  <2>1. app' \in Seq(Steps)
    <3>1. CASE running.get
      BY <1>2, <1>6, <3>1, FirstStep, Zenon
    <3>2. CASE ~running.get
      BY <1>2, <3>2, Zenon DEF NetworkInv, NetworkType
    <3> QED BY <3>1, <3>2, Zenon
  <2>2. shutdown_immediate' \in BOOLEAN
    BY <1>2, Zenon DEF NetworkInv, NetworkType
  <2>3. endpoints' \subseteq Endpoints
    BY <1>2, Zenon DEF NetworkInv, NetworkType
  <2> QED BY <1>2, <1>3, <2>1, <2>2, <2>3, NoJobTrue, Zenon DEF NetworkInv, NetworkType
<1>8. PointersLive'
  <2>1. \A e \in endpoints' \cup held' : e \in Endpoints /\ e \notin gone /\ state[e] = "live"
    BY <1>2, Zenon DEF NetworkInv, NetworkType, PointersLive
  <2> QED BY <1>2, <1>3, <1>4, <2>1, Zenon DEF PointersLive
<1>9. ASSUME NEW e, Unowned(e) PROVE Unowned(e)'
  <2>1. NoJob.do # "close_ep"
    BY Zenon DEF NoJob, Job
  <2> QED BY <1>2, <1>5, <1>9, <2>1, Zenon DEF Unowned
<1>10. JobsTrue'
  <2> SUFFICES ASSUME NEW j \in Line', j # NoJob PROVE JobTrue(j)'
    BY NoJobTrue, Zenon DEF JobsTrue
  <2>1. JobTrue(j) /\ \E i \in DOMAIN net_jobs : j = net_jobs[i]
    BY <1>5, Zenon DEF NetworkInv, JobsTrue
  <2>2. j.owns => j.do = "close_ep" /\ j.ep \in Endpoints /\ state'[j.ep] = "live"
    <3>1. j.owns => j.ep \notin gone
      BY <1>2, <2>1, Zenon DEF Owns
    <3> QED BY <1>3, <2>1, <3>1, Zenon DEF JobTrue
  <2>3. j.get => HeadIs("wait")'
    <3>1. net_jobs # <<>>
      BY <2>1
    <3>2. ~running.get
      BY <1>4, <3>1, Zenon
    <3>3. app' = app
      BY <1>2, <3>2, Zenon
    <3> QED BY <2>1, <3>3, Zenon DEF JobTrue, HeadIs
  <2>4. j.do = "close_ep" /\ ~j.owns => j.get /\ j.ep \in held'
    BY <1>2, <2>1, Zenon DEF JobTrue
  <2>5. j.do = "delete" => Unowned(j.ep)'
    BY <1>9, <2>1, Zenon DEF JobTrue
  <2>6. j.ep \in Endpoints => state'[j.ep] # "none"
    BY <1>3, <2>1, Zenon DEF JobTrue
  <2>7. (j.do = "stop" => j.get) /\ (j.do = "close_soon" => shut')
    BY <1>2, <2>1, Zenon DEF JobTrue
  <2> QED BY <2>2, <2>3, <2>4, <2>5, <2>6, <2>7, Zenon DEF JobTrue
<1>11. InTurn'
    BY <1>2, NoJobTrue, Zenon DEF NetworkInv, InTurn, Quiet, NoJob, Job
<1>12. AppTrue'
  <2>1. CASE running.get
    <3>1. app' = Tail(app)
      BY <1>2, <2>1, Zenon
    <3>2. HeadTrue' /\ Fits(app', held', net' = "gone")
      BY <1>2, <1>6, <2>1, <3>1, FirstStep, NoHead, Zenon
    <3> QED BY <3>2, Zenon DEF AppTrue
  <2>2. CASE ~running.get
    <3>1. app' = app
      BY <1>2, <2>2, Zenon
    <3>2. Fits(app', held', net' = "gone") /\ HeadTrue
      BY <1>2, <3>1, Zenon DEF NetworkInv, AppTrue
    <3>3. \A o : HeadIs(o)' = HeadIs(o)
      BY <3>1, Zenon DEF HeadIs
    <3>4. InApp({"clearing"})' => InApp({"clearing"})
      BY <3>1, Zenon DEF InApp
    <3>5. Unowned(app[1].ep) => Unowned(app[1].ep)'
      <4>1. NoJob.do # "close_ep"
        BY Zenon DEF NoJob, Job
      <4> QED BY <1>2, <1>5, <3>1, <4>1, Zenon DEF Unowned
    <3>6. HeadIs("insert") => Late
      BY <1>2, <3>2, Zenon DEF HeadTrue, Settled
    <3>7. /\ HeadIs("close_ep")' => ~shut' /\ Len(app)' = 2 /\ app'[2] = Step("reset", app'[1].ep)
          /\ HeadIs("close_all")' => app'[1].ep = None /\ ~InApp({"clearing"})'
          /\ HeadIs("stop")' => app'[1].ep = None /\ Len(app') = 1
      BY <1>2, <3>1, <3>2, <3>3, <3>4, Zenon DEF HeadTrue
    <3>8. HeadIs("delete")' => Unowned(app[1].ep)' /\ (app'[1].ep \in Endpoints => state'[app'[1].ep] # "none")
      BY <1>3, <3>1, <3>2, <3>3, <3>5, Zenon DEF HeadTrue
    <3>9. HeadIs("insert") => state'[app[1].ep] = "live"
      <4>1. HeadIs("insert") => /\ app[1].ep \in Endpoints /\ state[app[1].ep] = "live" /\ running.ep # app[1].ep
                                /\ app[1].ep \notin endpoints
        BY <1>4, <3>2, Zenon DEF HeadTrue, Unowned
      <4> QED BY <1>2, <1>3, <4>1, Zenon
    <3>10. NoJob.ep \notin Endpoints
      BY NetworkAssumption, Zenon DEF NoJob, Job
    <3>11. HeadIs("insert")' => /\ Len(app') = 1 /\ app'[1].ep \in Endpoints /\ state'[app'[1].ep] = "live"
                                /\ Unowned(app[1].ep)' /\ (\A j \in Line' : j.ep # app'[1].ep) /\ Late
      BY <1>5, <3>1, <3>2, <3>3, <3>5, <3>6, <3>9, <3>10, Zenon DEF HeadTrue
    <3>12. HeadTrue'
      BY <3>7, <3>8, <3>11, Zenon DEF HeadTrue
    <3> QED BY <3>2, <3>12, Zenon DEF AppTrue
  <2> QED BY <2>1, <2>2, Zenon
<1>13. Calm'
  <2>1. CASE running.get
    <3>1. net_jobs' = <<>>
      BY <1>2, <1>4, <2>1, Zenon
    <3>2. Line' = {NoJob}
      BY <1>2, <3>1 DEF Line
    <3>3. AllQuiet'
      BY <3>2, NoJobTrue, Zenon DEF AllQuiet, Quiet
    <3> QED BY <3>3, Zenon DEF Calm
  <2>2. CASE ~running.get
    <3>1. app' = app
      BY <1>2, <2>2, Zenon
    <3>2. (\A o : HeadIs(o)' = HeadIs(o)) /\ (\A ops : InApp(ops)' = InApp(ops))
      BY <3>1, Zenon DEF HeadIs, InApp
    <3>3. AllQuiet => AllQuiet'
      BY <1>5, NoJobTrue, Zenon DEF AllQuiet, Quiet
    <3>4. Draining => Draining'
      <4>1. (\E j \in Line : j.get) => \E j \in Line' : j.get
        BY <1>5, <2>2, Zenon
      <4> QED BY <3>2, <4>1, Zenon DEF Draining
    <3>5. running.do = "close_soon" => AllQuiet' \/ Draining'
      BY <1>4, <1>5, NoJobTrue, Zenon DEF AllQuiet, Quiet, Draining
    <3> QED BY <1>2, <3>2, <3>3, <3>4, <3>5, Zenon DEF NetworkInv, Calm
  <2> QED BY <2>1, <2>2, Zenon
<1> QED BY <1>3, <1>7, <1>8, <1>10, <1>11, <1>12, <1>13, Zenon DEF NetworkInv

\* What is next stays true when the jobs stay.
LEMMA HeadStays ==
    ASSUME HeadTrue, UNCHANGED <<app, shut, net_jobs, running>>,
           Unowned(app[1].ep) => Unowned(app[1].ep)',
           \A e \in Endpoints : state[e] # "none" => state'[e] # "none",
           HeadIs("insert") => state'[app[1].ep] = "live"
    PROVE  HeadTrue'
<1>1. Line' = Line /\ (Settled => Settled')
    BY LineSame, Zenon
<1>2. (\A o : HeadIs(o)' = HeadIs(o)) /\ (InApp({"clearing"})' => InApp({"clearing"}))
    BY Zenon DEF HeadIs, InApp
<1>3. /\ HeadIs("close_ep")' => ~shut' /\ Len(app)' = 2 /\ app'[2] = Step("reset", app'[1].ep)
      /\ HeadIs("close_all")' => app'[1].ep = None /\ ~InApp({"clearing"})'
      /\ HeadIs("stop")' => app'[1].ep = None /\ Len(app') = 1
    BY <1>2, Zenon DEF HeadTrue
<1>4. HeadIs("delete")' => Unowned(app[1].ep)' /\ (app'[1].ep \in Endpoints => state'[app'[1].ep] # "none")
    BY <1>2, Zenon DEF HeadTrue
<1>5. HeadIs("insert")' => /\ Len(app') = 1 /\ app'[1].ep \in Endpoints /\ state'[app'[1].ep] = "live"
                           /\ Unowned(app[1].ep)' /\ (\A j \in Line' : j.ep # app'[1].ep) /\ (~Late => Settled')
    BY <1>1, <1>2, Zenon DEF HeadTrue
<1> QED BY <1>3, <1>4, <1>5, Zenon DEF HeadTrue

\* The application's steps and the jobs stay, and with them what is quiet.
LEMMA CalmStays ==
    ASSUME Calm, UNCHANGED <<app, net, shutdown_immediate, net_jobs, running>>
    PROVE  Calm'
<1>1. Line' = Line /\ (AllQuiet => AllQuiet')
    BY LineSame, Zenon
<1>2. (\A o : HeadIs(o)' = HeadIs(o)) /\ (\A ops : InApp(ops)' = InApp(ops))
    BY Zenon DEF HeadIs, InApp
<1> QED BY <1>1, <1>2, Zenon DEF Calm, Draining

\* A callback locks its endpoint, which somebody owns.
LEMMA LockKeeps == ASSUME NetworkInv, NEW e \in Endpoints, Lock(e) PROVE NetworkInv'
<1>1. /\ running = NoJob /\ locked = None /\ state[e] = "live" /\ (e \in endpoints \cup held \/ LoopOwns(e))
      /\ locked' = e
      /\ UNCHANGED <<own_loop, state, conns, endpoints, shutdown_immediate, net, shut, held, app, net_jobs, running>>
    BY Zenon DEF Lock, LoopIdle, thread
<1>2. Line' = Line
    BY <1>1, LineSame, Zenon
<1>3. e # None
    BY NetworkAssumption, Zenon
<1>4. e \in endpoints \/ e \in held \/ \E j \in Line : j.do = "close_ep" /\ j.ep = e
  <2>1. LoopOwns(e) => \E i \in DOMAIN net_jobs : net_jobs[i].owns /\ net_jobs[i].ep = e
    BY <1>1, <1>3, Zenon DEF LoopOwns, Owns
  <2>2. \A i \in DOMAIN net_jobs : net_jobs[i] \in Line
    BY LineTypes, Zenon DEF NetworkInv
  <2> QED BY <1>1, <2>1, <2>2, Zenon DEF NetworkInv, JobsTrue, JobTrue
<1>5. \A x : Unowned(x) => x # e
    BY <1>4, Zenon DEF Unowned
<1>6. JobsTrue'
  <2> SUFFICES ASSUME NEW j \in Line PROVE JobTrue(j)'
    BY <1>2, Zenon DEF JobsTrue
  <2>1. JobTrue(j) /\ (HeadIs("wait") => HeadIs("wait")')
    BY <1>1, Zenon DEF NetworkInv, JobsTrue, HeadIs
  <2>2. Unowned(j.ep) => Unowned(j.ep)'
    BY <1>1, <1>2, <1>5, Zenon DEF Unowned
  <2> QED BY <1>1, <2>1, <2>2, Zenon DEF JobTrue
<1>7. NetworkType'
    BY <1>1, Zenon DEF NetworkInv, NetworkType
<1>8. NoneAbandoned' /\ PointersLive'
    BY <1>1, Zenon DEF NetworkInv, NoneAbandoned, PointersLive
<1>9. InTurn'
    BY <1>1, Zenon DEF NetworkInv, InTurn, Quiet
<1>10. HeadTrue'
  <2>1. Unowned(app[1].ep) => Unowned(app[1].ep)'
    BY <1>1, <1>2, <1>5, Zenon DEF Unowned
  <2>2. HeadIs("insert") => state'[app[1].ep] = "live"
    BY <1>1, Zenon DEF NetworkInv, AppTrue, HeadTrue
  <2> QED BY <1>1, <2>1, <2>2, HeadStays, Zenon DEF NetworkInv, AppTrue
<1>11. AppTrue' /\ Calm'
    BY <1>1, <1>10, CalmStays, Zenon DEF NetworkInv, AppTrue
<1> QED BY <1>6, <1>7, <1>8, <1>9, <1>11, Zenon DEF NetworkInv

\* A callback lets go of its endpoint.
LEMMA UnlockKeeps == ASSUME NetworkInv, Unlock PROVE NetworkInv'
<1> DEFINE kept == endpoints \cup held \cup {e \in Endpoints : \E i \in DOMAIN net_jobs : Owns(net_jobs[i], e)}
<1>1. /\ locked # None /\ locked' = None /\ Destroy({locked} \ kept, {})
      /\ UNCHANGED <<own_loop, endpoints, shutdown_immediate, net, shut, held, app, net_jobs, running>>
    BY Zenon DEF Unlock, thread
<1>2. /\ state' \in [Endpoints -> {"none", "live", "gone"}]
      /\ conns' \in [Endpoints -> {"none", "open", "closed"}]
      /\ NoneAbandoned'
      /\ \A e \in Endpoints : e \notin {locked} \ kept => state'[e] = state[e]
      /\ \A e \in Endpoints : state[e] # "none" => state'[e] # "none"
    BY <1>1, Destroyed, Zenon DEF NetworkInv
<1>3. Line' = Line /\ running = NoJob
    BY <1>1, LineSame, Zenon DEF NetworkInv, InTurn
<1>4. NetworkType'
    BY <1>1, <1>2, Zenon DEF NetworkInv, NetworkType
<1>5. PointersLive'
  <2>1. \A e \in endpoints \cup held : e \in Endpoints /\ e \notin {locked} \ kept /\ state[e] = "live"
    BY Zenon DEF NetworkInv, NetworkType, PointersLive
  <2> QED BY <1>1, <1>2, <2>1, Zenon DEF PointersLive
<1>6. JobsTrue'
  <2> SUFFICES ASSUME NEW j \in Line PROVE JobTrue(j)'
    BY <1>3, Zenon DEF JobsTrue
  <2>1. JobTrue(j) /\ (HeadIs("wait") => HeadIs("wait")')
    BY <1>1, Zenon DEF NetworkInv, JobsTrue, HeadIs
  <2>2. Unowned(j.ep) => Unowned(j.ep)'
    BY <1>1, <1>3, NetworkAssumption, Zenon DEF Unowned
  <2>3. j.owns => j.ep \in Endpoints /\ state'[j.ep] = "live"
    <3>1. j.owns => j # NoJob
      BY DEF NoJob, Job
    <3>2. j.owns => \E i \in DOMAIN net_jobs : Owns(net_jobs[i], j.ep)
      BY <1>3, <3>1, Zenon DEF Line, Owns
    <3>3. j.owns => j.ep \in Endpoints /\ j.ep \in kept /\ state[j.ep] = "live"
      BY <2>1, <3>2, Zenon DEF JobTrue
    <3> QED BY <1>2, <3>3, Zenon
  <2> QED BY <1>1, <1>2, <2>1, <2>2, <2>3, Zenon DEF JobTrue
<1>7. InTurn'
    BY <1>1, Zenon DEF NetworkInv, InTurn, Quiet
<1>8. HeadTrue'
  <2>1. Unowned(app[1].ep) => Unowned(app[1].ep)'
    BY <1>1, <1>3, NetworkAssumption, Zenon DEF Unowned
  <2>2. HeadIs("insert") => state'[app[1].ep] = "live"
    <3>1. HeadIs("insert") => app[1].ep \in Endpoints /\ state[app[1].ep] = "live" /\ locked # app[1].ep
      BY Zenon DEF NetworkInv, AppTrue, HeadTrue, Unowned
    <3> QED BY <1>2, <3>1, Zenon
  <2> QED BY <1>1, <1>2, <2>1, <2>2, HeadStays, Zenon DEF NetworkInv, AppTrue
<1>9. AppTrue' /\ Calm'
    BY <1>1, <1>8, CalmStays, Zenon DEF NetworkInv, AppTrue
<1> QED BY <1>2, <1>4, <1>5, <1>6, <1>7, <1>9, Zenon DEF NetworkInv

\* A connection is made, or nothing changes.
LEMMA ConnectedKeeps ==
    ASSUME NetworkInv,
           (\E e \in Endpoints : Connected(e)) \/ UNCHANGED networkVars
    PROVE  NetworkInv'
<1>1. /\ UNCHANGED <<own_loop, state, endpoints, shutdown_immediate, net, shut, held, app, net_jobs, running, locked>>
      /\ conns' = conns \/ \E e \in Endpoints : state[e] = "live" /\ conns' = [conns EXCEPT ![e] = "open"]
    BY Zenon DEF Connected, networkVars, thread, loop
<1>2. conns' \in [Endpoints -> {"none", "open", "closed"}] /\ NoneAbandoned'
  <2>1. CASE conns' = conns
    BY <1>1, <2>1, Zenon DEF NetworkInv, NetworkType, NoneAbandoned
  <2>2. ASSUME NEW e \in Endpoints, state[e] = "live", conns' = [conns EXCEPT ![e] = "open"]
        PROVE  conns' \in [Endpoints -> {"none", "open", "closed"}] /\ NoneAbandoned'
    <3>1. conns \in [Endpoints -> {"none", "open", "closed"}] /\ NoneAbandoned
      BY Zenon DEF NetworkInv, NetworkType
    <3> QED BY <1>1, <2>2, <3>1, Zenon DEF NoneAbandoned
  <2> QED BY <1>1, <2>1, <2>2, Zenon
<1>3. NetworkType'
    BY <1>1, <1>2, Zenon DEF NetworkInv, NetworkType
<1>4. PointersLive' /\ InTurn' /\ Calm'
    BY <1>1, TurnSame, CalmStays, Zenon DEF NetworkInv, PointersLive
<1>5. Line' = Line
    BY <1>1, LineSame, Zenon
<1>6. JobsTrue'
  <2> SUFFICES ASSUME NEW j \in Line PROVE JobTrue(j)'
    BY <1>5, Zenon DEF JobsTrue
  <2>1. JobTrue(j) /\ (HeadIs("wait") => HeadIs("wait")')
    BY <1>1, Zenon DEF NetworkInv, JobsTrue, HeadIs
  <2>2. Unowned(j.ep) => Unowned(j.ep)'
    BY <1>1, <1>5, Zenon DEF Unowned
  <2> QED BY <1>1, <2>1, <2>2, Zenon DEF JobTrue
<1>7. HeadTrue'
  <2>1. Unowned(app[1].ep) => Unowned(app[1].ep)'
    BY <1>1, <1>5, Zenon DEF Unowned
  <2>2. HeadIs("insert") => state'[app[1].ep] = "live"
    BY <1>1, Zenon DEF NetworkInv, AppTrue, HeadTrue
  <2> QED BY <1>1, <2>1, <2>2, HeadStays, Zenon DEF NetworkInv, AppTrue
<1>8. AppTrue'
    BY <1>1, <1>7, Zenon DEF NetworkInv, AppTrue
<1> QED BY <1>2, <1>3, <1>4, <1>6, <1>8, Zenon DEF NetworkInv

\* Every step keeps the invariant.
LEMMA NetworkKeeps == ASSUME NetworkInv, [NetworkNext]_networkVars PROVE NetworkInv'
<1>1. ASSUME NEW e \in Endpoints,
             endpoint(e) \/ close_endpoint(e) \/ close_soon_endpoint(e) \/ Release(e) \/ Lock(e)
      PROVE  NetworkInv'
    BY <1>1, EndpointKeeps, CloseEndpointKeeps, CloseSoonEndpointKeeps, ReleaseKeeps, LockKeeps, Zenon
<1>2. CASE close \/ close_soon \/ set_shutdown_immediate \/ DestroyNetwork
    BY <1>2, CloseKeeps, CloseSoonKeeps, SetImmediateKeeps, DestroyNetworkKeeps, Zenon
<1>3. CASE AppStep
    BY <1>3, InsertKeeps, CallGetKeeps, ResetKeeps, ClearKeeps, FinishKeeps, Zenon DEF AppStep
<1>4. CASE RunJob \/ EndJob \/ Unlock
    BY <1>4, RunJobKeeps, EndJobKeeps, UnlockKeeps, Zenon
<1>5. CASE (\E e \in Endpoints : Connected(e)) \/ UNCHANGED networkVars
    BY <1>5, ConnectedKeeps, Zenon
<1> QED BY <1>1, <1>2, <1>3, <1>4, <1>5, Zenon DEF NetworkNext, Done

\* What is inductive is enough.
LEMMA InvIsSafe == NetworkInv => NetworkSafe
<1> SUFFICES ASSUME NetworkInv PROVE NetworkSafe
    BY Zenon
<1>1. OwnedLive
  <2> SUFFICES ASSUME NEW e \in Endpoints,
                      e \in endpoints \/ e \in held \/ LoopOwns(e) \/ Owns(running, e)
               PROVE  state[e] = "live"
    BY Zenon DEF OwnedLive
  <2>1. running \in Line /\ \A i \in DOMAIN net_jobs : net_jobs[i] \in Line
    BY LineTypes, Zenon DEF NetworkInv
  <2>2. \A j \in Line : Owns(j, e) => state[e] = "live"
    BY Zenon DEF NetworkInv, JobsTrue, JobTrue, Owns
  <2>3. locked = e => state[e] = "live"
    BY NetworkAssumption, Zenon DEF NetworkInv, PointersLive
  <2> QED BY <2>1, <2>2, <2>3, Zenon DEF NetworkInv, PointersLive, LoopOwns
<1>2. NoDangling
    BY Zenon DEF NetworkInv, Calm, NoDangling
<1>3. NoRace
  <2> SUFFICES ASSUME ~Quiet(running), NEW i \in DOMAIN app
               PROVE  (~Hasty => app[i].op # "clearing") /\ (~Late => app[i].op # "insert")
    BY Zenon DEF NoRace
  <2>1. running \in Line
    BY LineTypes, Zenon DEF NetworkInv
  <2>2. ~AllQuiet
    BY <2>1, Zenon DEF AllQuiet
  <2>3. ~Hasty => ~InApp({"clearing"})
    BY <2>2, Zenon DEF NetworkInv, Calm
  <2>4. ~Hasty => app[i].op # "clearing"
    BY <2>3, Zenon DEF InApp
  <2>5. ASSUME ~Late, app[i].op = "insert" PROVE FALSE
    <3>1. i = 1 /\ app # <<>>
      <4>1. "insert" \in Heads
        BY Zenon DEF Heads
      <4>2. app # <<>>
        OBVIOUS
      <4> QED BY <2>5, <4>1, <4>2, Zenon DEF NetworkInv, AppTrue, Fits
    <3>2. Settled
      BY <2>5, <3>1, Zenon DEF NetworkInv, AppTrue, HeadTrue, HeadIs
    <3> QED BY <3>2, NoJobTrue, Zenon DEF Settled
  <2> QED BY <2>4, <2>5, Zenon
<1> QED BY <1>1, <1>2, <1>3, Zenon DEF NetworkInv, NetworkSafe

\* Whatever the application does within network.hpp's rules, with any number of endpoints: no endpoint
\* goes away with connections open or while the Network, the application, a job or a callback has a
\* pointer to it.  Unless it mixes an immediate shutdown with close_soon (Hasty), no job that works on
\* the Network is left when ~Network has ended its members, and the loop thread never works on
\* Network::endpoints while the set is cleared; nor while an endpoint is inserted, unless endpoints
\* are created while others are being closed (Late).
THEOREM NetworkIsSafe == NetworkSpec => []NetworkSafe
<1>1. NetworkInit => NetworkInv
    BY NetworkStart, Zenon
<1>2. NetworkInv /\ [NetworkNext]_networkVars => NetworkInv'
    BY NetworkKeeps, Zenon
<1>3. NetworkInv => NetworkSafe
    BY InvIsSafe, Zenon
<1> QED BY <1>1, <1>2, <1>3, PTL DEF NetworkSpec
=============================================================================

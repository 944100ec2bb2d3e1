--------------------------- MODULE MCConnections ---------------------------
(* Finding connections, for model checking: the endpoint's lookup tables, with *)
(* constructors that may fail, and the tickets and the replay protection of    *)
(* early data.  They share no variables, so each is explored with the other at *)
(* rest: `focus` says which.                                                   *)
EXTENDS ConnLookup, EarlyTickets, TLC

CONSTANTS
    k1, k2, k3, d1, d2, t1,
    MaxHandshakes   \* bound: handshakes that issue tickets, and attempts with early data

VARIABLE focus

MCInit ==
    /\ focus \in {"lookup", "tickets"}
    /\ Init /\ TicketsInit

MCNext ==
    /\ UNCHANGED focus
    /\ \/ focus = "lookup" /\ Next /\ UNCHANGED ticketVars
       \/ /\ focus = "tickets" /\ TicketsNext /\ UNCHANGED vars
          /\ Len(issued') \div 2 + Len(hellos') <= MaxHandshakes

MCSpec == MCInit /\ [][MCNext]_<<focus, vars, ticketVars>>

Symmetry == Permutations(RandomCids) \cup Permutations(ClientCids)
=============================================================================

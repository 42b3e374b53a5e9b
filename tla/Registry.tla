------------------------------ MODULE Registry ------------------------------
(***************************************************************************)
(* What the list of clients promises: a map from client ids to connections *)
(* in which an id is given to a new connection only if it is free, or if   *)
(* its connection was dead when the registration looked.                   *)
(***************************************************************************)
CONSTANTS Ids, Conns

VARIABLES
    entries,   \* the map, a set of pairs <<id, connection>>
    dead,      \* the connections whose session is not alive
    doomed     \* the connection that a registration has found dead, if any

rvars == <<entries, dead, doomed>>

Of(id) == {e \in entries : e[1] = id}

Init == entries = {} /\ dead = {} /\ doomed = {}

\* A registration finds that the connection of its id is dead.
Condemn ==
    /\ doomed = {}
    /\ \E e \in entries : e[2] \in dead /\ doomed' = {e[2]}
    /\ UNCHANGED <<entries, dead>>

\* Connection c takes the place of the one that was found dead, or a free place.
Register(id, c) ==
    /\ \A e \in Of(id) : e[2] \in doomed
    /\ \A e \in entries : e[2] # c
    /\ entries' = (entries \ Of(id)) \cup {<<id, c>>}
    /\ doomed' = {}
    /\ UNCHANGED dead

\* Sessions run out and are prolonged as time goes by.
Age == UNCHANGED <<entries, doomed>>

\* A shutdown clears the map, not in the middle of a registration.
Clear == doomed = {} /\ entries' = {} /\ UNCHANGED <<dead, doomed>>

Next == Condemn \/ (\E id \in Ids, c \in Conns : Register(id, c)) \/ Age \/ Clear

Spec == Init /\ [][Next]_rvars
=============================================================================

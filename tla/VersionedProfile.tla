------------------------- MODULE VersionedProfile -------------------------
(***************************************************************************)
(* What PUT /preferences promises: the profiles of a user are a history of *)
(* versions 1, 2, 3, ... that only grows at its end, each version is the   *)
(* configuration of one accepted request, and the newest one is current.   *)
(* Deleting the user erases the history.                                   *)
(***************************************************************************)
EXTENDS Naturals, FiniteSets

CONSTANTS User, Request

VARIABLES
    history,    \* history[u]: pairs of a version and the request that made it
    current,    \* current[u]: the request whose version is active, or none
    accepted    \* requests that have made their version

vars == <<history, current, accepted>>

Init ==
    /\ history = [u \in User |-> {}]
    /\ current = [u \in User |-> {}]
    /\ accepted = {}

Accept(u, c) ==
    /\ c \notin accepted
    /\ accepted' = accepted \cup {c}
    /\ history' = [history EXCEPT ![u] = @ \cup {<<Cardinality(@) + 1, c>>}]
    /\ current' = [current EXCEPT ![u] = {c}]

Erase(u) ==
    /\ history' = [history EXCEPT ![u] = {}]
    /\ current' = [current EXCEPT ![u] = {}]
    /\ UNCHANGED accepted

Next == \E u \in User : Erase(u) \/ \E c \in Request : Accept(u, c)

Spec == Init /\ [][Next]_vars
=============================================================================

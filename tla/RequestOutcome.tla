--------------------------- MODULE RequestOutcome ---------------------------
(***************************************************************************)
(* What the authority promises about requests, without nonces, views or    *)
(* tentative state: the outcome of a request is decided at most once, is   *)
(* never revised, and a client only hears outcomes that are decided.       *)
(***************************************************************************)
CONSTANTS Requests, Outcomes, None

VARIABLES decided, announced

vars == <<decided, announced>>

Init ==
    /\ decided = [q \in Requests |-> None]
    /\ announced = [q \in Requests |-> None]

\* One commit may decide several requests.
Decide ==
    /\ decided' \in [Requests -> Outcomes \cup {None}]
    /\ \A q \in Requests : decided[q] # None => decided'[q] = decided[q]
    /\ UNCHANGED announced

Announce(q) ==
    /\ decided[q] # None
    /\ announced' = [announced EXCEPT ![q] = decided[q]]
    /\ UNCHANGED decided

Next == Decide \/ \E q \in Requests : Announce(q)

Spec == Init /\ [][Next]_vars
=============================================================================

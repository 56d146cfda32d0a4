-------------------------- MODULE MCRequestLedger --------------------------
(***************************************************************************)
(* A small instance of RequestLedger for TLC: enough nonces for a request  *)
(* to hold two at a time, one change of view, and a clock that outlives a  *)
(* nonce.                                                                  *)
(***************************************************************************)
EXTENDS RequestLedger, TLC

CONSTANTS q1, q2, g1, g2, i1, i2, n1, n2, n3

OneGrant == [q \in Requests |-> g1]
IdSymmetry == Permutations(NonceIds) \cup Permutations(Requests) \cup Permutations(Intents)
============================================================================

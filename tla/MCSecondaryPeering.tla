------------------------- MODULE MCSecondaryPeering -------------------------
(* Instances of SecondaryPeering for TLC.                                  *)
EXTENDS SecondaryPeering, TLC

CONSTANTS ka, kb, za, e1, e2, d1, d2

\* Each key name has its own endpoint.
OwnEndpoint == [k \in KeyNames |-> IF k = ka THEN e1 ELSE e2]

\* The lexicographic order of key name, zone and kind, for one zone.
KeyRank(k) == IF k = ka THEN 0 ELSE 1
KindRank(kind) == IF kind = "notify" THEN 1 ELSE 2
MCRank == [j \in Jobs |-> KeyRank(j[1]) * 2 + KindRank(j[3])]

DriverSymmetry == Permutations(Drivers)

=============================================================================

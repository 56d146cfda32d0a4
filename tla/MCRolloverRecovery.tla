------------------------- MODULE MCRolloverRecovery -------------------------
(* An instance of RolloverRecovery for TLC.                                *)
EXTENDS RolloverRecovery, TLC

CONSTANTS z1, z2, k1, k2, k3, k4, k5

MCMaxBaseTtl == [z \in Zones |-> 1]

=============================================================================

------------------------ MODULE MCRolloverValidation ------------------------
(* Instances of RolloverValidation for TLC.                                *)
EXTENDS RolloverValidation, TLC

CONSTANTS z1, k1, k2, k3

MCMaxBaseTtl == [z \in Zones |-> 2]
MCDnskeyTtl == [z \in Zones |-> 2]
KeySymmetry == Permutations(Keys)

=============================================================================

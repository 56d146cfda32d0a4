---------------------------- MODULE MCSupervisor ----------------------------
(* Instance of Supervisor for TLC.                                         *)
EXTENDS Supervisor

CONSTANTS s1, s2

=============================================================================

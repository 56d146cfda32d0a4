-------------------------- MODULE RolloverRecovery --------------------------
(***************************************************************************)
(* What stewards can do about a command the application refuses.  Such a   *)
(* command fails every maintenance transaction, of every zone, until       *)
(* governance overwrites its row; but the constitution accepts proposals   *)
(* by its own mirror, which has already moved.  Stewards propose anything  *)
(* the constitution accepts until they turn careful; from then on they     *)
(* only replace refused commands, by what the mirror admits.               *)
(***************************************************************************)
EXTENDS KskRollover

VARIABLE careful

recoveryVars == <<vars, careful>>

RecoveryInit == Init /\ careful = FALSE

Refused == {z \in Pending : ~Accepts(z)}

StartCommand == [command |-> "start", new_ds |-> NoKey, hold |-> NoHold]
AbortCommand == [command |-> "abort", new_ds |-> NoKey, hold |-> NoHold]

\* A command for a zone that was never governed is answered by governing it,
\* any other by the one proposal the mirror's stage admits.
Repair(z) ==
    /\ careful
    /\ z \in Refused
    /\ \/ z \notin governed /\ CreateZone(z)
       \/ z \in governed /\ Propose(z, StartCommand)
       \/ z \in governed /\ Propose(z, AbortCommand)
    /\ UNCHANGED careful

\* Bound: a key is kept back for each zone, for the repairs.
Reserve == Cardinality(generated) + Cardinality(zone_rows)
             + Cardinality(Commanded("start")) + Cardinality(Zones) < Cardinality(Keys)

\* One of the proposals stewards make while they are not careful.
Carefree ==
    /\ ~careful
    /\ \/ \E z \in Zones : Reserve /\ CreateZone(z)
       \/ \E z \in Zones, c \in Commands :
             (c.command = "start" => Reserve) /\ Propose(z, c)
    /\ UNCHANGED careful

TurnCareful == ~careful /\ careful' = TRUE /\ UNCHANGED vars

RecoveryNext ==
    \/ Carefree
    \/ TurnCareful
    \/ \E z \in Zones : Repair(z)
    \/ Maintenance /\ UNCHANGED careful
    \/ Tick /\ UNCHANGED careful

\* The timer keeps waking maintenance, and careful stewards keep at it.
RecoverySpec ==
    /\ RecoveryInit
    /\ [][RecoveryNext]_recoveryVars
    /\ WF_recoveryVars(Maintenance /\ UNCHANGED careful)
    /\ \A z \in Zones : WF_recoveryVars(Repair(z))

\* However wrong the commands accepted so far, the mirror always admits
\* proposals that clear them: once stewards turn careful, every row is drained
\* and maintenance runs again.
MaintenanceRecovers == careful ~> Pending = {}

=============================================================================

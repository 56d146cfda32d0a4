-------------------------- MODULE OperationsProofs --------------------------
(***************************************************************************)
(* What operators do to a service, for every value of the constants: roll  *)
(* the key-signing keys of its zones, install its secondary and backend    *)
(* hosts, run its development server and export its traces.  The           *)
(* procedures share no state; each has a section of its own, with the      *)
(* inductive invariant its properties need.                                *)
(***************************************************************************)
EXTENDS RolloverValidation, BackendHost, DevServer, TraceExport, TLAPS

-----------------------------------------------------------------------------
(* KSK rollover: any number of zones and keys, any hold and any            *)
(* interleaving of proposals and maintenance.                              *)
(*                                                                         *)
(* The inductive invariant adds two things to the properties: what is      *)
(* known of zones that do not exist yet, and where the mirror stands while *)
(* a command is waiting, refused or not.                                   *)

\* Nothing is known of a zone before it is created.
AbsentBlank ==
    \A z \in Zones \ zones : ksk_next[z] = NoKey /\ rollover[z] = NoRollover

\* An accepted proposal has moved the mirror already; otherwise it is exact.
MirrorTracks ==
    \A z \in Zones :
        mirror[z] = IF command[z] = NoCommand THEN rollover[z].stage
                                              ELSE StageAfter(command[z])

IInv == TypeOK /\ AbsentBlank /\ KeysAgree /\ MirrorTracks

\* The inductive invariant holds before any zone exists.
LEMMA InitEstablishes == Init => IInv
  BY TimeAssumption
     DEF Init, IInv, TypeOK, AbsentBlank, KeysAgree, MirrorTracks, NoRollover, Stages,
         NoCommand

-----------------------------------------------------------------------------
(* Commands and rollover records.                                          *)

\* A command is one of three and never the absent one.
LEMMA CommandKinds ==
  ASSUME NEW c \in Commands
  PROVE  /\ c.command \in {"start", "complete", "abort"}
         /\ c # NoCommand
         /\ c.hold \in Holds \cup {NoHold}
         /\ StageAfter(c) \in Stages
  BY DEF Commands, NoCommand, StageAfter, Stages

\* A rollover in progress has a next key and is double-signed.
LEMMA RolloverKinds ==
  ASSUME NEW r \in KskRollovers
  PROVE  r # NoRollover /\ r.next \in Keys /\ r.stage = "double-signature"
  BY KeyAssumption DEF KskRollovers, NoRollover

\* The three commands partition the zones with one.
LEMMA PendingKinds ==
  ASSUME TypeOK, NEW z \in Zones
  PROVE  /\ z \in Pending <=> \/ z \in Commanded("start")
                              \/ z \in Commanded("complete")
                              \/ z \in Commanded("abort")
         /\ ~(z \in Commanded("start") /\ z \in Commanded("complete"))
         /\ ~(z \in Commanded("start") /\ z \in Commanded("abort"))
         /\ z \in Pending => /\ command[z] \in Commands
                             /\ StageAfter(command[z]) =
                                  IF z \in Commanded("start") THEN "double-signature"
                                                              ELSE "idle"
  <1>1. command[z] \in Commands \cup {NoCommand}
    BY Zenon DEF TypeOK
  <1>2. NoCommand.command = "none"
    BY Zenon DEF NoCommand
  <1>3. CASE command[z] = NoCommand
    BY <1>2, <1>3, Zenon DEF Pending, Commanded
  <1>4. CASE command[z] \in Commands
    BY <1>4, CommandKinds, Zenon DEF Pending, Commanded, StageAfter
  <1> QED
    BY <1>1, <1>3, <1>4, Zenon

-----------------------------------------------------------------------------
(* Governance and time.                                                    *)

\* Creating a zone keeps the inductive invariant.
LEMMA CreateZonePreserves ==
  ASSUME IInv, NEW z \in Zones, CreateZone(z)
  PROVE  IInv'
  BY Zenon DEF CreateZone, appVars, IInv, TypeOK, AbsentBlank, KeysAgree, MirrorTracks

\* The passing of time keeps the inductive invariant.
LEMMA TickPreserves ==
  ASSUME IInv, Tick
  PROVE  IInv'
  <1>1. clock' \in 0 .. MaxTime
    BY TimeAssumption DEF Tick, IInv, TypeOK
  <1> QED
    BY <1>1, Zenon DEF Tick, govVars, rowVars, appVars, IInv, TypeOK, AbsentBlank, KeysAgree,
                MirrorTracks

\* A proposal that is accepted keeps the inductive invariant.
LEMMA ProposePreserves ==
  ASSUME IInv, NEW z \in Zones, NEW c \in Commands, Propose(z, c)
  PROVE  IInv'
  <1>1. /\ mirror' = [mirror EXCEPT ![z] = StageAfter(c)]
        /\ command' = [command EXCEPT ![z] = c]
        /\ UNCHANGED <<clock, governed, zone_rows, zones, ksk, ksk_next, rollover,
                       dnskeys, generated>>
    BY Zenon DEF Propose, appVars
  <1>2. StageAfter(c) \in Stages /\ c # NoCommand
    BY CommandKinds, Zenon
  <1>3. TypeOK'
    BY <1>1, <1>2, Zenon DEF IInv, TypeOK
  <1>4. MirrorTracks'
    <2> SUFFICES ASSUME NEW y \in Zones
                 PROVE  mirror'[y] = IF command'[y] = NoCommand THEN rollover'[y].stage
                                                               ELSE StageAfter(command'[y])
      BY Zenon DEF MirrorTracks, StageAfter
    <2>1. CASE y = z
      BY <1>1, <1>2, <2>1, Zenon DEF IInv, TypeOK
    <2>2. CASE y # z
      BY <1>1, <2>2, Zenon DEF IInv, TypeOK, MirrorTracks
    <2> QED
      BY <2>1, <2>2, Zenon
  <1>5. AbsentBlank' /\ KeysAgree'
    BY <1>1, Zenon DEF IInv, AbsentBlank, KeysAgree
  <1> QED
    BY <1>3, <1>4, <1>5, Zenon DEF IInv

-----------------------------------------------------------------------------
(* Maintenance.                                                            *)

\* The hold a command asks for is a number of seconds.
LEMMA HoldIsNatural ==
  ASSUME TypeOK, NEW z \in Pending
  PROVE  HoldOf(z) \in Nat
  <1>1. z \in Zones /\ command[z] \in Commands
    BY Zenon DEF Pending, TypeOK
  <1>2. command[z].hold \in Holds \cup {NoHold}
    BY <1>1, CommandKinds, Zenon
  <1>3. 2 * Larger(MaxBaseTtl[z], MinTtl) \in Nat
    BY <1>1, TimeAssumption DEF Larger
  <1> QED
    BY <1>2, <1>3, TimeAssumption, Zenon DEF HoldOf

\* What one maintenance transaction does to a zone, case by case.
LEMMA MaintenanceOfZone ==
  ASSUME IInv, NEW z \in Zones,
         NEW born \in [zone_rows \ zones -> Keys],
         NEW next \in [Commanded("start") -> Keys],
         \A y \in Pending : Accepts(y)
  PROVE  /\ KskAfter(born)[z] \in Keys \cup {NoKey}
         /\ KskNextAfter(next)[z] \in Keys \cup {NoKey}
         /\ RolloverAfter(next)[z] \in KskRollovers \cup {NoRollover}
         /\ z \in Commanded("start") =>
               /\ z \in zones \cup zone_rows
               /\ rollover[z] = NoRollover
               /\ KskNextAfter(next)[z] = next[z]
               /\ RolloverAfter(next)[z].next = next[z]
               /\ RolloverAfter(next)[z] \in KskRollovers
         /\ z \in Commanded("complete") =>
               /\ z \in zones \cup zone_rows
               /\ rollover[z] # NoRollover
               /\ HoldElapsed(z)
               /\ command[z].new_ds = rollover[z].next
         /\ z \in Commanded("complete") \cup Commanded("abort") =>
               /\ z \in zones \cup zone_rows
               /\ KskNextAfter(next)[z] = NoKey
               /\ RolloverAfter(next)[z] = NoRollover
         /\ z \notin Pending => /\ KskNextAfter(next)[z] = ksk_next[z]
                                /\ RolloverAfter(next)[z] = rollover[z]
  <1> DEFINE S == z \in Commanded("start")
             C == z \in Commanded("complete")
             A == z \in Commanded("abort")
  <1>0. TypeOK
    BY Zenon DEF IInv
  <1>1. /\ z \in Pending <=> S \/ C \/ A
        /\ ~(S /\ C) /\ ~(S /\ A)
    BY <1>0, PendingKinds, Zenon
  <1>2. z \in Pending => Accepts(z)
    BY Zenon
  <1>3. /\ S => command[z].command = "start"
        /\ C => command[z].command = "complete"
    BY Zenon DEF Commanded
  <1>4. S => /\ z \in zones \cup zone_rows
             /\ rollover[z] = NoRollover
    BY <1>1, <1>2, <1>3, Zenon DEF Accepts
  <1>5. C => /\ z \in zones \cup zone_rows
             /\ rollover[z] # NoRollover
             /\ HoldElapsed(z)
             /\ command[z].new_ds = rollover[z].next
    BY <1>1, <1>2, <1>3, Zenon DEF Accepts
  <1>6. A => z \in zones \cup zone_rows
    BY <1>1, <1>2, Zenon DEF Accepts
  <1>7. S => /\ KskNextAfter(next)[z] = next[z]
             /\ RolloverAfter(next)[z].next = next[z]
             /\ RolloverAfter(next)[z] \in KskRollovers
    <2> SUFFICES ASSUME S
                 PROVE  /\ KskNextAfter(next)[z] = next[z]
                        /\ RolloverAfter(next)[z].next = next[z]
                        /\ RolloverAfter(next)[z] \in KskRollovers
      BY Zenon
    <2>1. z \in DOMAIN next /\ next[z] \in Keys
      BY Zenon
    <2>2. clock \in Nat /\ HoldOf(z) \in Nat
      BY <1>0, <1>1, HoldIsNatural, TimeAssumption DEF TypeOK
    <2>3. RolloverAfter(next)[z] = [stage |-> "double-signature", next |-> next[z],
                                    started_at |-> clock, hold |-> HoldOf(z)]
      BY <2>1, Zenon DEF RolloverAfter
    <2>4. RolloverAfter(next)[z] \in KskRollovers /\ RolloverAfter(next)[z].next = next[z]
      <3> HIDE DEF S, C, A
      <3> DEFINE h == HoldOf(z)
      <3> HIDE DEF h
      <3> QED
        BY <2>1, <2>2, <2>3 DEF KskRollovers, h
    <2> QED
      BY <2>1, <2>4, Zenon DEF KskNextAfter
  <1>8. C \/ A => KskNextAfter(next)[z] = NoKey /\ RolloverAfter(next)[z] = NoRollover
    BY <1>1, Zenon DEF KskNextAfter, RolloverAfter
  <1>9. z \notin Pending => /\ KskNextAfter(next)[z] = ksk_next[z]
                            /\ RolloverAfter(next)[z] = rollover[z]
    BY <1>1, Zenon DEF KskNextAfter, RolloverAfter
  <1>10. KskAfter(born)[z] \in Keys \cup {NoKey}
    BY <1>0, Zenon DEF KskAfter, TypeOK
  <1>11. /\ KskNextAfter(next)[z] \in Keys \cup {NoKey}
         /\ RolloverAfter(next)[z] \in KskRollovers \cup {NoRollover}
    BY <1>0, <1>1, <1>7, <1>8, <1>9, Zenon DEF TypeOK
  <1> QED
    BY <1>4, <1>5, <1>6, <1>7, <1>8, <1>9, <1>10, <1>11, Zenon

\* The key-signing key of a zone that existed before the transaction.
LEMMA KskOfZone ==
  ASSUME IInv, NEW z \in zones,
         NEW born \in [zone_rows \ zones -> Keys],
         NEW next \in [Commanded("start") -> Keys],
         \A y \in Pending : Accepts(y)
  PROVE  /\ z \in Commanded("complete") => KskAfter(born)[z] = ksk_next[z]
         /\ z \notin Commanded("complete") => KskAfter(born)[z] = ksk[z]
  BY Zenon DEF KskAfter, IInv, TypeOK

\* The keys and the record of every zone agree after the transaction.
LEMMA MaintenanceKeys ==
  ASSUME IInv, NEW born \in [zone_rows \ zones -> Keys],
         NEW next \in [Commanded("start") -> Keys], NEW due,
         \A y \in Pending : Accepts(y),
         Fresh(born, next),
         zones' = zones \cup zone_rows,
         generated' = generated \cup {born[z] : z \in DOMAIN born}
                                \cup {next[z] : z \in DOMAIN next},
         ksk' = KskAfter(born),
         ksk_next' = KskNextAfter(next),
         rollover' = RolloverAfter(next),
         dnskeys' = [z \in Zones |-> IF z \in zone_rows \cup Pending \cup due
                                     THEN Signers(z)' ELSE dnskeys[z]],
         NEW z \in zones'
  PROVE  /\ ksk'[z] \in generated'
         /\ rollover'[z].next = ksk_next'[z]
         /\ rollover'[z] # NoRollover => ksk_next'[z] \in generated' \ {ksk'[z]}
         /\ dnskeys'[z] = {ksk'[z], ksk_next'[z]} \ {NoKey}
         /\ dnskeys'[z] \subseteq Keys
  <1>0. TypeOK /\ z \in Zones
    BY Zenon DEF IInv, TypeOK
  <1>1. z \in Pending <=> \/ z \in Commanded("start") \/ z \in Commanded("complete")
                          \/ z \in Commanded("abort")
    BY <1>0, PendingKinds, Zenon
  <1>a. ~(z \in Commanded("start") /\ z \in Commanded("complete"))
    BY <1>0, PendingKinds, Zenon
  <1>2. /\ z \in Commanded("start") =>
               /\ rollover[z] = NoRollover
               /\ ksk_next'[z] = next[z]
               /\ rollover'[z].next = next[z]
               /\ rollover'[z] \in KskRollovers
        /\ z \in Commanded("complete") => rollover[z] # NoRollover
        /\ z \in Commanded("complete") \cup Commanded("abort") =>
               ksk_next'[z] = NoKey /\ rollover'[z] = NoRollover
        /\ z \notin Pending => ksk_next'[z] = ksk_next[z] /\ rollover'[z] = rollover[z]
        /\ ksk_next'[z] \in Keys \cup {NoKey}
        /\ rollover'[z] \in KskRollovers \cup {NoRollover}
    BY <1>0, MaintenanceOfZone, Zenon
  <1>3. NoRollover.next = NoKey
    BY Zenon DEF NoRollover
  <1>4. z \in zones =>
          /\ ksk[z] \in generated
          /\ rollover[z].next = ksk_next[z]
          /\ rollover[z] # NoRollover => ksk_next[z] \in generated \ {ksk[z]}
          /\ dnskeys[z] = {ksk[z], ksk_next[z]} \ {NoKey}
    BY Zenon DEF IInv, KeysAgree
  <1>5. z \notin zones => /\ z \in DOMAIN born /\ born[z] \in Keys
                          /\ ksk_next[z] = NoKey /\ rollover[z] = NoRollover
                          /\ ksk'[z] = born[z]
    BY <1>0, Zenon DEF IInv, AbsentBlank, KskAfter
  <1>6. z \in zones => /\ z \in Commanded("complete") => ksk'[z] = ksk_next[z]
                       /\ z \notin Commanded("complete") => ksk'[z] = ksk[z]
    BY KskOfZone, Zenon
  <1>7. rollover'[z].next = ksk_next'[z]
    BY <1>1, <1>2, <1>3, <1>4, <1>5, Zenon
  <1>8. ksk'[z] \in generated'
    <2>1. CASE z \notin zones
      BY <1>5, <2>1, Zenon
    <2>2. CASE z \in zones
      BY <1>2, <1>4, <1>6, <2>2, Zenon
    <2> QED
      BY <2>1, <2>2, Zenon
  <1>9. rollover'[z] # NoRollover => ksk_next'[z] \in generated' \ {ksk'[z]}
    <2> SUFFICES ASSUME rollover'[z] # NoRollover
                 PROVE  ksk_next'[z] \in generated' \ {ksk'[z]}
      BY Zenon
    <2>1. CASE z \in Commanded("start")
      <3>1. /\ z \in DOMAIN next
            /\ next[z] \notin generated
            /\ \A y \in DOMAIN born : born[y] # next[z]
        BY <2>1, Zenon DEF Fresh
      <3>2. ksk'[z] # next[z]
        BY <1>4, <1>5, <1>6, <1>a, <2>1, <3>1, Zenon
      <3> QED
        BY <1>2, <2>1, <3>1, <3>2, Zenon
    <2>2. CASE z \notin Pending
      BY <1>1, <1>2, <1>4, <1>5, <1>6, <2>2, Zenon
    <2> QED
      BY <1>1, <1>2, <2>1, <2>2, Zenon
  <1>10. ksk'[z] \in Keys /\ ksk'[z] # NoKey
    BY <1>0, <1>8, KeyAssumption, SMTT(30) DEF TypeOK
  <1>11. Signers(z)' = {ksk'[z], ksk_next'[z]} \ {NoKey}
    <2>1. CASE rollover'[z] = NoRollover
      BY <1>3, <1>7, <1>10, <2>1, Zenon DEF Signers
    <2>2. CASE rollover'[z] # NoRollover
      <3>1. ksk_next'[z] # NoKey
        BY <1>2, <1>7, <2>2, RolloverKinds, KeyAssumption, Zenon
      <3> QED
        BY <1>10, <2>2, <3>1, Zenon DEF Signers
    <2> QED
      BY <2>1, <2>2, Zenon
  <1>12. dnskeys'[z] = {ksk'[z], ksk_next'[z]} \ {NoKey}
    <2>1. CASE z \in zone_rows \cup Pending \cup due
      BY <1>0, <1>11, <2>1, Zenon
    <2>2. CASE z \notin zone_rows \cup Pending \cup due
      BY <1>0, <1>1, <1>2, <1>4, <1>6, <2>2, ZenonT(40)
    <2> QED
      BY <2>1, <2>2, Zenon
  <1> QED
    BY <1>2, <1>7, <1>8, <1>9, <1>10, <1>12, Zenon

\* The maintenance pass, which executes every pending command, keeps the inductive invariant.
LEMMA MaintenancePreserves ==
  ASSUME IInv, Maintenance
  PROVE  IInv'
  <1>0. TypeOK
    BY Zenon DEF IInv
  <1>1. /\ \A y \in Pending : Accepts(y)
        /\ zones' = zones \cup zone_rows
        /\ zone_rows' = {}
        /\ command' = [z \in Zones |-> NoCommand]
        /\ UNCHANGED <<clock, governed, mirror>>
    BY Zenon DEF Maintenance, govVars
  <1>2. PICK born \in [zone_rows \ zones -> Keys],
             next \in [Commanded("start") -> Keys],
             due \in SUBSET zones' :
               /\ Fresh(born, next)
               /\ generated' = generated \cup {born[z] : z \in DOMAIN born}
                                         \cup {next[z] : z \in DOMAIN next}
               /\ ksk' = KskAfter(born)
               /\ ksk_next' = KskNextAfter(next)
               /\ rollover' = RolloverAfter(next)
               /\ dnskeys' = [z \in Zones |-> IF z \in zone_rows \cup Pending \cup due
                                              THEN Signers(z)' ELSE dnskeys[z]]
    BY Zenon DEF Maintenance
  <1>3. KeysAgree' /\ \A z \in zones' : dnskeys'[z] \subseteq Keys
    <2> SUFFICES ASSUME NEW z \in zones'
                 PROVE  /\ ksk'[z] \in generated'
                        /\ rollover'[z].next = ksk_next'[z]
                        /\ rollover'[z] # NoRollover => ksk_next'[z] \in generated' \ {ksk'[z]}
                        /\ dnskeys'[z] = {ksk'[z], ksk_next'[z]} \ {NoKey}
                        /\ dnskeys'[z] \subseteq Keys
      BY Zenon DEF KeysAgree, NoRollover
    <2> QED
      BY <1>1, <1>2, MaintenanceKeys, Zenon
  <1>4. \A z \in Zones : /\ ksk'[z] \in Keys \cup {NoKey}
                         /\ ksk_next'[z] \in Keys \cup {NoKey}
                         /\ rollover'[z] \in KskRollovers \cup {NoRollover}
    BY <1>1, <1>2, MaintenanceOfZone, Zenon
  <1>5. \A z \in Zones \ zones' : z \notin Pending
    BY <1>1, Zenon DEF Accepts
  <1>6. \A z \in Zones \ zones' : dnskeys'[z] = dnskeys[z]
    BY <1>1, <1>2, <1>5, Zenon
  <1>7. TypeOK'
    <2>1. ksk' \in [Zones -> Keys \cup {NoKey}]
      BY <1>2, <1>4, ZenonT(40) DEF KskAfter
    <2>2. ksk_next' \in [Zones -> Keys \cup {NoKey}]
      BY <1>2, <1>4, Zenon DEF KskNextAfter
    <2>3. rollover' \in [Zones -> KskRollovers \cup {NoRollover}]
      <3> DEFINE R == KskRollovers \cup {NoRollover}
      <3>1. DOMAIN rollover' = Zones /\ rollover' = [z \in Zones |-> rollover'[z]]
        BY <1>2, ZenonT(40) DEF RolloverAfter
      <3>2. \A z \in Zones : rollover'[z] \in R
        BY <1>4, Zenon
      <3> HIDE DEF R
      <3>3. rollover' \in [Zones -> R]
        BY <3>1, <3>2, Zenon
      <3> QED
        BY <3>3, Zenon DEF R
    <2>4. \A z \in Zones : dnskeys'[z] \in SUBSET Keys
      BY <1>0, <1>3, <1>6, ZenonT(40) DEF TypeOK
    <2>5. dnskeys' \in [Zones -> SUBSET Keys]
      BY <1>2, <2>4, ZenonT(40)
    <2>6. generated' \subseteq Keys
      BY <1>0, <1>2, Zenon DEF TypeOK
    <2>7. zones' \subseteq Zones /\ zone_rows' \subseteq Zones
      BY <1>0, <1>1, Zenon DEF TypeOK
    <2>8. command' \in [Zones -> Commands \cup {NoCommand}]
      BY <1>1, Zenon
    <2> QED
      BY <1>0, <1>1, <2>1, <2>2, <2>3, <2>5, <2>6, <2>7, <2>8, Zenon DEF TypeOK
  <1>8. AbsentBlank'
    <2> SUFFICES ASSUME NEW z \in Zones \ zones'
                 PROVE  ksk_next'[z] = NoKey /\ rollover'[z] = NoRollover
      BY Zenon DEF AbsentBlank, NoRollover
    <2>1. ksk_next'[z] = ksk_next[z] /\ rollover'[z] = rollover[z]
      BY <1>1, <1>2, <1>5, MaintenanceOfZone, Zenon
    <2> QED
      BY <1>1, <2>1, Zenon DEF IInv, AbsentBlank
  <1>9. MirrorTracks'
    <2> SUFFICES ASSUME NEW z \in Zones
                 PROVE  mirror'[z] = rollover'[z].stage
      BY <1>1, Zenon DEF MirrorTracks, NoCommand
    <2>1. mirror'[z] = mirror[z]
      BY <1>1, Zenon
    <2>2. mirror[z] = IF command[z] = NoCommand THEN rollover[z].stage
                                                ELSE StageAfter(command[z])
      BY Zenon DEF IInv, MirrorTracks
    <2>3. NoRollover.stage = "idle"
      BY Zenon DEF NoRollover
    <2>4. CASE z \notin Pending
      <3>1. rollover'[z] = rollover[z]
        BY <1>1, <1>2, <2>4, MaintenanceOfZone, ZenonT(40)
      <3> QED
        BY <2>1, <2>2, <2>4, <3>1, Zenon DEF Pending
    <2>5. CASE z \in Commanded("start")
      <3>1. rollover'[z] \in KskRollovers
        BY <1>1, <1>2, <2>5, MaintenanceOfZone, Zenon
      <3>2. rollover'[z].stage = "double-signature"
        BY <3>1, RolloverKinds, Zenon
      <3>3. z \in Pending /\ StageAfter(command[z]) = "double-signature"
        BY <1>0, <2>5, PendingKinds, Zenon
      <3> QED
        BY <2>1, <2>2, <3>2, <3>3, Zenon DEF Pending
    <2>6. CASE z \in Pending /\ z \notin Commanded("start")
      <3>1. z \in Commanded("complete") \cup Commanded("abort")
        BY <1>0, <2>6, PendingKinds, Zenon
      <3>2. rollover'[z] = NoRollover
        BY <1>1, <1>2, <3>1, MaintenanceOfZone, Zenon
      <3>3. StageAfter(command[z]) = "idle"
        BY <1>0, <2>6, PendingKinds, Zenon
      <3> QED
        BY <2>1, <2>2, <2>3, <2>6, <3>2, <3>3, Zenon DEF Pending
    <2> QED
      BY <2>4, <2>5, <2>6, Zenon
  <1> QED
    BY <1>3, <1>7, <1>8, <1>9, Zenon DEF IInv

-----------------------------------------------------------------------------
(* The theorems.                                                           *)

\* A step that changes nothing keeps the inductive invariant.
LEMMA StutterPreserves ==
  ASSUME IInv, UNCHANGED vars
  PROVE  IInv'
  BY Zenon DEF vars, govVars, rowVars, appVars, IInv, TypeOK, AbsentBlank, KeysAgree,
         MirrorTracks

\* The inductive invariant holds in every reachable state.
LEMMA Inductive == Spec => []IInv
  <1>1. IInv /\ [Next]_vars => IInv'
    BY CreateZonePreserves, ProposePreserves, MaintenancePreserves, TickPreserves,
       StutterPreserves, Zenon DEF Next
  <1> QED
    BY <1>1, InitEstablishes, PTL DEF Spec

\* The type invariant holds for every instance.
THEOREM TypeCorrect == Spec => []TypeOK
  BY Inductive, PTL DEF IInv

\* The private keys, the rollover record and the served DNSKEY RRset of every
\* zone agree after every transaction, whatever is proposed and when.
THEOREM KeysAlwaysAgree == Spec => []KeysAgree
  BY Inductive, PTL DEF IInv

\* The constitution's mirror is exact about a zone without a waiting command.
THEOREM MirrorAlwaysAgrees == Spec => []MirrorAgrees
  <1>1. IInv => MirrorAgrees
    BY Zenon DEF IInv, TypeOK, MirrorTracks, MirrorAgrees
  <1> QED
    BY <1>1, Inductive, PTL

\* What a maintenance transaction does to the keys of a zone.
LEMMA MaintenanceSteps ==
  ASSUME IInv, Maintenance, NEW z \in Zones
  PROVE  /\ z \in zones =>
              \/ ksk'[z] = ksk[z] /\ ksk[z] \in dnskeys'[z]
              \/ /\ dnskeys[z] = {ksk[z], ksk'[z]}
                 /\ dnskeys'[z] = {ksk'[z]}
                 /\ command[z].new_ds = ksk'[z]
                 /\ HoldElapsed(z)
         /\ (dnskeys'[z] \ dnskeys[z]) \cap generated = {}
  <1>0. TypeOK
    BY Zenon DEF IInv
  <1>1. /\ \A y \in Pending : Accepts(y)
        /\ zones' = zones \cup zone_rows
    BY Zenon DEF Maintenance
  <1>2. PICK born \in [zone_rows \ zones -> Keys],
             next \in [Commanded("start") -> Keys],
             due \in SUBSET zones' :
               /\ Fresh(born, next)
               /\ generated' = generated \cup {born[y] : y \in DOMAIN born}
                                         \cup {next[y] : y \in DOMAIN next}
               /\ ksk' = KskAfter(born)
               /\ ksk_next' = KskNextAfter(next)
               /\ rollover' = RolloverAfter(next)
               /\ dnskeys' = [y \in Zones |-> IF y \in zone_rows \cup Pending \cup due
                                              THEN Signers(y)' ELSE dnskeys[y]]
    BY ZenonT(40) DEF Maintenance
  <1>3. CASE z \notin zones'
    <2>1. z \notin zone_rows \cup Pending \cup due /\ z \notin zones
      BY <1>1, <1>3, Zenon DEF Accepts
    <2> QED
      BY <1>2, <2>1, ZenonT(40)
  <1>4. CASE z \in zones'
    <2>1. /\ ksk'[z] \in generated'
          /\ dnskeys'[z] = {ksk'[z], ksk_next'[z]} \ {NoKey}
      BY <1>1, <1>2, <1>4, MaintenanceKeys, ZenonT(40)
    <2>2. ksk'[z] # NoKey
      BY <1>0, <1>2, <2>1, KeyAssumption, SMTT(30) DEF TypeOK
    <2>3. z \in Commanded("start") => ksk_next'[z] \notin generated
      BY <1>1, <1>2, MaintenanceOfZone, ZenonT(40) DEF Fresh
    <2>4. z \notin zones => /\ ksk'[z] \notin generated
                            /\ ksk_next[z] = NoKey /\ rollover[z] = NoRollover
      BY <1>1, <1>2, <1>4, Zenon DEF IInv, AbsentBlank, KskAfter, Fresh
    <2>5. z \in zones =>
            /\ ksk[z] \in generated
            /\ rollover[z].next = ksk_next[z]
            /\ rollover[z] # NoRollover => ksk_next[z] \in generated \ {ksk[z]}
            /\ dnskeys[z] = {ksk[z], ksk_next[z]} \ {NoKey}
      BY ZenonT(40) DEF IInv, KeysAgree
    <2>6. CASE z \in Commanded("complete")
      <3>1. /\ rollover[z] # NoRollover
            /\ HoldElapsed(z)
            /\ command[z].new_ds = rollover[z].next
            /\ ksk_next'[z] = NoKey
        BY <1>1, <1>2, <2>6, MaintenanceOfZone, Zenon
      <3>2. z \in zones
        BY <2>4, <3>1, Zenon
      <3>3. ksk'[z] = ksk_next[z]
        BY <1>1, <1>2, <2>6, <3>2, KskOfZone, ZenonT(40)
      <3>4. ksk[z] # NoKey
        BY <1>0, <2>5, <3>2, KeyAssumption, ZenonT(40) DEF TypeOK
      <3> QED
        BY <2>1, <2>2, <2>5, <3>1, <3>2, <3>3, <3>4, Zenon
    <2>7. CASE z \notin Commanded("complete")
      <3>1. z \in zones => ksk'[z] = ksk[z]
        BY <1>1, <1>2, <2>7, KskOfZone, Zenon
      <3>2. \/ ksk_next'[z] = NoKey
            \/ ksk_next'[z] \notin generated
            \/ ksk_next'[z] = ksk_next[z]
        <4>1. \/ z \in Commanded("start") \/ z \in Commanded("abort")
              \/ z \notin Pending
          BY <1>0, <2>7, PendingKinds, Zenon
        <4>2. z \in Commanded("abort") => ksk_next'[z] = NoKey
          BY <1>1, <1>2, MaintenanceOfZone, ZenonT(40)
        <4>3. z \notin Pending => ksk_next'[z] = ksk_next[z]
          BY <1>1, <1>2, MaintenanceOfZone, Zenon
        <4> QED
          BY <2>3, <4>1, <4>2, <4>3, Zenon
      <3> QED
        BY <2>1, <2>2, <2>4, <2>5, <3>1, <3>2, SMTT(30)
    <2> QED
      BY <2>6, <2>7, Zenon
  <1> QED
    BY <1>3, <1>4, Zenon

\* Every other step leaves the keys alone.
LEMMA OtherSteps ==
  ASSUME IInv, [Next]_vars, ~Maintenance
  PROVE  UNCHANGED <<zones, ksk, dnskeys, generated>>
  BY Zenon DEF Next, CreateZone, Propose, Tick, vars, appVars

\* A zone's key is among the keys it serves.
LEMMA KskIsServed ==
  ASSUME IInv, NEW z \in zones
  PROVE  ksk[z] \in dnskeys[z]
  BY KeyAssumption, Zenon DEF IInv, TypeOK, KeysAgree

\* A zone's key-signing key is replaced only by the key published beside it
\* for the whole hold, and only by a command that names that key.
THEOREM OutgoingKeyAlwaysOutlivesHold == Spec => OutgoingKeyOutlivesHold
  <1> DEFINE Step == \A z \in zones :
        \/ ksk'[z] = ksk[z] /\ ksk[z] \in dnskeys'[z]
        \/ /\ dnskeys[z] = {ksk[z], ksk'[z]}
           /\ dnskeys'[z] = {ksk'[z]}
           /\ command[z].new_ds = ksk'[z]
           /\ HoldElapsed(z)
  <1>1. ASSUME IInv, [Next]_vars
        PROVE  Step
    <2>1. CASE Maintenance
      BY <1>1, <2>1, MaintenanceSteps, ZenonT(40) DEF IInv, TypeOK
    <2>2. CASE ~Maintenance
      BY <1>1, <2>2, OtherSteps, KskIsServed, Zenon
    <2> QED
      BY <2>1, <2>2, Zenon
  <1>2. IInv /\ [Next]_vars => [Step]_vars
    BY <1>1, Zenon
  <1> HIDE DEF Step
  <1>3. Spec => [][Step]_vars
    BY <1>2, Inductive, PTL DEF Spec
  <1> QED
    BY <1>3, Zenon DEF OutgoingKeyOutlivesHold, Step

\* A key that was withdrawn from a DNSKEY RRset is never published again.
THEOREM RetiredKeysNeverReturn == Spec => RetiredKeysStayRetired
  <1> DEFINE Step == \A z \in Zones : (dnskeys'[z] \ dnskeys[z]) \cap generated = {}
  <1>1. ASSUME IInv, [Next]_vars
        PROVE  Step
    <2>1. CASE Maintenance
      BY <1>1, <2>1, MaintenanceSteps, Zenon
    <2>2. CASE ~Maintenance
      BY <1>1, <2>2, OtherSteps, Zenon
    <2> QED
      BY <2>1, <2>2, Zenon
  <1>2. IInv /\ [Next]_vars => [Step]_vars
    BY <1>1, Zenon
  <1> HIDE DEF Step
  <1>3. Spec => [][Step]_vars
    BY <1>2, Inductive, PTL DEF Spec
  <1> QED
    BY <1>3, Zenon DEF RetiredKeysStayRetired, Step

-----------------------------------------------------------------------------
(* The rollover seen from outside.  The invariants of the application      *)
(* hold there too, since the procedure only restricts what is proposed.    *)

\* What the procedure keeps of a zone: the parent names no key, the current one
\* or, once the hold is over, the incoming one; and each waiting command was, and
\* still is, what the zone is ready for.
Follows(z) ==
    /\ parent[z].key = NoKey \/ z \in zones
    /\ parent[z].key \in {NoKey, ksk[z], rollover[z].next}
    /\ rollover[z] # NoRollover /\ parent[z].key = rollover[z].next => HoldElapsed(z)
    /\ z \in Pending => z \in zones
    /\ z \in Commanded("start") => rollover[z] = NoRollover
    /\ z \in Commanded("complete") =>
          /\ rollover[z] # NoRollover
          /\ command[z].new_ds = rollover[z].next
          /\ parent[z].key = rollover[z].next
          /\ clock >= parent[z].since + DsTtl
    /\ z \in Commanded("abort") =>
          rollover[z] # NoRollover /\ parent[z].key # rollover[z].next

ParentRecord == [key : Keys \cup {NoKey}, since : Nat]

ProcedureInv ==
    /\ parent \in [Zones -> ParentRecord]
    /\ \A z \in Zones : Follows(z)

\* What a resolver can still have of a zone: an RRset with the current key, and
\* with the incoming one unless the set expires before the hold ends; and the
\* parent's DS, or the DS before it until the parent's TTL has passed.
Caches(z) ==
    /\ cached_dnskey[z].until > clock =>
          /\ z \in zones
          /\ ksk[z] \in cached_dnskey[z].keys
          /\ cached_dnskey[z].until <= clock + DnskeyTtl[z]
          /\ rollover[z] # NoRollover =>
                \/ rollover[z].next \in cached_dnskey[z].keys
                \/ cached_dnskey[z].until <= rollover[z].started_at + rollover[z].hold
    /\ cached_ds[z].until > clock =>
          /\ z \in zones
          /\ cached_ds[z].until <= clock + DsTtl
          /\ \/ cached_ds[z].key = parent[z].key /\ parent[z].key # NoKey
             \/ /\ cached_ds[z].key = ksk[z]
                /\ rollover[z] # NoRollover /\ parent[z].key = rollover[z].next
                /\ cached_ds[z].until <= parent[z].since + DsTtl

CacheInv ==
    /\ cached_dnskey \in [Zones -> [keys : SUBSET Keys, until : Nat]]
    /\ cached_ds \in [Zones -> [key : Keys \cup {NoKey}, until : Nat]]
    /\ \A z \in Zones : Caches(z)

\* Every step seen from outside is a step of the rollover or leaves it alone.
LEMMA ValidationStepIs == [ValidationNext]_allVars => [Next]_vars
  BY Zenon DEF ValidationNext, ProposeProvided, Delegate, SwitchDs, FetchDnskey, FetchDs, Next, allVars

\* Parent and resolvers leave the inductive invariant of the rollover alone.
LEMMA ValidationKeepsRollover == ValidationSpec => []IInv
  <1>1. IInv /\ [ValidationNext]_allVars => IInv'
    BY ValidationStepIs, CreateZonePreserves, ProposePreserves, MaintenancePreserves,
       TickPreserves, StutterPreserves, Zenon DEF Next
  <1>2. ValidationInit => IInv
    BY InitEstablishes, Zenon DEF ValidationInit
  <1> QED
    BY <1>1, <1>2, PTL DEF ValidationSpec

\* A rollover record's numbers.
LEMMA RolloverTimes ==
  ASSUME TypeOK, NEW z \in Zones
  PROVE  /\ rollover[z].started_at \in Nat /\ rollover[z].hold \in Nat /\ clock \in Nat
         /\ rollover[z] = NoRollover => rollover[z].next = NoKey
         /\ rollover[z] # NoRollover => rollover[z].next \in Keys
  BY TimeAssumption, SMTT(30) DEF TypeOK, KskRollovers, NoRollover

\* What a maintenance transaction does to the keys of an existing zone.
LEMMA MaintenanceMoves ==
  ASSUME IInv, Maintenance, NEW z \in zones
  PROVE  /\ z \in Commanded("start") =>
              /\ ksk'[z] = ksk[z] /\ rollover'[z] \in KskRollovers
              /\ rollover'[z].next \notin generated
              /\ rollover'[z].started_at = clock /\ rollover'[z].hold = HoldOf(z)
         /\ z \in Commanded("complete") =>
              ksk'[z] = rollover[z].next /\ rollover'[z] = NoRollover
         /\ z \in Commanded("abort") => ksk'[z] = ksk[z] /\ rollover'[z] = NoRollover
         /\ z \notin Pending => ksk'[z] = ksk[z] /\ rollover'[z] = rollover[z]
  <1>0. TypeOK /\ z \in Zones
    BY Zenon DEF IInv, TypeOK
  <1>1. \A y \in Pending : Accepts(y)
    BY ZenonT(40) DEF Maintenance
  <1>2. PICK born \in [zone_rows \ zones -> Keys],
             next \in [Commanded("start") -> Keys] :
               /\ Fresh(born, next)
               /\ ksk' = KskAfter(born)
               /\ rollover' = RolloverAfter(next)
    BY Zenon DEF Maintenance
  <1>3. ~(z \in Commanded("start") /\ z \in Commanded("complete"))
    BY <1>0, PendingKinds, Zenon
  <1>4. /\ z \in Commanded("complete") => ksk'[z] = ksk_next[z]
        /\ z \notin Commanded("complete") => ksk'[z] = ksk[z]
    BY <1>1, <1>2, KskOfZone, Zenon
  <1>5. ~(z \in Commanded("abort") /\ z \in Commanded("complete"))
    BY Zenon DEF Commanded
  <1>6. ksk_next[z] = rollover[z].next
    BY Zenon DEF IInv, KeysAgree
  <1>7. z \in Commanded("start") => /\ rollover'[z] \in KskRollovers
                                    /\ rollover'[z].next = next[z] /\ next[z] \notin generated
    BY <1>0, <1>1, <1>2, MaintenanceOfZone, Zenon DEF Fresh
  <1>8. z \in Commanded("start") => rollover'[z].started_at = clock /\ rollover'[z].hold = HoldOf(z)
    BY <1>0, <1>2, ZenonT(40) DEF RolloverAfter
  <1>9. /\ z \in Commanded("complete") \cup Commanded("abort") => rollover'[z] = NoRollover
        /\ z \notin Pending => rollover'[z] = rollover[z]
    BY <1>0, <1>1, <1>2, MaintenanceOfZone, Zenon
  <1>10. z \notin Pending => z \notin Commanded("complete")
    BY <1>0, PendingKinds, Zenon
  <1> QED
    BY <1>3, <1>4, <1>5, <1>6, <1>7, <1>8, <1>9, <1>10, Zenon

\* A zone that the transaction creates, or that is still missing, has no rollover.
LEMMA MaintenanceOfAbsent ==
  ASSUME IInv, Maintenance, NEW z \in Zones \ zones, z \notin Pending
  PROVE  rollover'[z] = NoRollover
  <1>1. \A y \in Pending : Accepts(y)
    BY ZenonT(40) DEF Maintenance
  <1>2. PICK next \in [Commanded("start") -> Keys] : rollover' = RolloverAfter(next)
    BY Zenon DEF Maintenance
  <1>3. z \notin Commanded("start") \cup Commanded("complete") \cup Commanded("abort")
    BY PendingKinds, Zenon DEF IInv
  <1>4. RolloverAfter(next)[z] = rollover[z]
    BY <1>3, Zenon DEF RolloverAfter
  <1> QED
    BY <1>2, <1>4, Zenon DEF IInv, AbsentBlank

\* Maintenance drains every command.
LEMMA MaintenanceDrains ==
  ASSUME Maintenance, NEW z \in Zones
  PROVE  /\ z \notin Pending' /\ clock' = clock /\ zones \subseteq zones'
         /\ \A name \in {"start", "complete", "abort"} : command'[z].command # name
  BY ZenonT(40) DEF Maintenance, Pending, NoCommand

\* The maintenance pass keeps the procedure.
LEMMA MaintenanceFollows ==
  ASSUME IInv, ProcedureInv, Maintenance, UNCHANGED parent
  PROVE  ProcedureInv'
  <1> SUFFICES ASSUME NEW z \in Zones PROVE Follows(z)'
    BY Zenon DEF ProcedureInv
  <1>0. TypeOK /\ Follows(z) /\ parent'[z] = parent[z]
    BY Zenon DEF IInv, ProcedureInv
  <1>1. z \notin Pending' /\ clock' = clock /\ zones \subseteq zones'
    BY MaintenanceDrains, Zenon
  <1>2. ~(z \in Commanded("start"))' /\ ~(z \in Commanded("complete"))' /\ ~(z \in Commanded("abort"))'
    BY MaintenanceDrains, Zenon DEF Commanded
  <1>3. SUFFICES /\ parent[z].key = NoKey \/ z \in zones
                 /\ parent[z].key \in {NoKey, ksk'[z], rollover'[z].next}
                 /\ (rollover'[z] # NoRollover /\ parent[z].key = rollover'[z].next
                        => clock >= rollover'[z].started_at + rollover'[z].hold)
    BY <1>0, <1>1, <1>2, Zenon DEF Follows, HoldElapsed, NoRollover
  <1>4. NoRollover.next = NoKey
    BY Zenon DEF NoRollover
  <1>5. CASE z \notin zones
    <2>1. rollover'[z] = NoRollover /\ parent[z].key = NoKey
      BY <1>0, <1>5, MaintenanceOfAbsent, ZenonT(40) DEF Follows
    <2> QED BY <2>1, Zenon
  <1>6. CASE z \in zones
    <2>1. ksk[z] \in generated /\ generated \subseteq Keys
      BY <1>0, <1>6, ZenonT(40) DEF IInv, KeysAgree, TypeOK
    <2>2. CASE z \in Commanded("start")
      <3>1. /\ ksk'[z] = ksk[z] /\ rollover'[z].next \notin generated /\ rollover[z] = NoRollover
            /\ rollover'[z] \in KskRollovers
        BY <1>0, <1>6, <2>2, MaintenanceMoves, ZenonT(40) DEF Follows
      <3>2. rollover'[z].next # NoKey
        BY <3>1, RolloverKinds, KeyAssumption, Zenon
      <3> QED BY <1>0, <1>4, <1>6, <2>1, <3>1, <3>2, Zenon DEF Follows
    <2>3. CASE z \in Commanded("complete")
      BY <1>0, <1>6, <2>3, MaintenanceMoves, Zenon DEF Follows
    <2>4. CASE z \in Commanded("abort")
      BY <1>0, <1>6, <2>4, MaintenanceMoves, Zenon DEF Follows
    <2>5. CASE z \notin Pending
      BY <1>0, <1>6, <2>5, MaintenanceMoves, ZenonT(40) DEF Follows, HoldElapsed
    <2> QED BY <1>0, <2>2, <2>3, <2>4, <2>5, PendingKinds, ZenonT(40)
  <1> QED BY <1>5, <1>6, Zenon

\* Time only helps a waiting command and a hold.
LEMMA TickFollows ==
  ASSUME IInv, ProcedureInv, Tick, UNCHANGED parent
  PROVE  ProcedureInv'
  <1> SUFFICES ASSUME NEW z \in Zones PROVE Follows(z)'
    BY Zenon DEF ProcedureInv
  <1>1. /\ rollover[z].started_at \in Nat /\ rollover[z].hold \in Nat /\ clock \in Nat
        /\ parent[z].since \in Nat /\ DsTtl \in Nat
    BY RolloverTimes, TtlAssumption, Zenon DEF IInv, ProcedureInv, ParentRecord
  <1>2. /\ clock' = clock + 1 /\ UNCHANGED <<zones, ksk, rollover, command>>
    BY Zenon DEF Tick, rowVars, appVars
  <1>3. Pending' = Pending /\ \A name : Commanded(name)' = Commanded(name)
    BY <1>2, Zenon DEF Pending, Commanded
  <1>4. HoldElapsed(z) => HoldElapsed(z)'
    BY <1>1, <1>2 DEF HoldElapsed
  <1>5. clock >= parent[z].since + DsTtl => clock' >= parent'[z].since + DsTtl
    BY <1>1, <1>2
  <1>6. Follows(z)
    BY Zenon DEF ProcedureInv
  <1> QED BY <1>2, <1>3, <1>4, <1>5, <1>6, Zenon DEF Follows

\* A proposal made by the procedure keeps the procedure.
LEMMA ProposeFollows ==
  ASSUME IInv, ProcedureInv, NEW y \in Zones, NEW c \in Commands, ProposeProvided(y, c)
  PROVE  ProcedureInv'
  <1> SUFFICES ASSUME NEW z \in Zones PROVE Follows(z)'
    BY Zenon DEF ProcedureInv, ProposeProvided, validationVars
  <1>1. /\ command' = [command EXCEPT ![y] = c] /\ Provided(y, c)
        /\ UNCHANGED <<clock, zones, ksk, rollover, parent>>
    BY Zenon DEF ProposeProvided, Propose, appVars, validationVars
  <1>2. Follows(z) /\ command \in [Zones -> Commands \cup {NoCommand}]
    BY Zenon DEF ProcedureInv, IInv, TypeOK
  <1>3. HoldElapsed(z)' <=> HoldElapsed(z)
    BY <1>1, Zenon DEF HoldElapsed
  <1>4. CASE z = y
    BY <1>1, <1>2, <1>3, <1>4, ZenonT(40) DEF Follows, Provided, Commanded, Pending
  <1>5. CASE z # y
    BY <1>1, <1>2, <1>3, <1>5, ZenonT(40) DEF Follows, Commanded, Pending
  <1> QED BY <1>4, <1>5, Zenon

\* The domain owner's two steps; no command is waiting at either.
LEMMA OwnerFollows ==
  ASSUME IInv, ProcedureInv, NEW y \in Zones, Delegate(y) \/ SwitchDs(y)
  PROVE  /\ ProcedureInv' /\ y \notin Pending /\ parent'[y].since = clock
         /\ UNCHANGED vars /\ UNCHANGED <<cached_dnskey, cached_ds>>
         /\ \A z \in Zones \ {y} : parent'[z] = parent[z]
         /\ parent'[y].key \in Keys
  <1>1. UNCHANGED vars /\ UNCHANGED <<cached_dnskey, cached_ds>> /\ y \in zones
    BY Zenon DEF Delegate, SwitchDs
  <1>2. UNCHANGED <<clock, zones, ksk, rollover, command>>
    BY <1>1, Zenon DEF vars, rowVars, appVars
  <1>3. Follows(y) /\ TypeOK /\ ksk[y] \in Keys /\ clock \in Nat
    BY <1>1, TimeAssumption DEF ProcedureInv, IInv, TypeOK, KeysAgree
  <1>4. y \notin Pending
    <2>1. CASE Delegate(y)
      BY <2>1, Zenon DEF Delegate, Pending
    <2>2. CASE SwitchDs(y)
      <3>1. /\ rollover[y] # NoRollover /\ mirror[y] = "double-signature"
            /\ parent[y].key = ksk[y]
        BY <2>2, ZenonT(40) DEF SwitchDs
      <3>2. rollover[y].next # ksk[y]
        BY <1>1, <3>1, Zenon DEF IInv, KeysAgree
      <3>3. y \notin Commanded("start") /\ y \notin Commanded("complete")
        BY <1>3, <3>1, <3>2, Zenon DEF Follows
      <3>4. y \notin Pending \/ mirror[y] = StageAfter(command[y])
        BY Zenon DEF IInv, MirrorTracks, Pending
      <3> QED BY <1>3, <3>1, <3>3, <3>4, PendingKinds, Zenon
    <2> QED BY <2>1, <2>2, Zenon
  <1>5. PICK key \in Keys :
          /\ parent' = [parent EXCEPT ![y] = [key |-> key, since |-> clock]]
          /\ key \in {ksk[y], rollover[y].next}
          /\ rollover[y] # NoRollover => HoldElapsed(y)
    <2>1. CASE Delegate(y)
      BY <1>3, <2>1, Zenon DEF Delegate
    <2>2. CASE SwitchDs(y)
      BY <1>3, <2>2, RolloverTimes, Zenon DEF SwitchDs
    <2> QED BY <2>1, <2>2, Zenon
  <1>6. parent \in [Zones -> ParentRecord] /\ [key |-> key, since |-> clock] \in ParentRecord
    BY <1>3, Zenon DEF ProcedureInv, ParentRecord
  <1>7. /\ parent' \in [Zones -> ParentRecord]
        /\ parent'[y] = [key |-> key, since |-> clock]
        /\ \A z \in Zones \ {y} : parent'[z] = parent[z]
    BY <1>5, <1>6, Zenon
  <1>8. ASSUME NEW z \in Zones PROVE Follows(z)'
    <2>1. (HoldElapsed(z)' <=> HoldElapsed(z)) /\ Pending' = Pending
          /\ \A name : Commanded(name)' = Commanded(name)
      BY <1>2, Zenon DEF HoldElapsed, Pending, Commanded
    <2>2. CASE z = y
      <3>1. y \notin Commanded("start") /\ y \notin Commanded("complete") /\ y \notin Commanded("abort")
        BY <1>3, <1>4, PendingKinds, Zenon
      <3> QED BY <1>1, <1>2, <1>4, <1>5, <1>7, <2>1, <2>2, <3>1, ZenonT(40) DEF Follows
    <2>3. CASE z # y
      <3>1. Follows(z)
        BY Zenon DEF ProcedureInv
      <3> QED BY <1>2, <1>7, <2>1, <2>3, <3>1, Zenon DEF Follows
    <2> QED BY <2>2, <2>3, Zenon
  <1> QED BY <1>1, <1>4, <1>5, <1>7, <1>8, ZenonT(40) DEF ProcedureInv

\* A step that leaves what Follows reads alone.
LEMMA QuietFollows ==
  ASSUME ProcedureInv, UNCHANGED <<clock, zones, ksk, rollover, command, parent>>
  PROVE  ProcedureInv'
  BY ZenonT(40) DEF ProcedureInv, Follows, HoldElapsed, Pending, Commanded

\* Every step keeps the procedure.
LEMMA StepFollows ==
  ASSUME IInv, ProcedureInv, [ValidationNext]_allVars
  PROVE  ProcedureInv'
  <1>1. ASSUME NEW z \in Zones, CreateZone(z), UNCHANGED validationVars PROVE ProcedureInv'
    BY <1>1, QuietFollows, Zenon DEF CreateZone, appVars, validationVars
  <1>2. ASSUME NEW z \in Zones, FetchDnskey(z) \/ FetchDs(z) PROVE ProcedureInv'
    BY <1>2, QuietFollows, Zenon DEF FetchDnskey, FetchDs, vars, rowVars, appVars
  <1>3. CASE UNCHANGED allVars
    BY <1>3, QuietFollows, Zenon DEF allVars, vars, rowVars, appVars, validationVars
  <1> QED
    BY <1>1, <1>2, <1>3, MaintenanceFollows, TickFollows, ProposeFollows, OwnerFollows, Zenon
       DEF ValidationNext, validationVars

\* The procedure holds before any zone exists.
LEMMA InitFollows == ValidationInit => ProcedureInv
  BY TimeAssumption, SMTT(30)
     DEF ValidationInit, Init, ProcedureInv, ParentRecord, Follows, Pending, Commanded, NoCommand

\* Both invariants hold in every reachable state.
LEMMA ProcedureInvariant == ValidationSpec => [](IInv /\ ProcedureInv)
  <1>1. IInv /\ ProcedureInv /\ [ValidationNext]_allVars => ProcedureInv'
    BY StepFollows, Zenon
  <1> QED
    BY <1>1, InitFollows, ValidationKeepsRollover, PTL DEF ValidationSpec

\* The operations guide's procedure never leaves a command that the application
\* refuses, whatever hold was proposed and however late a command is drained.
THEOREM ProcedureNeverRefused == ValidationSpec => []NeverRefused
  <1>1. ASSUME IInv, ProcedureInv, NEW z \in Pending PROVE Accepts(z)
    <2>1. z \in Zones /\ TypeOK /\ Follows(z)
      BY <1>1, Zenon DEF Pending, IInv, ProcedureInv
    <2> QED BY <1>1, <2>1, Zenon DEF Follows, Accepts, Commanded
  <1>2. IInv /\ ProcedureInv => NeverRefused
    BY <1>1, Zenon DEF NeverRefused
  <1> QED BY <1>2, ProcedureInvariant, PTL

-----------------------------------------------------------------------------
(* The resolver's caches.                                                  *)

\* The hold of every rollover is as long as the DNSKEY RRset is cached: the
\* default always is, an explicit one when the steward chose it so.
HoldsCoverTtl == \A h \in Holds, z \in Zones : h >= DnskeyTtl[z]

\* The hold of a started rollover is at least the TTL of the zone's keys.
LEMMA HoldCovers ==
  ASSUME HoldsCoverTtl, TypeOK, NEW z \in Zones, z \in Commanded("start")
  PROVE  HoldOf(z) >= DnskeyTtl[z] /\ HoldOf(z) \in Nat /\ DnskeyTtl[z] \in Nat
  <1>1. command[z] \in Commands /\ z \in Pending
    BY PendingKinds, Zenon
  <1>2. command[z].hold \in Holds \cup {NoHold}
    BY <1>1, CommandKinds, Zenon
  <1>3. /\ DnskeyTtl[z] \in Nat /\ MaxBaseTtl[z] \in Nat /\ MinTtl \in Nat
        /\ DnskeyTtl[z] <= MaxBaseTtl[z]
    BY TimeAssumption, TtlAssumption, Zenon
  <1>4. 2 * Larger(MaxBaseTtl[z], MinTtl) >= DnskeyTtl[z]
    BY <1>3 DEF Larger
  <1>5. HoldOf(z) \in Nat
    BY <1>1, HoldIsNatural, Zenon
  <1> QED
    BY <1>2, <1>3, <1>4, <1>5, TimeAssumption, Zenon DEF HoldOf, HoldsCoverTtl

\* The numbers that Caches compares.
LEMMA CacheTimes ==
  ASSUME IInv, ProcedureInv, CacheInv, NEW z \in Zones
  PROVE  /\ rollover[z].started_at \in Nat /\ rollover[z].hold \in Nat /\ clock \in Nat
         /\ parent[z].since \in Nat /\ DsTtl \in Nat /\ DnskeyTtl[z] \in Nat
         /\ cached_dnskey[z].until \in Nat /\ cached_ds[z].until \in Nat
         /\ Follows(z) /\ Caches(z) /\ TypeOK
  BY RolloverTimes, TtlAssumption, Zenon DEF IInv, ProcedureInv, ParentRecord, CacheInv

\* The maintenance pass keeps what is true of the caches.
LEMMA MaintenanceCaches ==
  ASSUME HoldsCoverTtl, IInv, ProcedureInv, CacheInv, Maintenance, UNCHANGED validationVars
  PROVE  CacheInv'
  <1>1. UNCHANGED <<parent, cached_dnskey, cached_ds>>
    BY Zenon DEF validationVars
  <1> SUFFICES ASSUME NEW z \in Zones PROVE Caches(z)'
    BY <1>1, Zenon DEF CacheInv
  <1>2. /\ Follows(z) /\ Caches(z) /\ TypeOK
        /\ rollover[z].started_at \in Nat /\ rollover[z].hold \in Nat /\ clock \in Nat
        /\ parent[z].since \in Nat /\ DsTtl \in Nat /\ DnskeyTtl[z] \in Nat
        /\ cached_dnskey[z].until \in Nat /\ cached_ds[z].until \in Nat
    BY CacheTimes, Zenon
  <1>3. clock' = clock /\ zones \subseteq zones'
    BY MaintenanceDrains, Zenon
  <1>4. CASE z \notin zones
    BY <1>1, <1>2, <1>3, <1>4, Zenon DEF Caches
  <1>5. CASE z \in Commanded("start") /\ z \in zones
    <2>1. /\ ksk'[z] = ksk[z] /\ rollover[z] = NoRollover
          /\ rollover'[z].started_at = clock /\ rollover'[z].hold = HoldOf(z)
      BY <1>2, <1>5, MaintenanceMoves, ZenonT(40) DEF Follows
    <2>2. HoldOf(z) >= DnskeyTtl[z] /\ HoldOf(z) \in Nat
      BY <1>2, <1>5, HoldCovers, Zenon
    <2>3. cached_dnskey[z].until > clock =>
            cached_dnskey[z].until <= rollover'[z].started_at + rollover'[z].hold
      BY <1>2, <2>1, <2>2, SMTT(30) DEF Caches
    <2> QED BY <1>1, <1>2, <1>3, <1>5, <2>1, <2>3, Zenon DEF Caches
  <1>6. CASE z \in Commanded("complete") /\ z \in zones
    <2>1. /\ ksk'[z] = rollover[z].next /\ rollover'[z] = NoRollover
          /\ rollover[z] # NoRollover /\ parent[z].key = rollover[z].next
          /\ clock >= parent[z].since + DsTtl /\ HoldElapsed(z)
      BY <1>2, <1>6, MaintenanceMoves, ZenonT(40) DEF Follows
    <2>2. cached_dnskey[z].until > clock => rollover[z].next \in cached_dnskey[z].keys
      BY <1>2, <2>1, SMTT(30) DEF Caches, HoldElapsed
    <2>3. cached_ds[z].until > clock => cached_ds[z].key = parent[z].key /\ parent[z].key # NoKey
      BY <1>2, <2>1, SMTT(30) DEF Caches
    <2> QED BY <1>1, <1>2, <1>3, <1>6, <2>1, <2>2, <2>3, ZenonT(40) DEF Caches
  <1>7. CASE z \in Commanded("abort") /\ z \in zones
    <2>1. /\ ksk'[z] = ksk[z] /\ rollover'[z] = NoRollover
          /\ parent[z].key # rollover[z].next
      BY <1>2, <1>7, MaintenanceMoves, ZenonT(40) DEF Follows
    <2> QED BY <1>1, <1>2, <1>3, <1>7, <2>1, Zenon DEF Caches
  <1>8. CASE z \notin Pending /\ z \in zones
    <2>1. ksk'[z] = ksk[z] /\ rollover'[z] = rollover[z]
      BY <1>8, MaintenanceMoves, Zenon
    <2> QED BY <1>1, <1>2, <1>3, <1>8, <2>1, ZenonT(40) DEF Caches
  <1> QED BY <1>2, <1>4, <1>5, <1>6, <1>7, <1>8, PendingKinds, Zenon

\* The passing of time only empties caches.
LEMMA TickCaches ==
  ASSUME IInv, ProcedureInv, CacheInv, Tick, UNCHANGED validationVars
  PROVE  CacheInv'
  <1>1. UNCHANGED <<parent, cached_dnskey, cached_ds, zones, ksk, rollover>> /\ clock' = clock + 1
    BY Zenon DEF Tick, validationVars, appVars
  <1> SUFFICES ASSUME NEW z \in Zones PROVE Caches(z)'
    BY <1>1, Zenon DEF CacheInv
  <1> QED BY <1>1, CacheTimes, SMTT(30) DEF Caches

\* The owner's changes at the parent keep what is true of the caches.
LEMMA OwnerCaches ==
  ASSUME IInv, ProcedureInv, CacheInv, NEW y \in Zones, Delegate(y) \/ SwitchDs(y)
  PROVE  CacheInv'
  <1>1. /\ UNCHANGED <<cached_dnskey, cached_ds, clock, zones, ksk, rollover>>
        /\ \A z \in Zones \ {y} : parent'[z] = parent[z]
        /\ parent'[y].since = clock
    BY OwnerFollows, Zenon DEF vars, appVars
  <1> SUFFICES ASSUME NEW z \in Zones PROVE Caches(z)'
    BY <1>1, ZenonT(40) DEF CacheInv
  <1>2. /\ Follows(z) /\ Caches(z)
        /\ clock \in Nat /\ DsTtl \in Nat /\ cached_ds[z].until \in Nat
    BY CacheTimes, Zenon
  <1>3. CASE z # y
    BY <1>1, <1>2, <1>3, Zenon DEF Caches
  <1>4. CASE z = y
    <2>1. CASE Delegate(y)
      <3>1. parent[z].key = NoKey /\ rollover[z] = NoRollover
        BY <1>4, <2>1, ZenonT(40) DEF Delegate
      <3>2. ~(cached_ds[z].until > clock)
        BY <1>2, <3>1, Zenon DEF Caches
      <3> QED BY <1>1, <1>2, <3>1, <3>2, ZenonT(40) DEF Caches
    <2>2. CASE SwitchDs(y)
      <3>1. /\ parent[z].key = ksk[z] /\ rollover[z] # NoRollover /\ z \in zones
            /\ parent'[z].key = rollover[z].next
        BY <1>4, <2>2, ZenonT(40) DEF SwitchDs, ProcedureInv
      <3>2. rollover[z].next # ksk[z]
        BY <3>1, Zenon DEF IInv, KeysAgree
      <3>3. cached_ds[z].until > clock =>
              cached_ds[z].key = ksk[z] /\ cached_ds[z].until <= clock + DsTtl
        BY <1>2, <3>1, Zenon DEF Caches
      <3> QED BY <1>1, <1>2, <1>4, <3>1, <3>3, ZenonT(40) DEF Caches
    <2> QED BY <2>1, <2>2, Zenon
  <1> QED BY <1>3, <1>4, Zenon

\* A resolver that fetches keys or DS keeps what is true of the caches.
LEMMA FetchCaches ==
  ASSUME IInv, ProcedureInv, CacheInv, NEW y \in Zones, FetchDnskey(y) \/ FetchDs(y)
  PROVE  CacheInv'
  <1>1. UNCHANGED <<parent, clock, zones, ksk, rollover>>
    BY ZenonT(40) DEF FetchDnskey, FetchDs, vars, appVars
  <1>2. /\ Follows(y) /\ Caches(y) /\ TypeOK
        /\ clock \in Nat /\ DsTtl \in Nat /\ DnskeyTtl[y] \in Nat
    BY CacheTimes, Zenon
  <1>3. \A z \in Zones : Caches(z)
    BY Zenon DEF CacheInv
  <1>4. CASE FetchDnskey(y)
    <2> DEFINE fetched == [keys |-> dnskeys[y], until |-> clock + DnskeyTtl[y]]
    <2>1. /\ cached_dnskey' = [cached_dnskey EXCEPT ![y] = fetched] /\ cached_ds' = cached_ds
          /\ y \in zones
      BY <1>4, ZenonT(40) DEF FetchDnskey
    <2>2. /\ fetched \in [keys : SUBSET Keys, until : Nat]
          /\ fetched.keys = dnskeys[y] /\ fetched.until = clock + DnskeyTtl[y]
      BY <1>2, SMTT(30) DEF TypeOK
    <2> HIDE DEF fetched
    <2>3. cached_dnskey' \in [Zones -> [keys : SUBSET Keys, until : Nat]]
      BY <2>1, <2>2, Zenon DEF CacheInv
    <2>4. /\ cached_dnskey'[y] = fetched
          /\ \A z \in Zones \ {y} : cached_dnskey'[z] = cached_dnskey[z]
      BY <2>1, Zenon DEF CacheInv
    <2>5. /\ ksk[y] \in dnskeys[y]
          /\ rollover[y] # NoRollover => rollover[y].next \in dnskeys[y]
      BY <1>2, <2>1, KskIsServed, RolloverTimes, KeyAssumption, Zenon DEF IInv, KeysAgree
    <2>6. Caches(y)'
      BY <1>1, <1>2, <2>1, <2>2, <2>4, <2>5, SMTT(30) DEF Caches
    <2>7. ASSUME NEW z \in Zones, z # y PROVE Caches(z)'
      BY <1>1, <1>3, <2>1, <2>4, <2>7, Zenon DEF Caches
    <2> QED BY <2>1, <2>3, <2>6, <2>7, Zenon DEF CacheInv
  <1>5. CASE FetchDs(y)
    <2> DEFINE fetched == [key |-> parent[y].key, until |-> clock + DsTtl]
    <2>1. /\ cached_ds' = [cached_ds EXCEPT ![y] = fetched] /\ cached_dnskey' = cached_dnskey
          /\ parent[y].key # NoKey
      BY <1>5, Zenon DEF FetchDs
    <2>2. /\ fetched \in [key : Keys \cup {NoKey}, until : Nat]
          /\ fetched.key = parent[y].key /\ fetched.until = clock + DsTtl
      BY <1>2 DEF ProcedureInv, ParentRecord
    <2> HIDE DEF fetched
    <2>3. cached_ds' \in [Zones -> [key : Keys \cup {NoKey}, until : Nat]]
      BY <2>1, <2>2, Zenon DEF CacheInv
    <2>4. /\ cached_ds'[y] = fetched
          /\ \A z \in Zones \ {y} : cached_ds'[z] = cached_ds[z]
      BY <2>1, Zenon DEF CacheInv
    <2>5. Caches(y)'
      BY <1>1, <1>2, <2>1, <2>2, <2>4, SMTT(30) DEF Caches, Follows
    <2>6. ASSUME NEW z \in Zones, z # y PROVE Caches(z)'
      BY <1>1, <1>3, <2>1, <2>4, <2>6, Zenon DEF Caches
    <2> QED BY <2>1, <2>3, <2>5, <2>6, Zenon DEF CacheInv
  <1> QED BY <1>4, <1>5, Zenon

\* Every step keeps what is true of the caches.
LEMMA StepCaches ==
  ASSUME HoldsCoverTtl, IInv, ProcedureInv, CacheInv, [ValidationNext]_allVars
  PROVE  CacheInv'
  <1>1. ASSUME UNCHANGED <<validationVars, clock, zones, ksk, rollover>> PROVE CacheInv'
    BY <1>1, Zenon DEF validationVars, CacheInv, Caches
  <1>2. ASSUME NEW z \in Zones, CreateZone(z), UNCHANGED validationVars PROVE CacheInv'
    BY <1>1, <1>2, Zenon DEF CreateZone, appVars
  <1>3. ASSUME NEW z \in Zones, NEW c \in Commands, ProposeProvided(z, c) PROVE CacheInv'
    BY <1>1, <1>3, Zenon DEF ProposeProvided, Propose, appVars
  <1>4. CASE UNCHANGED allVars
    BY <1>1, <1>4, Zenon DEF allVars, vars, appVars
  <1> QED
    BY <1>2, <1>3, <1>4, MaintenanceCaches, TickCaches, OwnerCaches, FetchCaches, Zenon DEF ValidationNext

\* At the start the caches are empty.
LEMMA InitCaches == ValidationInit => CacheInv
  <1> SUFFICES ASSUME ValidationInit PROVE CacheInv
    BY Zenon
  <1>1. /\ clock = 0 /\ cached_dnskey = [z \in Zones |-> [keys |-> {}, until |-> 0]]
        /\ cached_ds = [z \in Zones |-> [key |-> NoKey, until |-> 0]]
    BY Zenon DEF ValidationInit, Init
  <1>2. [keys |-> {}, until |-> 0] \in [keys : SUBSET Keys, until : Nat]
    BY Zenon
  <1>3. [key |-> NoKey, until |-> 0] \in [key : Keys \cup {NoKey}, until : Nat]
    BY Zenon
  <1>4. ASSUME NEW z \in Zones PROVE Caches(z)
    BY <1>1, SMTT(30) DEF Caches
  <1> QED BY <1>1, <1>2, <1>3, <1>4, Zenon DEF CacheInv

\* No validating resolver is left with a DS and a DNSKEY RRset that do not fit
\* together, for any zones, keys and TTLs, whenever it fetched either of them and
\* however late a command is drained, as long as no hold is shorter than the TTL
\* of the DNSKEY RRset.
THEOREM ChainAlwaysValidates == HoldsCoverTtl => (ValidationSpec => []ChainOfTrust)
  <1> SUFFICES ASSUME HoldsCoverTtl PROVE ValidationSpec => []ChainOfTrust
    BY Zenon
  <1>1. IInv /\ ProcedureInv /\ CacheInv /\ [ValidationNext]_allVars => CacheInv'
    BY StepCaches, Zenon
  <1>2. ASSUME IInv, ProcedureInv, CacheInv, NEW z \in Zones,
               cached_ds[z].until > clock, cached_dnskey[z].until > clock
        PROVE  cached_ds[z].key \in cached_dnskey[z].keys
    <2>1. /\ Follows(z) /\ Caches(z)
          /\ rollover[z].started_at \in Nat /\ rollover[z].hold \in Nat /\ clock \in Nat
          /\ cached_dnskey[z].until \in Nat
      BY <1>2, CacheTimes, Zenon
    <2>2. ksk[z] \in cached_dnskey[z].keys
      BY <1>2, <2>1, Zenon DEF Caches
    <2>3. rollover[z] # NoRollover /\ HoldElapsed(z) => rollover[z].next \in cached_dnskey[z].keys
      BY <1>2, <2>1, SMTT(30) DEF Caches, HoldElapsed
    <2>4. rollover[z] = NoRollover => rollover[z].next = NoKey
      BY SMTT(30) DEF NoRollover
    <2>5. CASE cached_ds[z].key = ksk[z]
      BY <2>2, <2>5, ZenonT(40)
    <2>6. CASE cached_ds[z].key = parent[z].key /\ parent[z].key # NoKey
      BY <2>1, <2>2, <2>3, <2>4, <2>6, ZenonT(40) DEF Follows
    <2> QED BY <1>2, <2>1, <2>5, <2>6, ZenonT(40) DEF Caches
  <1>3. IInv /\ ProcedureInv /\ CacheInv => ChainOfTrust
    BY <1>2, Zenon DEF ChainOfTrust
  <1> QED
    BY <1>1, <1>3, InitCaches, ProcedureInvariant, PTL DEF ValidationSpec

-----------------------------------------------------------------------------
(* SecondaryHost and BackendHost: what the installation programs leave.    *)

Provisions == {NoProvision} \cup
    [step : {"token", "pull", "conf", "key", "check", "run"}, setting : Settings]

\* What a file has in it once a provisioning for the setting wrote it.
WrittenFor(file, setting) == config[file] = Contents(file, setting)

HasWritten(p) ==
    /\ provision[p].step \in {"key", "check", "run"} => WrittenFor("conf", provision[p].setting)
    /\ provision[p].step \in {"check", "run"} => WrittenFor("key", provision[p].setting)

MachineSound ==
    \/ machine = NoContainer
    \/ \E s \in Settings : /\ machine = [conf |-> s.primary, key |-> s.secret, by |-> s]
                            /\ WrittenFor("conf", s) /\ WrittenFor("key", s)

GroupSound ==
    /\ group \in [env : Settings \cup {Unset}, conf : Settings \cup {Unset, Torn},
                  written : BOOLEAN, serves : Settings \cup {Unset, Torn}]
    /\ group.written => group.conf = group.env
    /\ group.serves \in {Unset, group.env}

\* A file, once there, stays until nobody provisions: the provisioning that has
\* passed a file wrote it, and what a container was started on is still there
\* when it restarts.  The group's configuration is its environment from the write
\* to the next start.
SecondaryInv ==
    /\ provision \in [Provisioners -> Provisions]
    /\ DOMAIN config = {"conf", "key"}
    /\ \A p \in Provisioners : HasWritten(p)
    /\ MachineSound
    /\ GroupSound

\* A setting's files are neither absent nor torn.
LEMMA ContentsAreThere ==
    ASSUME NEW s \in Settings, NEW file \in {"conf", "key"}
    PROVE  Contents(file, s) \notin {Unset, Torn}
BY SecondaryHostAssumption, Zenon DEF Settings, Contents, Configuration, SecretFromFile

\* open("x"): no file that is there changes.
LEMMA FilesStay ==
    ASSUME SecondaryInv, NEW p \in Provisioners, NEW file \in {"conf", "key"},
           NEW next \in {"key", "check"}, CreateFile(p, file, next),
           file = "conf" <=> next = "key"
    PROVE  SecondaryInv'
<1>1. PICK setting \in Settings : provision[p] = [step |-> file, setting |-> setting]
  <2>1. provision[p].step = file /\ provision[p] \in Provisions
      BY Zenon DEF SecondaryInv, CreateFile
  <2> QED BY <2>1 DEF Provisions, NoProvision
<1>2. \A q \in Provisioners : q # p => provision'[q] = provision[q]
    BY Zenon DEF CreateFile, Aborts, StepsTo, SecondaryInv
<1>3. CASE config[file] # Unset
  <2>1. provision' = [provision EXCEPT ![p] = NoProvision] /\ UNCHANGED <<config, machine, group>>
      BY <1>3, Zenon DEF CreateFile, Aborts
  <2> QED BY <2>1, Zenon DEF SecondaryInv, Provisions, NoProvision, HasWritten, MachineSound, GroupSound, WrittenFor
<1>4. CASE config[file] = Unset
  <2>1. PICK written \in {Contents(file, setting), Torn} :
           /\ config' = [config EXCEPT ![file] = written]
           /\ IF written = Torn THEN Aborts(p) ELSE StepsTo(p, next)
      BY <1>1, <1>4, SMTT(30) DEF CreateFile
  <2>2. UNCHANGED <<machine, group>>
      BY Zenon DEF CreateFile
  <2>3. \A f \in {"conf", "key"}, s \in Settings : WrittenFor(f, s) => f # file
      BY <1>4, ContentsAreThere, Zenon DEF WrittenFor
  <2>4. \A f \in {"conf", "key"}, s \in Settings : WrittenFor(f, s) => WrittenFor(f, s)'
      BY <2>1, <2>3, Zenon DEF WrittenFor, SecondaryInv, Contents, Configuration, SecretFromFile
  <2>5. DOMAIN config' = {"conf", "key"}
      BY <2>1, Zenon DEF SecondaryInv
  <2>6. MachineSound'
      BY <2>2, <2>4, Zenon DEF SecondaryInv, MachineSound
  <2>7. provision' \in [Provisioners -> Provisions]
    <3>1. [provision[p] EXCEPT !.step = next] \in Provisions /\ NoProvision \in Provisions
        BY <1>1 DEF Provisions
    <3> QED BY <2>1, <3>1, Zenon DEF SecondaryInv, Aborts, StepsTo
  <2>8. ASSUME NEW q \in Provisioners
        PROVE  HasWritten(q)'
    <3>1. CASE q # p
      <4>1. provision[q].step \in {"key", "check", "run"} => provision[q].setting \in Settings
          BY SMTT(30) DEF SecondaryInv, Provisions, NoProvision
      <4> QED BY <1>2, <2>4, <3>1, <4>1, Zenon DEF SecondaryInv, HasWritten
    <3>2. CASE q = p /\ written = Torn
        BY <2>1, <3>2, SMTT(30) DEF Aborts, NoProvision, SecondaryInv, HasWritten
    <3>3. CASE q = p /\ written # Torn
      <4>1. provision'[p].step = next /\ provision'[p].setting = setting
        <5>1. provision'[p] = [provision[p] EXCEPT !.step = next]
            BY <2>1, <3>3, Zenon DEF StepsTo, SecondaryInv
        <5> QED BY <1>1, <5>1
      <4>2. WrittenFor(file, setting)'
          BY <2>1, <3>3, Zenon DEF WrittenFor, SecondaryInv, Contents, Configuration, SecretFromFile
      <4>3. file = "key" => WrittenFor("conf", setting)'
          BY <1>1, <2>4 DEF SecondaryInv, HasWritten
      <4> QED BY <3>3, <4>1, <4>2, <4>3, Zenon DEF HasWritten
    <3> QED BY <3>1, <3>2, <3>3, Zenon
  <2> QED BY <2>2, <2>5, <2>6, <2>7, <2>8, Zenon DEF SecondaryInv, GroupSound
<1> QED BY <1>3, <1>4, Zenon

\* Every step of the provisioners of a secondary host keeps its invariant.
LEMMA SecondaryStep == SecondaryInv /\ [SecondaryNext]_secondaryVars => SecondaryInv'
<1> SUFFICES ASSUME SecondaryInv, [SecondaryNext]_secondaryVars PROVE SecondaryInv'
    BY Zenon
<1>1. CASE UNCHANGED secondaryVars
    BY <1>1, Zenon DEF SecondaryInv, HasWritten, MachineSound, GroupSound, secondaryVars, WrittenFor
<1>2. ASSUME NEW p \in Provisioners,
             \/ \E setting \in Settings : InspectContainer(p, setting)
             \/ IdentityToken(p) \/ PullImage(p) \/ CheckConfiguration(p) \/ ProvisionFails(p)
      PROVE  SecondaryInv'
  <2>1. UNCHANGED <<config, machine, group>>
      BY <1>2, ZenonT(40) DEF InspectContainer, IdentityToken, PullImage, CheckConfiguration, ProvisionFails
  <2>2. /\ provision' \in [Provisioners -> Provisions]
        /\ \A q \in Provisioners : q # p => provision'[q] = provision[q]
        /\ provision'[p].step \in {"key", "check", "run"} =>
              /\ provision'[p].step = "run" /\ provision[p].step = "check"
              /\ provision'[p].setting = provision[p].setting
    <3>1. ASSUME NEW setting \in Settings, InspectContainer(p, setting)
          PROVE  <2>2!1 /\ <2>2!2 /\ <2>2!3
      <4>1. [step |-> "token", setting |-> setting] \in Provisions
          BY Zenon DEF Provisions
      <4> QED BY <3>1, <4>1, Zenon DEF InspectContainer, SecondaryInv
    <3>2. CASE IdentityToken(p) \/ PullImage(p) \/ CheckConfiguration(p) \/ ProvisionFails(p)
        BY <3>2 DEF IdentityToken, PullImage, CheckConfiguration, ProvisionFails,
                    StepsTo, Aborts, SecondaryInv, Provisions, NoProvision
    <3> QED BY <1>2, <3>1, <3>2, Zenon
  <2>3. \A f \in {"conf", "key"}, s \in Settings : WrittenFor(f, s)' <=> WrittenFor(f, s)
      BY <2>1, Zenon DEF WrittenFor
  <2>4. \A q \in Provisioners : HasWritten(q)'
      BY <2>1, <2>2, SMTT(30) DEF SecondaryInv, HasWritten, WrittenFor
  <2> QED BY <2>1, <2>2, <2>3, <2>4, Zenon DEF SecondaryInv, MachineSound, GroupSound
<1>3. ASSUME NEW p \in Provisioners, RunContainer(p) PROVE SecondaryInv'
  <2>1. /\ provision' = [provision EXCEPT ![p] = NoProvision] /\ UNCHANGED <<config, group>>
        /\ provision[p].step = "run"
        /\ machine' = IF machine = NoContainer
                      THEN [conf |-> config.conf, key |-> config.key, by |-> provision[p].setting]
                      ELSE machine
      BY <1>3, Zenon DEF RunContainer, Aborts
  <2>2. provision[p].setting \in Settings
      BY <2>1, SMTT(30) DEF SecondaryInv, Provisions, NoProvision
  <2>3. /\ config.conf = provision[p].setting.primary /\ config.key = provision[p].setting.secret
      BY <2>1, ZenonT(40) DEF SecondaryInv, HasWritten, WrittenFor, Contents, Configuration, SecretFromFile
  <2>4. MachineSound'
      BY <2>1, <2>2, <2>3, Zenon DEF SecondaryInv, MachineSound, WrittenFor, Contents, Configuration, SecretFromFile
  <2>5. provision' \in [Provisioners -> Provisions]
      BY <2>1, Zenon DEF SecondaryInv, Provisions
  <2>6. \A q \in Provisioners : HasWritten(q)'
      BY <2>1, Zenon DEF SecondaryInv, HasWritten, WrittenFor, NoProvision
  <2> QED BY <2>1, <2>4, <2>5, <2>6, Zenon DEF SecondaryInv, GroupSound
<1>4. ASSUME NEW p \in Provisioners, CreateFile(p, "conf", "key") \/ CreateFile(p, "key", "check")
      PROVE  SecondaryInv'
    BY <1>4, FilesStay, Zenon
<1>5. CASE ContainerRestarts
  <2>1. PICK s \in Settings : /\ machine = [conf |-> s.primary, key |-> s.secret, by |-> s]
                              /\ WrittenFor("conf", s) /\ WrittenFor("key", s)
      BY <1>5, Zenon DEF ContainerRestarts, SecondaryInv, MachineSound
  <2>2. config.conf = s.primary /\ config.key = s.secret
      BY <2>1, Zenon DEF WrittenFor, Contents, Configuration, SecretFromFile
  <2>3. machine' = machine /\ UNCHANGED <<provision, config, group>>
    <3>1. machine' = [machine EXCEPT !.conf = s.primary, !.key = s.secret]
        BY <1>5, <2>2, Zenon DEF ContainerRestarts
    <3> QED BY <1>5, <2>1, <3>1, Zenon DEF ContainerRestarts
  <2> QED BY <2>3, Zenon DEF SecondaryInv, HasWritten, MachineSound, GroupSound, WrittenFor
<1>6. CASE OperatorRemoves
  <2>1. /\ machine' = NoContainer /\ UNCHANGED <<provision, group>>
        /\ DOMAIN config' = {"conf", "key"}
        /\ \A p \in Provisioners : provision[p] = NoProvision
      BY <1>6, Zenon DEF OperatorRemoves, SecondaryInv
  <2> QED BY <2>1, SMTT(30) DEF SecondaryInv, HasWritten, MachineSound, GroupSound, NoProvision
<1>7. CASE WriteNamedConf \/ ExecNamed \/ GroupRestarts
  <2>1. UNCHANGED <<provision, config, machine>>
      BY <1>7, Zenon DEF WriteNamedConf, ExecNamed, GroupRestarts
  <2>2. GroupSound'
    <3>1. CASE WriteNamedConf
        BY <3>1, Zenon DEF WriteNamedConf, SecondaryInv, GroupSound
    <3>2. CASE ExecNamed
        BY <3>2, Zenon DEF ExecNamed, SecondaryInv, GroupSound
    <3>3. CASE GroupRestarts
      <4>1. CASE group' = [group EXCEPT !.serves = Unset, !.written = FALSE]
          BY <4>1, Zenon DEF SecondaryInv, GroupSound
      <4>2. CASE \E s \in Settings : group' = Deployed(s)
          BY <4>2 DEF GroupSound, Deployed
      <4> QED BY <3>3, <4>1, <4>2, Zenon DEF GroupRestarts
    <3> QED BY <1>7, <3>1, <3>2, <3>3, Zenon
  <2> QED BY <2>1, <2>2, Zenon DEF SecondaryInv, HasWritten, MachineSound, WrittenFor
<1> QED BY <1>1, <1>2, <1>3, <1>4, <1>5, <1>6, <1>7, Zenon DEF SecondaryNext

\* The configuration of a secondary host is whole in every reachable state.
LEMMA SecondaryStaysWhole == SecondarySpec => []SecondaryWhole
<1>1. SecondaryInit => SecondaryInv
    BY SMTT(30) DEF SecondaryInit, SecondaryInv, HasWritten, MachineSound, GroupSound,
           Provisions, NoProvision, Deployed
<1>2. SecondaryInv => SecondaryWhole
    BY DEF SecondaryInv, MachineSound, GroupSound, SecondaryWhole, NoContainer, Configuration, SecretFromFile
<1> QED BY <1>1, <1>2, SecondaryStep, PTL DEF SecondarySpec

Installs == {NoInstaller} \cup
    [step : {"prepare", "mark", "preflight", "public", "private", "compose", "smoke", "passed", "print"},
     payload : Protected]

\* Beyond the mkdir of the state directory.
Working(i) == installer[i].step \notin {"ended", "prepare"}

\* What the marker says while an installer is at the step.
MarkerAt(step) == CASE step = "mark" -> Unset
                    [] step = "print" -> "passed"
                    [] OTHER -> "prepared"

\* How far an installer is shows in the directories, in the credentials on disk
\* and, once it has started the containers, in what they serve with.
WorkShows(i) ==
    Working(i) =>
       /\ "state" \in paths
       /\ marker = MarkerAt(installer[i].step)
       /\ installer[i].step \in {"private", "compose", "smoke", "passed", "print"} => "root" \in paths
       /\ installer[i].step \in {"compose", "smoke", "passed", "print"} =>
             private = installer[i].payload.private
       /\ installer[i].step \in {"smoke", "passed", "print"} => project = private

PassedWhole ==
    marker = "passed" =>
       /\ paths = {"state", "root"}
       /\ private \in Credentials
       /\ project \in {Unset, private}

\* The state directory is the lock: it is there before anything else is, and it
\* is made by one installer.
BackendInv ==
    /\ installer \in [Installers -> Installs]
    /\ paths \subseteq {"state", "root"}
    /\ (paths # {} \/ marker # Unset) => "state" \in paths
    /\ \A i, j \in Installers : Working(i) /\ Working(j) => i = j
    /\ \A i \in Installers : WorkShows(i)
    /\ PassedWhole

\* An installer that ends, with no change but to the marker.
LEMMA LeavingKeeps ==
    ASSUME BackendInv, NEW i \in Installers, Leaves(i), UNCHANGED <<private, paths, project>>,
           marker' = marker \/ (Working(i) /\ marker' \in {"failed", Torn})
    PROVE  BackendInv'
<1> USE BackendHostAssumption
<1>1. /\ installer' = [installer EXCEPT ![i] = NoInstaller]
      /\ installer' \in [Installers -> Installs]
    BY Zenon DEF Leaves, BackendInv, Installs
<1>2. \A j \in Installers : Working(j)' => j # i /\ installer'[j] = installer[j] /\ Working(j)
    BY <1>1, ZenonT(40) DEF Working, NoInstaller, BackendInv
<1>3. (\E j \in Installers : Working(j)') => marker' = marker
    BY <1>2, Zenon DEF BackendInv
<1>4. \A j \in Installers : WorkShows(j)'
    BY <1>2, <1>3, ZenonT(40) DEF BackendInv, WorkShows
<1>5. PassedWhole'
    BY ZenonT(40) DEF BackendInv, PassedWhole
<1>6. (paths' # {} \/ marker' # Unset) => "state" \in paths'
    BY Zenon DEF BackendInv, WorkShows
<1> QED BY <1>1, <1>2, <1>4, <1>5, <1>6, ZenonT(40) DEF BackendInv

\* An installer at work goes to its next step: of the others none is at work, so
\* only what it shows itself needs to be established.
LEMMA ProceedingKeeps ==
    ASSUME BackendInv, NEW i \in Installers, Working(i),
           NEW step \in {"preflight", "public", "private", "compose", "smoke", "passed", "print"},
           Proceeds(i, step), WorkShows(i)', PassedWhole',
           paths' \subseteq {"state", "root"}, paths \subseteq paths'
    PROVE  BackendInv'
<1>1. installer[i] \in Installs /\ installer[i] # NoInstaller
    BY DEF BackendInv, Working, NoInstaller
<1>2. [installer[i] EXCEPT !.step = step] \in Installs
    BY <1>1, Zenon DEF Installs
<1>3. /\ installer' \in [Installers -> Installs]
      /\ \A j \in Installers : j # i => installer'[j] = installer[j]
      /\ installer'[i] = [installer[i] EXCEPT !.step = step]
    BY <1>2, Zenon DEF Proceeds, BackendInv
<1>4. \A j \in Installers : j # i => ~Working(j)'
    BY <1>3, Zenon DEF BackendInv, Working
<1>5. \A j \in Installers : WorkShows(j)'
    BY <1>4, ZenonT(40) DEF WorkShows
<1>6. "state" \in paths'
    BY Zenon DEF BackendInv, WorkShows
<1> QED BY <1>3, <1>4, <1>5, <1>6, Zenon DEF BackendInv

\* Every step of the installers of a backend host keeps its invariant.
LEMMA BackendStep == BackendInv /\ [BackendNext]_backendVars => BackendInv'
<1> SUFFICES ASSUME BackendInv, [BackendNext]_backendVars PROVE BackendInv'
    BY Zenon
<1> USE BackendHostAssumption
<1>1. CASE UNCHANGED backendVars \/ BindChanges
    BY <1>1, ZenonT(40) DEF backendVars, BindChanges, BackendInv, Working, WorkShows, PassedWhole
<1>2. ASSUME NEW i \in Installers, NEW payload \in Protected, DecodePayload(i, payload)
      PROVE  BackendInv'
  <2>1. /\ installer' = [installer EXCEPT ![i] = [step |-> "prepare", payload |-> payload]]
        /\ UNCHANGED <<marker, private, paths, project>>
      BY <1>2, Zenon DEF DecodePayload
  <2>2. installer' \in [Installers -> Installs]
      BY <2>1, Zenon DEF BackendInv, Installs
  <2>3. \A j \in Installers : Working(j)' => Working(j) /\ installer'[j] = installer[j]
      BY <2>1, Zenon DEF BackendInv, Working
  <2> QED BY <2>1, <2>2, <2>3, Zenon DEF BackendInv, WorkShows, PassedWhole
<1>3. ASSUME NEW i \in Installers, PrepareState(i) PROVE BackendInv'
  <2>1. CASE "state" \in paths
      BY <1>3, <2>1, LeavingKeeps, Zenon DEF PrepareState
  <2>2. CASE "state" \notin paths
    <3>1. /\ paths' = paths \cup {"state"} /\ installer' = [installer EXCEPT ![i].step = "mark"]
          /\ UNCHANGED <<marker, private, project>> /\ installer[i].step = "prepare"
        BY <1>3, <2>2, Zenon DEF PrepareState, Proceeds
    <3>2. [installer[i] EXCEPT !.step = "mark"] \in Installs
        BY <3>1 DEF BackendInv, Installs, NoInstaller
    <3>3. /\ installer' \in [Installers -> Installs] /\ installer'[i].step = "mark"
          /\ \A j \in Installers : j # i => installer'[j] = installer[j]
        BY <3>1, <3>2, Zenon DEF BackendInv, Installs, NoInstaller
    <3>4. marker = Unset /\ \A j \in Installers : ~Working(j)
        BY <2>2, Zenon DEF BackendInv, WorkShows
    <3>5. \A j \in Installers : Working(j)' => j = i
        BY <3>3, <3>4, Zenon DEF Working
    <3>6. WorkShows(i)' /\ PassedWhole'
        BY <3>1, <3>3, <3>4, Zenon DEF WorkShows, MarkerAt, PassedWhole
    <3>7. \A j \in Installers : WorkShows(j)'
        BY <3>5, <3>6, Zenon DEF WorkShows
    <3> QED BY <3>1, <3>3, <3>5, <3>6, <3>7, Zenon DEF BackendInv
  <2> QED BY <2>1, <2>2, Zenon
<1>4. ASSUME NEW i \in Installers, Working(i)
      PROVE  /\ WorkShows(i) /\ PassedWhole /\ installer[i] \in Installs
             /\ installer[i].payload.private \in Credentials
             /\ \A step : Proceeds(i, step) => /\ installer'[i].step = step
                                                /\ installer'[i].payload = installer[i].payload
  <2>1. installer[i] \in Installs /\ installer[i] # NoInstaller
      BY <1>4 DEF BackendInv, Working, NoInstaller
  <2>2. installer[i].payload.private \in Credentials
      BY <2>1, Zenon DEF Installs, Protected
  <2>3. \A step : [installer[i] EXCEPT !.step = step].step = step
      BY <2>1, Zenon DEF Installs
  <2>4. \A step : [installer[i] EXCEPT !.step = step].payload = installer[i].payload
      BY <2>1, Zenon DEF Installs
  <2>5. \A step : Proceeds(i, step) => installer'[i] = [installer[i] EXCEPT !.step = step]
      BY Zenon DEF Proceeds, BackendInv
  <2> QED BY <2>1, <2>2, <2>3, <2>4, <2>5, Zenon DEF BackendInv
<1>5. ASSUME NEW i \in Installers, MarkPrepared(i) PROVE BackendInv'
  <2>1. Working(i) /\ marker = Unset
      BY <1>5, Zenon DEF MarkPrepared, Working, BackendInv, WorkShows, MarkerAt
  <2>2. /\ marker' = "prepared" /\ Proceeds(i, "preflight") /\ UNCHANGED <<private, paths, project>>
      BY <1>5, <2>1, Zenon DEF MarkPrepared
  <2>3. WorkShows(i)' /\ PassedWhole'
      BY <1>4, <2>1, <2>2 DEF WorkShows, MarkerAt, PassedWhole
  <2> QED BY <2>1, <2>2, <2>3, ProceedingKeeps, Zenon DEF BackendInv
<1>6. ASSUME NEW i \in Installers, BindBefore(i) PROVE BackendInv'
  <2>1. Working(i) /\ marker = "prepared"
      BY <1>6, Zenon DEF BindBefore, Working, BackendInv, WorkShows, MarkerAt
  <2>2. Proceeds(i, "public") /\ UNCHANGED <<marker, private, paths, project>>
      BY <1>6, Zenon DEF BindBefore
  <2>3. WorkShows(i)' /\ PassedWhole'
      BY <1>4, <2>1, <2>2 DEF WorkShows, MarkerAt, PassedWhole
  <2> QED BY <2>1, <2>2, <2>3, ProceedingKeeps, Zenon DEF BackendInv
<1>7. ASSUME NEW i \in Installers, WritePublic(i) PROVE BackendInv'
  <2>1. Working(i) /\ marker = "prepared"
      BY <1>7, Zenon DEF WritePublic, Working, BackendInv, WorkShows, MarkerAt
  <2>2. /\ Proceeds(i, "private") /\ UNCHANGED <<marker, private, project>>
        /\ paths' = paths \cup {"root"}
      BY <1>7, Zenon DEF WritePublic
  <2>3. WorkShows(i)' /\ PassedWhole'
      BY <1>4, <2>1, <2>2, SMTT(30) DEF WorkShows, MarkerAt, PassedWhole
  <2> QED BY <2>1, <2>2, <2>3, ProceedingKeeps, Zenon DEF BackendInv
<1>8. ASSUME NEW i \in Installers, WritePrivate(i) PROVE BackendInv'
  <2>1. Working(i) /\ marker = "prepared" /\ "root" \in paths /\ installer[i].step = "private"
      BY <1>8, Zenon DEF WritePrivate, Working, BackendInv, WorkShows, MarkerAt
  <2>2. CASE private' = installer[i].payload.private /\ Proceeds(i, "compose") /\ UNCHANGED marker
    <3>1. UNCHANGED <<paths, project>>
        BY <1>8, Zenon DEF WritePrivate
    <3>2. WorkShows(i)' /\ PassedWhole'
        BY <1>4, <2>1, <2>2, <3>1, SMTT(30) DEF WorkShows, MarkerAt, PassedWhole
    <3> QED BY <2>1, <2>2, <3>1, <3>2, ProceedingKeeps, ZenonT(40) DEF BackendInv
  <2>3. CASE private' = Torn /\ marker' = "failed" /\ Leaves(i)
    <3>1. UNCHANGED <<paths, project>>
        BY <1>8, Zenon DEF WritePrivate
    <3>2. /\ installer' = [installer EXCEPT ![i] = NoInstaller]
          /\ installer' \in [Installers -> Installs]
        BY <2>3, Zenon DEF Leaves, BackendInv, Installs
    <3>3. \A j \in Installers : ~Working(j)'
        BY <2>1, <3>2, Zenon DEF Working, NoInstaller, BackendInv
    <3> QED BY <2>1, <2>3, <3>1, <3>2, <3>3, Zenon DEF BackendInv, WorkShows, PassedWhole
  <2> QED BY <1>8, <2>2, <2>3, Zenon DEF WritePrivate
<1>9. ASSUME NEW i \in Installers, StartProject(i) PROVE BackendInv'
  <2>1. Working(i) /\ marker = "prepared" /\ installer[i].step = "compose"
      BY <1>9, Zenon DEF StartProject, Working, BackendInv, WorkShows, MarkerAt
  <2>2. Proceeds(i, "smoke") /\ UNCHANGED <<marker, private, paths>> /\ project' = private
      BY <1>9, Zenon DEF StartProject
  <2>3. WorkShows(i)' /\ PassedWhole'
      BY <1>4, <2>1, <2>2 DEF WorkShows, MarkerAt, PassedWhole
  <2> QED BY <2>1, <2>2, <2>3, ProceedingKeeps, Zenon DEF BackendInv
<1>10. ASSUME NEW i \in Installers, VerifyBackend(i) PROVE BackendInv'
  <2>1. Working(i) /\ marker = "prepared" /\ installer[i].step = "smoke"
      BY <1>10, Zenon DEF VerifyBackend, Working, BackendInv, WorkShows, MarkerAt
  <2>2. Proceeds(i, "passed") /\ UNCHANGED <<marker, private, paths, project>>
      BY <1>10, Zenon DEF VerifyBackend
  <2>3. WorkShows(i)' /\ PassedWhole'
      BY <1>4, <2>1, <2>2 DEF WorkShows, MarkerAt, PassedWhole
  <2> QED BY <2>1, <2>2, <2>3, ProceedingKeeps, Zenon DEF BackendInv
<1>11. ASSUME NEW i \in Installers, MarkPassed(i) PROVE BackendInv'
  <2>1. Working(i) /\ installer[i].step = "passed"
      BY <1>11, Zenon DEF MarkPassed, Working
  <2>2. Proceeds(i, "print") /\ marker' = "passed" /\ UNCHANGED <<private, paths, project>>
      BY <1>11, Zenon DEF MarkPassed
  <2>3. paths = {"state", "root"}
      BY <1>4, <2>1, ZenonT(40) DEF WorkShows, BackendInv
  <2>4. WorkShows(i)' /\ PassedWhole'
      BY <1>4, <2>1, <2>2, <2>3, Zenon DEF WorkShows, MarkerAt, PassedWhole
  <2> QED BY <2>1, <2>2, <2>4, ProceedingKeeps, Zenon DEF BackendInv
<1>12. ASSUME NEW i \in Installers, Printed(i) \/ InstallFails(i) \/ InstallerKilled(i) PROVE BackendInv'
    BY <1>12, LeavingKeeps, ZenonT(40) DEF Printed, InstallFails, InstallerKilled, Working, BackendInv, Installs, NoInstaller
<1>13. CASE OperatorClears
  <2>1. /\ \A i \in Installers : installer[i] = NoInstaller
        /\ UNCHANGED installer
      BY <1>13, Zenon DEF OperatorClears
  <2>2. \A i \in Installers : ~Working(i)'
      BY <2>1, SMTT(30) DEF Working, NoInstaller
  <2> QED BY <1>13, <2>1, <2>2, Zenon DEF OperatorClears, BackendInv, WorkShows, PassedWhole
<1> QED BY <1>1, <1>2, <1>3, <1>5, <1>6, <1>7, <1>8, <1>9, <1>10, <1>11, <1>12, <1>13, Zenon DEF BackendNext

\* The credentials of a backend host are whole in every reachable state.
LEMMA BackendStaysWhole == BackendSpec => []BackendWhole
<1>1. BackendInit => BackendInv
    BY BackendHostAssumption DEF BackendInit, BackendInv, Installs, NoInstaller, Working, WorkShows, PassedWhole
<1>2. BackendInv => BackendWhole
    BY Zenon DEF BackendInv, BackendWhole, WorkShows, Working, MarkerAt, PassedWhole
<1> QED BY <1>1, <1>2, BackendStep, PTL DEF BackendSpec

\* Whoever else is started at the same time and wherever a program dies, for any
\* primaries, secrets and credentials: a secondary runs with the key and the
\* primary of the one secondary_vm.py (or environment) that started it, and a
\* marker that says passed stands for a whole installation of the backend.
THEOREM HostsStayWhole == SecondarySpec /\ BackendSpec => []HostsWhole
<1>1. SecondaryWhole /\ BackendWhole => HostsWhole
    BY Zenon DEF HostsWhole
<1> QED BY <1>1, SecondaryStaysWhole, BackendStaysWhole, PTL

-----------------------------------------------------------------------------
(* The development server.                                                 *)

TaskStates == [step : Steps, current : BOOLEAN, changed : BOOLEAN, zone : 0..LastSerial,
               notified : 0..LastSerial, observed : 0..LastSerial]

DevTypes ==
    /\ running \in BOOLEAN
    /\ db \in Stores /\ disk \in Stores
    /\ mutation \in Tasks \cup {"free"}
    /\ task \in [Tasks -> TaskStates]
    /\ snapshot \in 0..LastSerial /\ secondary \in 0..LastSerial
    /\ answered \subseteq Posts

\* The image holds what was promised, and a row that is true of it.
ImageSound ==
    /\ answered \subseteq disk.results
    /\ secondary <= disk.serial
    /\ disk.notified <= disk.serial /\ disk.observed <= secondary

\* The process runs ahead of the image, never behind it.
RunsAhead ==
    running => /\ secondary <= snapshot /\ snapshot <= disk.serial
               /\ disk.serial <= db.serial /\ disk.results \subseteq db.results

RowSound == db.observed <= secondary /\ db.notified <= disk.serial

\* From its first read to its last write a transaction has the lock.
Locked(t) ==
    /\ task[t].step \in {"open", "committed", "saved"} => mutation = t
    /\ task[t].step = "open" => task[t].current

\* What a task that has got so far has stored.
Stored(t) ==
    /\ task[t].step = "saved" => disk.serial = db.serial /\ disk.results = db.results
    /\ t \in Posts =>
          /\ task[t].step \in {"committed", "saved"} /\ task[t].changed => t \in db.results
          /\ task[t].step \in {"released", "asked", "heard"} => t \in disk.results

\* A copy of the row that waits to be written back is true.
CopySound(t) ==
    task[t].zone <= disk.serial /\ task[t].notified <= disk.serial /\ task[t].observed <= secondary

TaskSound(t) == Locked(t) /\ Stored(t) /\ CopySound(t) /\ (~running => task[t] = Idle)

DevInv == DevTypes /\ ImageSound /\ RunsAhead /\ RowSound /\ \A t \in Tasks : TaskSound(t)

-----------------------------------------------------------------------------
\* The types of the constants the state is reset to.
LEMMA ConstantTypes == Idle \in TaskStates /\ Empty \in Stores
BY DevServerAssumption, SMTT(30) DEF Idle, TaskStates, Steps, Empty, Stores

\* Boot: restoring the image, or beginning with a fresh zone.
LEMMA BootKeeps ==
    ASSUME DevInv, Boot PROVE DevInv'
<1> USE DevServerAssumption
<1> USE DEF DevInv, Tasks
<1>1. DevTypes'
    BY DEF DevTypes, Stores, TaskStates, Steps, Boot, Empty, Idle
<1>2. ImageSound' /\ RunsAhead' /\ RowSound'
    BY DEF DevTypes, Stores, TaskStates, Steps, ImageSound, RunsAhead, RowSound, TaskSound,
       Locked, Stored, CopySound, Boot, Empty, Idle
<1>3. ASSUME NEW u \in Tasks PROVE TaskSound(u)'
    BY <1>3, SMTT(30) DEF DevTypes, Stores, TaskStates, Steps, ImageSound, RunsAhead, RowSound,
       TaskSound, Locked, Stored, CopySound, Boot, Empty, Idle
<1> QED BY <1>1, <1>2, <1>3, Zenon

\* Crash: losing everything but the image.
LEMMA CrashKeeps ==
    ASSUME DevInv, Crash PROVE DevInv'
<1> USE DevServerAssumption
<1> USE DEF DevInv, Tasks
<1>1. DevTypes'
  <2>1. snapshot' \in 0..LastSerial
      BY SMTT(30) DEF Crash
  <2>2. task' \in [Tasks -> TaskStates] /\ db' \in Stores
      BY ConstantTypes, Zenon DEF Crash
  <2> QED BY <2>1, <2>2, ZenonT(40) DEF DevTypes, Crash
<1>2. ImageSound' /\ RunsAhead' /\ RowSound'
    BY SMTT(30) DEF DevTypes, Stores, TaskStates, Steps, ImageSound, RunsAhead, RowSound, TaskSound,
       Locked, Stored, CopySound, Crash, Empty, Idle
<1>3. ASSUME NEW u \in Tasks PROVE TaskSound(u)'
    BY <1>3, SMTT(30) DEF DevTypes, Stores, TaskStates, Steps, ImageSound, RunsAhead, RowSound,
       TaskSound, Locked, Stored, CopySound, Crash, Empty, Idle
<1> QED BY <1>1, <1>2, <1>3, Zenon

\* Transfer: the secondary takes the published zone.
LEMMA TransferKeeps ==
    ASSUME DevInv, Transfer PROVE DevInv'
<1> USE DevServerAssumption
<1> USE DEF DevInv, Tasks
<1>1. DevTypes'
    BY ZenonT(40) DEF DevTypes, Stores, TaskStates, Steps, Transfer
<1>2. ImageSound' /\ RunsAhead' /\ RowSound'
    BY SMTT(30) DEF DevTypes, Stores, TaskStates, Steps, ImageSound, RunsAhead, RowSound, TaskSound,
       Locked, Stored, CopySound, Transfer
<1>3. ASSUME NEW u \in Tasks PROVE TaskSound(u)'
    BY <1>3, SMTT(30) DEF DevTypes, Stores, TaskStates, Steps, ImageSound, RunsAhead, RowSound,
       TaskSound, Locked, Stored, CopySound, Transfer
<1> QED BY <1>1, <1>2, <1>3, ZenonT(40)

\* Begin: the lock is taken and the transaction begun.
LEMMA BeginKeeps ==
    ASSUME DevInv, NEW t \in Tasks, Begin(t) PROVE DevInv'
<1> USE DevServerAssumption
<1> USE DEF DevInv, Tasks
<1>1. DevTypes'
  <2>1. [Idle EXCEPT !.step = "open"] \in TaskStates
      BY ConstantTypes, Zenon DEF TaskStates, Steps
  <2> QED BY <2>1, Zenon DEF DevTypes, Begin
<1>2. ImageSound' /\ RunsAhead' /\ RowSound'
    BY Zenon DEF DevTypes, Stores, TaskStates, Steps, ImageSound, RunsAhead, RowSound, TaskSound,
       Locked, Stored, CopySound, Begin, At, Idle
<1>3. ASSUME NEW u \in Tasks PROVE TaskSound(u)'
    BY <1>3, SMTT(30) DEF DevTypes, Stores, TaskStates, Steps, ImageSound, RunsAhead, RowSound,
       TaskSound, Locked, Stored, CopySound, Begin, At, Idle
<1> QED BY <1>1, <1>2, <1>3, Zenon

\* Refuse: the transaction is dropped.
LEMMA RefuseKeeps ==
    ASSUME DevInv, NEW t \in Tasks, Refuse(t) PROVE DevInv'
<1> USE DevServerAssumption
<1> USE DEF DevInv, Tasks
<1>1. DevTypes'
    BY SMTT(30) DEF DevTypes, Stores, TaskStates, Steps, Refuse, At, Idle
<1>2. ImageSound' /\ RunsAhead' /\ RowSound'
    BY Zenon DEF DevTypes, Stores, TaskStates, Steps, ImageSound, RunsAhead, RowSound, TaskSound,
       Locked, Stored, CopySound, Refuse, At, Idle
<1>3. ASSUME NEW u \in Tasks PROVE TaskSound(u)'
    BY <1>3, SMTT(30) DEF DevTypes, Stores, TaskStates, Steps, ImageSound, RunsAhead, RowSound,
       TaskSound, Locked, Stored, CopySound, Refuse, At, Idle
<1> QED BY <1>1, <1>2, <1>3, ZenonT(40)

\* Save: the image is the store.
LEMMA SaveKeeps ==
    ASSUME DevInv, NEW t \in Tasks, Save(t) PROVE DevInv'
<1> USE DevServerAssumption
<1> USE DEF DevInv, Tasks
<1>1. DevTypes'
    BY DEF DevTypes, Stores, TaskStates, Steps, Save, At, Moves
<1>2. ImageSound' /\ RunsAhead' /\ RowSound'
    BY DEF DevTypes, Stores, TaskStates, Steps, ImageSound, RunsAhead, RowSound, TaskSound,
       Locked, Stored, CopySound, Save, At, Moves
<1>3. ASSUME NEW u \in Tasks PROVE TaskSound(u)'
    BY <1>3, SMTT(30) DEF DevTypes, Stores, TaskStates, Steps, ImageSound, RunsAhead, RowSound,
       TaskSound, Locked, Stored, CopySound, Save, At, Moves
<1> QED BY <1>1, <1>2, <1>3, Zenon

\* SaveFails: the image is the old or the new one, and is not published.
LEMMA SaveFailsKeeps ==
    ASSUME DevInv, NEW t \in Tasks, SaveFails(t) PROVE DevInv'
<1> USE DevServerAssumption
<1> USE DEF DevInv, Tasks
<1>1. DevTypes'
    BY DEF DevTypes, Stores, TaskStates, Steps, SaveFails, At, Idle
<1>2. ImageSound' /\ RunsAhead' /\ RowSound'
    BY DEF DevTypes, Stores, TaskStates, Steps, ImageSound, RunsAhead, RowSound, TaskSound,
       Locked, Stored, CopySound, SaveFails, At, Idle
<1>3. ASSUME NEW u \in Tasks PROVE TaskSound(u)'
    BY <1>3, SMTT(30) DEF DevTypes, Stores, TaskStates, Steps, ImageSound, RunsAhead, RowSound,
       TaskSound, Locked, Stored, CopySound, SaveFails, At, Idle
<1> QED BY <1>1, <1>2, <1>3, Zenon

\* Publish: what is published was saved under the same lock.
LEMMA PublishKeeps ==
    ASSUME DevInv, NEW t \in Tasks, Publish(t) PROVE DevInv'
<1> USE DevServerAssumption
<1> USE DEF DevInv, Tasks
<1>1. DevTypes'
  <2>1. task[t] \in TaskStates /\ db \in Stores
      BY Zenon DEF DevTypes
  <2>2. [task[t] EXCEPT !.step = "released"] \in TaskStates
      BY <2>1, Zenon DEF TaskStates, Steps
  <2>3. db.serial \in 0..LastSerial /\ db.results \subseteq Posts
      BY <2>1, Zenon DEF Stores
  <2>4. task' \in [Tasks -> TaskStates]
      BY <2>2, ConstantTypes, Zenon DEF DevTypes, Publish, Moves
  <2>5. answered' \subseteq Posts
      BY <2>3, Zenon DEF DevTypes, Publish
  <2> QED BY <2>3, <2>4, <2>5, ZenonT(40) DEF DevTypes, Publish
<1>2. ImageSound' /\ RunsAhead' /\ RowSound'
    BY Zenon DEF DevTypes, Stores, TaskStates, Steps, ImageSound, RunsAhead, RowSound, TaskSound,
       Locked, Stored, CopySound, Publish, At, Moves, Idle
<1>3. ASSUME NEW u \in Tasks PROVE TaskSound(u)'
    BY <1>3, SMTT(30) DEF DevTypes, Stores, TaskStates, Steps, ImageSound, RunsAhead, RowSound,
       TaskSound, Locked, Stored, CopySound, Publish, At, Moves, Idle
<1> QED BY <1>1, <1>2, <1>3, ZenonT(40)

\* ReadRow: the copy is true when it is read.
LEMMA ReadRowKeeps ==
    ASSUME DevInv, NEW t \in Tasks, ReadRow(t) PROVE DevInv'
<1> USE DevServerAssumption
<1> USE DEF DevInv, Tasks
<1>1. DevTypes'
  <2>1. task[t] \in TaskStates /\ db \in Stores /\ snapshot \in 0..LastSerial
      BY Zenon DEF DevTypes
  <2>2. [task[t] EXCEPT !.step = "asked", !.zone = snapshot, !.notified = db.notified,
                        !.observed = db.observed] \in TaskStates
      BY <2>1, Zenon DEF TaskStates, Steps, Stores
  <2> QED BY <2>2, Zenon DEF DevTypes, ReadRow
<1>2. ImageSound' /\ RunsAhead' /\ RowSound'
    BY Zenon DEF DevTypes, Stores, TaskStates, Steps, ImageSound, RunsAhead, RowSound, TaskSound,
       Locked, Stored, CopySound, ReadRow, At
<1>3. ASSUME NEW u \in Tasks PROVE TaskSound(u)'
    BY <1>3 DEF DevTypes, Stores, TaskStates, Steps, ImageSound, RunsAhead, RowSound,
       TaskSound, Locked, Stored, CopySound, ReadRow, At
<1> QED BY <1>1, <1>2, <1>3, Zenon

\* StoreRow: the lock is free, so no transaction is open.
LEMMA StoreRowKeeps ==
    ASSUME DevInv, NEW t \in Tasks, StoreRow(t) PROVE DevInv'
<1> USE DevServerAssumption
<1> USE DEF DevInv, Tasks
<1>1. DevTypes'
  <2>1. \A u \in Tasks : [task[u] EXCEPT !.current = task[u].step # "open"] \in TaskStates
      BY ZenonT(40) DEF DevTypes, TaskStates
  <2>2. task' \in [Tasks -> TaskStates]
      BY <2>1, ConstantTypes, Zenon DEF StoreRow, Superseded
  <2>3. task[t] \in TaskStates /\ db \in Stores
      BY Zenon DEF DevTypes
  <2>4. db' \in Stores
      BY <2>3, Zenon DEF StoreRow, Stores, TaskStates
  <2>5. answered' \subseteq Posts
      BY Zenon DEF DevTypes, StoreRow
  <2> QED BY <2>2, <2>4, <2>5, Zenon DEF DevTypes, StoreRow
<1>2. ImageSound' /\ RunsAhead' /\ RowSound'
    BY DEF DevTypes, Stores, TaskStates, Steps, ImageSound, RunsAhead, RowSound, TaskSound,
       Locked, Stored, CopySound, StoreRow, At, Superseded, Idle
<1>3. ASSUME NEW u \in Tasks PROVE TaskSound(u)'
    BY <1>3, SMTT(30) DEF DevTypes, Stores, TaskStates, Steps, ImageSound, RunsAhead, RowSound,
       TaskSound, Locked, Stored, CopySound, StoreRow, At, Superseded, Idle
<1> QED BY <1>1, <1>2, <1>3, Zenon

\* Commit: nothing was committed since the transaction began.
LEMMA CommitKeeps ==
    ASSUME DevInv, NEW t \in Tasks, NEW changed \in BOOLEAN, Commit(t, changed) PROVE DevInv'
<1> USE DevServerAssumption
<1> USE DEF DevInv, Tasks
<1>a. task[t].current /\ mutation = t
    BY Zenon DEF TaskSound, Locked, Commit, At
<1>b. /\ db' = Writes(t, changed)
      /\ task' = Superseded(t, [task[t] EXCEPT !.step = "committed", !.changed = changed])
      /\ UNCHANGED <<running, mutation, disk, snapshot, secondary, answered>>
    BY <1>a, Zenon DEF Commit
<1>c. /\ db'.results = db.results \/ db'.results = db.results \cup ({t} \ {Timer})
      /\ db'.serial \in 0..LastSerial /\ db.serial <= db'.serial
      /\ db'.notified = db.notified /\ db'.observed = db.observed
      /\ db' \in Stores
      /\ changed /\ t \in Posts => t \in db'.results
  <2>1. db \in Stores /\ (changed => db.serial < LastSerial)
      BY Zenon DEF DevTypes, Commit
  <2>2. CASE changed
    <3>1. db' = [db EXCEPT !.serial = db.serial + 1, !.results = db.results \cup ({t} \ {Timer})]
        BY <1>b, <2>2, Zenon DEF Writes
    <3>2. db.results \cup ({t} \ {Timer}) \in SUBSET Posts /\ db.serial + 1 \in 0..LastSerial
        BY <2>1, <2>2, SMTT(30) DEF Stores
    <3>3. db' \in Stores
        BY <2>1, <3>1, <3>2, Zenon DEF Stores
    <3> QED BY <2>1, <3>1, <3>2, <3>3 DEF Stores
  <2>3. CASE ~changed
      BY <1>b, <2>1, <2>3, SMTT(30) DEF Writes, Stores
  <2> QED BY <2>2, <2>3, Zenon
<1>1. DevTypes'
  <2>1. \A u \in Tasks : [task[u] EXCEPT !.current = task[u].step # "open"] \in TaskStates
      BY Zenon DEF DevTypes, TaskStates
  <2>2. [task[t] EXCEPT !.step = "committed", !.changed = changed] \in TaskStates
    <3>1. task[t] \in TaskStates
        BY Zenon DEF DevTypes
    <3>2. CASE changed
        BY <3>1, <3>2, Zenon DEF TaskStates, Steps
    <3>3. CASE ~changed
        BY <3>1, <3>3, ZenonT(40) DEF TaskStates, Steps
    <3> QED BY <3>2, <3>3, Zenon
  <2>3. task' \in [Tasks -> TaskStates]
      BY <1>b, <2>1, <2>2, Zenon DEF Superseded
  <2> QED BY <1>b, <1>c, <2>3, Zenon DEF DevTypes
<1>2. ImageSound' /\ RunsAhead' /\ RowSound'
    BY <1>b, <1>c DEF DevTypes, Stores, ImageSound, RunsAhead, RowSound
<1>3. ASSUME NEW u \in Tasks PROVE TaskSound(u)'
  <2>1. CASE u = t
    <3>1. task'[t] = [task[t] EXCEPT !.step = "committed", !.changed = changed] /\ running
        BY <1>b, Zenon DEF Superseded, Commit, At
    <3>2. task[t] \in TaskStates
        BY Zenon DEF DevTypes
    <3>3. /\ task'[t].step = "committed" /\ (task'[t].changed <=> changed)
          /\ task'[t].zone = task[t].zone /\ task'[t].notified = task[t].notified
          /\ task'[t].observed = task[t].observed
        BY <3>1, <3>2, Zenon DEF TaskStates
    <3> QED BY <1>a, <1>b, <1>c, <2>1, <3>1, <3>3, Zenon DEF TaskSound, Locked, Stored, CopySound
  <2>2. CASE u # t
    <3>1. /\ task[u].step \notin {"open", "committed", "saved"}
          /\ task'[u] = [task[u] EXCEPT !.current = task[u].step # "open"]
        BY <1>3, <1>a, <1>b, <2>2, Zenon DEF Superseded, TaskSound, Locked
    <3> QED BY <1>3, <1>b, <1>c, <3>1 DEF DevTypes, TaskStates, Commit, At, TaskSound, Locked, Stored,
               CopySound
  <2> QED BY <2>1, <2>2, Zenon
<1> QED BY <1>1, <1>2, <1>3, Zenon

\* Exchange: what the secondary says is true.
LEMMA ExchangeKeeps ==
    ASSUME DevInv, NEW t \in Tasks, NEW acknowledged \in BOOLEAN, NEW answers \in BOOLEAN, Exchange(t, acknowledged, answers) PROVE DevInv'
<1> USE DevServerAssumption
<1> USE DEF DevInv, Tasks
<1>1. DevTypes'
  <2>1. task[t] \in TaskStates /\ secondary \in 0..LastSerial
      BY Zenon DEF DevTypes
  <2>2. [Idle EXCEPT !.step = "heard",
                     !.notified = IF acknowledged THEN task[t].zone ELSE task[t].notified,
                     !.observed = IF answers THEN secondary ELSE task[t].observed]
           \in TaskStates
      BY <2>1, ConstantTypes, ZenonT(40) DEF TaskStates, Steps
  <2> QED BY <2>2, Zenon DEF DevTypes, Exchange
<1>2. ImageSound' /\ RunsAhead' /\ RowSound'
    BY Zenon DEF DevTypes, Stores, TaskStates, Steps, ImageSound, RunsAhead, RowSound, TaskSound,
       Locked, Stored, CopySound, Exchange, At, Idle
<1>3. ASSUME NEW u \in Tasks PROVE TaskSound(u)'
    BY <1>3 DEF DevTypes, Stores, TaskStates, Steps, ImageSound, RunsAhead, RowSound,
       TaskSound, Locked, Stored, CopySound, Exchange, At, Idle
<1> QED BY <1>1, <1>2, <1>3, Zenon

\* Disconnect: the handler and its lock go.
LEMMA DisconnectKeeps ==
    ASSUME DevInv, NEW r \in Posts, Disconnect(r) PROVE DevInv'
<1> USE DevServerAssumption
<1> USE DEF DevInv, Tasks
<1>1. DevTypes'
    BY SMTT(30) DEF DevTypes, Stores, TaskStates, Steps, Disconnect, Idle
<1>2. ImageSound' /\ RunsAhead' /\ RowSound'
    BY Zenon DEF DevTypes, Stores, TaskStates, Steps, ImageSound, RunsAhead, RowSound, TaskSound,
       Locked, Stored, CopySound, Disconnect, Idle
<1>3. ASSUME NEW u \in Tasks PROVE TaskSound(u)'
    BY <1>3, SMTT(30) DEF DevTypes, Stores, TaskStates, Steps, ImageSound, RunsAhead, RowSound,
       TaskSound, Locked, Stored, CopySound, Disconnect, Idle
<1> QED BY <1>1, <1>2, <1>3, Zenon

\* A server that was never started has promised nothing.
LEMMA DevInitSound == DevInit => DevInv
<1> SUFFICES ASSUME DevInit PROVE DevInv BY Zenon
<1> USE DevServerAssumption, ConstantTypes
<1>1. DevTypes
  <2>1. snapshot \in 0..LastSerial /\ secondary \in 0..LastSerial
      BY DEF DevInit
  <2>2. task \in [Tasks -> TaskStates] /\ db \in Stores /\ disk \in Stores
      BY Zenon DEF DevInit
  <2> QED BY <2>1, <2>2, ZenonT(40) DEF DevInit, DevTypes
<1>2. ImageSound /\ RunsAhead /\ RowSound
    BY SMTT(30) DEF DevInit, ImageSound, RunsAhead, RowSound, Empty
<1>3. \A t \in Tasks : TaskSound(t)
    BY SMTT(30) DEF DevInit, TaskSound, Locked, Stored, CopySound, Idle, Empty
<1> QED BY <1>1, <1>2, <1>3, Zenon DEF DevInv

\* Every step keeps the invariant.
LEMMA DevStepSound == DevInv /\ [DevNext]_devVars => DevInv'
<1> SUFFICES ASSUME DevInv, [DevNext]_devVars PROVE DevInv' BY Zenon
<1>1. CASE UNCHANGED devVars
    BY <1>1, ZenonT(40) DEF devVars, DevInv, DevTypes, ImageSound, RunsAhead, RowSound, TaskSound, Locked, Stored,
       CopySound
<1>2. CASE DevNext
    BY <1>2, BootKeeps, CrashKeeps, TransferKeeps, BeginKeeps, RefuseKeeps, SaveKeeps,
       SaveFailsKeeps, PublishKeeps, ReadRowKeeps, StoreRowKeeps, CommitKeeps, ExchangeKeeps,
       DisconnectKeeps, ZenonT(40) DEF DevNext
<1> QED BY <1>1, <1>2, Zenon

\* Over every crash, failed save and lost client: what was answered is kept, the
\* secondary is never ahead of the saved zone, commits never conflict, and the
\* secondary's row is true (adns-dev's http, timer and notify_and_observe).
THEOREM DevServerCorrect == DevSpec => []DevServerSound
<1>1. DevInv => DevServerSound
    BY ZenonT(40) DEF DevInv, DevServerSound, AnswersDurable, NeverAheadOfDisk, NoConflict, RowTrue, ImageSound,
       RunsAhead, RowSound, TaskSound, Locked
<1> QED BY <1>1, DevInitSound, DevStepSound, PTL DEF DevSpec

-----------------------------------------------------------------------------
(* TraceExport: the exporter's settings, and what it sends.                *)

\* What TraceConfined rests on: an exporter that runs has accepted its settings,
\* and its environment has every setting that was given.
Reviewed == {Template(r) : r \in {q \in Requests : LoadOtelSettings(q)}}
Node == {NoEnv, [socket |-> "spans.sock"]}
TraceInv ==
    /\ node_env \in Node
    /\ given.by = "template" => given.env \in Reviewed
    /\ given.by = "disabled" => Disabled(given.env)
    /\ driver.exporter \in {"none", "starting", "on", "off"}
    /\ driver.exporter # "none" => /\ given.by # "none"
                                   /\ \E n \in Node : driver.env = Joined(n, given.env)
    /\ driver.exporter = "on" => Initialized(driver.env)
    /\ driver.exporter = "off" => ~Initialized(driver.env)
    /\ driver.exporter # "on" \/ given.by = "disabled" => sent = {}
    /\ \A b \in sent : /\ b.headers # "none" => b.to.scheme = "https"
                       /\ b.to.scheme = "http" => b.to.host = "loopback"
    /\ Cardinality(span) <= MaxAttributes /\ \A a \in span : a.fits /\ a.key # "other"

\* The first of two joined environments wins.
LEMMA JoinedFacts ==
    ASSUME NEW f, NEW g
    PROVE  /\ DOMAIN Joined(f, g) = DOMAIN f \cup DOMAIN g
           /\ \A x \in DOMAIN f : Joined(f, g)[x] = f[x]
           /\ \A x \in DOMAIN g \ DOMAIN f : Joined(f, g)[x] = g[x]
BY Zenon DEF Joined

\* The environment of a node names at most the socket.
LEMMA NodeFacts == \A n \in Node : DOMAIN n \subseteq {"socket"}
<1>1. DOMAIN NoEnv = {}
    BY Zenon DEF NoEnv
<1>2. DOMAIN [socket |-> "spans.sock"] = {"socket"}
    BY Zenon
<1> QED BY <1>1, <1>2, Zenon DEF Node

\* What the deployment template sets for an exporter.
LEMMA TemplateFacts ==
    ASSUME NEW r \in Requests
    PROVE  /\ DOMAIN Template(r) = {"endpoint", "protocol", "certificate", "attributes", "headers"}
           /\ Template(r)["endpoint"] = r.endpoint /\ Template(r)["protocol"] = "http/protobuf"
           /\ Template(r)["certificate"] = "public" /\ Template(r)["attributes"] = r.label
           /\ Template(r)["headers"] = r.header
<1> DEFINE e == OtelEnvironment(r.endpoint, r.label)
           h == [headers |-> r.header]
<1>1. DOMAIN e = {"endpoint", "protocol", "certificate", "attributes"} /\ DOMAIN h = {"headers"}
    BY Zenon DEF OtelEnvironment
<1>2. /\ e["endpoint"] = r.endpoint /\ e["protocol"] = "http/protobuf"
      /\ e["certificate"] = "public" /\ e["attributes"] = r.label /\ h["headers"] = r.header
    BY Zenon DEF OtelEnvironment
<1>3. Template(r) = Joined(e, h)
    BY Zenon DEF Template
<1> HIDE DEF e, h
<1>4. /\ DOMAIN Joined(e, h) = DOMAIN e \cup DOMAIN h
      /\ \A x \in DOMAIN e : Joined(e, h)[x] = e[x]
      /\ \A x \in DOMAIN h \ DOMAIN e : Joined(e, h)[x] = h[x]
    BY JoinedFacts, ZenonT(40)
<1> QED BY <1>1, <1>2, <1>3, <1>4, Zenon

\* The socket of the node's spans is no setting of the exporter.
LEMMA SettingsReachTheDriver ==
    ASSUME NEW n \in Node, NEW g, NEW name \in {"endpoint", "headers", "certificate", "protocol"}, NEW default
    PROVE  Setting(Joined(n, g), name, default) = Setting(g, name, default)
<1>1. ForTraces[name] # "socket" /\ name # "socket"
    BY SMTT(30) DEF ForTraces
<1>2. \A x : x # "socket" => /\ x \in DOMAIN Joined(n, g) <=> x \in DOMAIN g
                             /\ x \in DOMAIN g => Joined(n, g)[x] = g[x]
  <2>1. /\ DOMAIN Joined(n, g) = DOMAIN n \cup DOMAIN g
        /\ \A x \in DOMAIN g \ DOMAIN n : Joined(n, g)[x] = g[x]
      BY JoinedFacts, ZenonT(40)
  <2> QED BY <2>1, NodeFacts, Zenon
<1> QED BY <1>1, <1>2 DEF Setting

\* What the builder and the checker let pass, the driver's own check accepts.
LEMMA ReviewedIsAccepted ==
    ASSUME NEW n \in Node, NEW env \in Reviewed PROVE Initialized(Joined(n, env))
<1> DEFINE d == Joined(n, env)
<1>1. PICK r \in Requests : LoadOtelSettings(r) /\ env = Template(r)
    BY Zenon DEF Reviewed
<1>2. /\ DOMAIN env = {"endpoint", "protocol", "certificate", "attributes", "headers"}
      /\ env["endpoint"] = r.endpoint /\ env["protocol"] = "http/protobuf"
      /\ env["certificate"] = "public" /\ env["attributes"] = r.label
      /\ env["headers"] = r.header
    BY <1>1, TemplateFacts, Zenon
<1>3. /\ ForTraces["endpoint"] = "traces_endpoint" /\ ForTraces["headers"] = "traces_headers"
      /\ ForTraces["certificate"] = "traces_certificate" /\ ForTraces["protocol"] = "traces_protocol"
    BY Zenon DEF ForTraces
<1>4. /\ Setting(env, "endpoint", Loopback) = r.endpoint
      /\ Setting(env, "headers", "none") = r.header
      /\ Setting(env, "certificate", "none") = "public"
      /\ Setting(env, "protocol", "http/protobuf") = "http/protobuf"
    BY <1>2, <1>3, Zenon DEF Setting
<1>5. /\ Setting(d, "endpoint", Loopback) = r.endpoint
      /\ Setting(d, "headers", "none") = r.header
      /\ Setting(d, "certificate", "none") = "public"
      /\ Setting(d, "protocol", "http/protobuf") = "http/protobuf"
    BY <1>4, SettingsReachTheDriver, SMTT(30)
<1>6. /\ DOMAIN d = DOMAIN n \cup DOMAIN env
      /\ \A x \in DOMAIN env \ DOMAIN n : d[x] = env[x]
    BY JoinedFacts, ZenonT(40)
<1>7. "traces_endpoint" \notin DOMAIN d /\ "disabled" \notin DOMAIN d /\ d["attributes"] = r.label
    BY <1>2, <1>6, NodeFacts, Zenon
<1> HIDE DEF d
<1>8. TraceEndpoint(d) = Appended(r.endpoint)
    BY <1>5, <1>7, Zenon DEF TraceEndpoint
<1>9. /\ r.endpoint \in Endpoints /\ r.endpoint.scheme = "https" /\ r.endpoint.path \in {"", "gateway"}
      /\ r.label = "three" /\ r.header = "authorization"
    BY <1>1, Zenon DEF LoadOtelSettings, ValidEndpoint, Requests
<1>10. Appended(r.endpoint).path \in {"traces", "gateway_traces"} /\ Appended(r.endpoint).scheme = "https"
    BY <1>9, Zenon DEF Appended, Endpoints
<1>11. ValidTraceEndpoint(TraceEndpoint(d)) /\ TraceEndpoint(d).scheme = "https"
    BY <1>8, <1>10, Zenon DEF ValidTraceEndpoint
<1>12. ExportConfiguration(d)
    BY <1>5, <1>9, <1>11, ZenonT(40) DEF ExportConfiguration, ConfiguredPairs
<1>13. Initialized(d)
    BY <1>7, <1>9, <1>12, Zenon DEF Initialized, Disabled, ResourceAttributes
<1> QED BY <1>13, Zenon DEF d

\* An environment that disables telemetry starts no exporter.
LEMMA DisabledStaysOff ==
    ASSUME NEW n \in Node, NEW env, Disabled(env) PROVE ~Initialized(Joined(n, env))
<1>1. "disabled" \in DOMAIN Joined(n, env)
    BY JoinedFacts, ZenonT(40) DEF Disabled
<1> QED BY <1>1, Zenon DEF Initialized, Disabled

\* Every step keeps the invariant of the trace exporter.
LEMMA TraceStep == TraceInv /\ [TraceNext]_traceVars => TraceInv'
<1> SUFFICES ASSUME TraceInv, [TraceNext]_traceVars PROVE TraceInv'
    BY Zenon
<1> USE TraceAssumption
<1>1. CASE UNCHANGED traceVars
    BY <1>1, ZenonT(40) DEF traceVars, TraceInv
<1>2. ASSUME NEW r \in Requests, given.by = "none", DeployTemplate(r) PROVE TraceInv'
  <2>1. given' = [by |-> "template", env |-> Template(r)] /\ LoadOtelSettings(r)
        /\ UNCHANGED <<node_env, driver, sent, span>>
      BY <1>2, Zenon DEF DeployTemplate
  <2>2. Template(r) \in Reviewed
      BY <2>1, Zenon DEF Reviewed
  <2>3. driver.exporter = "none"
      BY <1>2, Zenon DEF TraceInv
  <2>4. given'.by = "template" /\ given'.env = Template(r)
      BY <2>1, Zenon
  <2> QED BY <2>1, <2>2, <2>3, <2>4, ZenonT(40) DEF TraceInv
<1>3. CASE given.by = "none" /\ DeployDisabled
  <2>1. given' = [by |-> "disabled", env |-> [disabled |-> "true"]]
        /\ UNCHANGED <<node_env, driver, sent, span>>
      BY <1>3, Zenon DEF DeployDisabled
  <2>2. given'.by = "disabled" /\ given'.env = [disabled |-> "true"]
      BY <2>1, Zenon
  <2>3. "disabled" \in DOMAIN given'.env
      BY <2>2, SMTT(30)
  <2>4. driver.exporter = "none" /\ given.by # "template"
      BY <1>3, ZenonT(40) DEF TraceInv
  <2> QED BY <2>1, <2>2, <2>3, <2>4, Zenon DEF TraceInv, Disabled
<1>4. ASSUME NEW env \in Direct, given.by = "none", RunContainerWith(env) PROVE TraceInv'
  <2>1. given' = [by |-> "operator", env |-> env] /\ UNCHANGED <<node_env, driver, sent, span>>
      BY <1>4, Zenon DEF RunContainerWith
  <2>2. given'.by = "operator" /\ driver.exporter = "none"
      BY <1>4, <2>1, ZenonT(40) DEF TraceInv
  <2> QED BY <2>1, <2>2, Zenon DEF TraceInv
<1>5. CASE TelemetryEnvironments
  <2>1. /\ given.by # "none" /\ driver.exporter = "none" /\ node_env' \in Node /\ UNCHANGED <<given, sent, span>>
        /\ driver' = [env |-> Joined(node_env', given.env), exporter |-> "starting"]
      BY <1>5, Zenon DEF TelemetryEnvironments, Node
  <2>2. driver'.exporter = "starting" /\ driver'.env = Joined(node_env', given.env)
      BY <2>1, Zenon
  <2> QED BY <2>1, <2>2, Zenon DEF TraceInv
<1>6. CASE DriverInitializes
  <2>1. /\ driver.exporter = "starting" /\ UNCHANGED <<given, node_env, sent, span>>
        /\ driver' = [driver EXCEPT !.exporter = IF Initialized(driver.env) THEN "on" ELSE "off"]
      BY <1>6, Zenon DEF DriverInitializes
  <2> QED BY <2>1 DEF TraceInv
<1>7. ASSUME NEW url \in Endpoints, PostBatch(url) PROVE TraceInv'
  <2>1. /\ driver.exporter = "on" /\ url = TraceEndpoint(driver.env) /\ UNCHANGED <<given, node_env, driver, span>>
        /\ sent' = sent \cup {[to |-> url, headers |-> ConfiguredPairs(driver.env)]}
      BY <1>7, Zenon DEF PostBatch
  <2>2. Initialized(driver.env)
      BY <2>1, Zenon DEF TraceInv
  <2>3. given.by # "disabled"
      BY <2>1, <2>2, DisabledStaysOff, Zenon DEF TraceInv
  <2>4. /\ ConfiguredPairs(driver.env) # "none" => url.scheme = "https"
        /\ url.scheme = "http" => url.host = "loopback"
      BY <2>1, <2>2, Zenon DEF Initialized, ExportConfiguration, ValidTraceEndpoint
  <2>5. \A b \in sent' : /\ b.headers # "none" => b.to.scheme = "https"
                         /\ b.to.scheme = "http" => b.to.host = "loopback"
      BY <2>1, <2>4, SMTT(30) DEF TraceInv
  <2> QED BY <2>1, <2>3, <2>5, Zenon DEF TraceInv
<1>8. ASSUME NEW values \in AttributeMaps, DriverSpan(values) PROVE TraceInv'
  <2>1. span' \in DriverAttributes(values) /\ UNCHANGED <<given, node_env, driver, sent>>
      BY <1>8, Zenon DEF DriverSpan
  <2>2. Cardinality(span') <= MaxAttributes /\ \A a \in span' : a.fits /\ a.key # "other"
    <3> DEFINE valid == {a \in values : a.fits /\ a.key \in {"shared", "driver"}}
    <3>1. span' \subseteq valid /\ IF Cardinality(valid) <= MaxAttributes THEN span' = valid
                                                          ELSE Cardinality(span') = MaxAttributes
        BY <2>1, Zenon DEF DriverAttributes
    <3>2. Cardinality(span') <= MaxAttributes
        BY <3>1, SMTT(30)
    <3> QED BY <3>1, <3>2, Zenon
  <2> QED BY <2>1, <2>2, Zenon DEF TraceInv
<1>9. ASSUME NEW values \in AttributeMaps, NativeDatagram(values) PROVE TraceInv'
  <2>1. NativeAttributes(values) /\ span' = values /\ UNCHANGED <<given, node_env, driver, sent>>
      BY <1>9, Zenon DEF NativeDatagram
  <2>2. Cardinality(span') <= MaxAttributes /\ \A a \in span' : a.fits /\ a.key # "other"
      BY <2>1, Zenon DEF NativeAttributes
  <2> QED BY <2>1, <2>2, Zenon DEF TraceInv
<1> QED BY <1>1, <1>2, <1>3, <1>4, <1>5, <1>6, <1>7, <1>8, <1>9, Zenon DEF TraceNext

\* The empty set counts zero, from the definition of Cardinality: a span starts without attributes.
LEMMA EmptyCount == Cardinality({}) = 0
<1> DEFINE D(f) == [T \in SUBSET {} |-> IF T = {} THEN 0 ELSE 1 + f[T \ {CHOOSE x : x \in T}]]
           f == CHOOSE f : f = D(f)
<1>1. \E g : g = D(g)
  <2> DEFINE g == [T \in SUBSET {} |-> 0]
  <2>1. D(g) = g
      BY Zenon
  <2> QED BY <2>1, Zenon
<1>2. f = D(f)
    BY <1>1, Zenon
<1>3. D(f)[{}] = 0
    BY Zenon
<1>4. Cardinality({}) = f[{}]
    BY Zenon DEF Cardinality
<1>5. f[{}] = D(f)[{}]
    BY <1>2, Zenon
<1> HIDE DEF f, D
<1> QED BY <1>3, <1>4, <1>5, Zenon

\* The exporter's credentials stay with it, the validators agree and what is
\* exported is bounded (build_aci_template.py, run.py and ccf/telemetry.py).
THEOREM TraceExportConfined == TraceSpec => []TraceConfined
<1>1. TraceInit => TraceInv
  <2> SUFFICES ASSUME TraceInit PROVE TraceInv
      BY Zenon
  <2>1. given.by = "none" /\ driver.exporter = "none" /\ node_env \in Node /\ sent = {} /\ span = {}
      BY Zenon DEF TraceInit, Node
  <2>2. Cardinality(span) <= MaxAttributes
      BY <2>1, TraceAssumption, EmptyCount, SMTT(30)
  <2> QED BY <2>1, <2>2, Zenon DEF TraceInv
<1>2. TraceInv => TraceConfined
  <2> SUFFICES ASSUME TraceInv PROVE TraceConfined
      BY Zenon
  <2>1. given.by = "template" => driver.exporter # "off"
      BY ReviewedIsAccepted, Zenon DEF TraceInv
  <2> QED BY <2>1, NodeFacts, Zenon DEF TraceInv, TraceConfined
<1> QED BY <1>1, <1>2, TraceStep, PTL DEF TraceSpec

=============================================================================

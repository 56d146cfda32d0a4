---------------------------- MODULE KskRollover ----------------------------
(***************************************************************************)
(* The governed key-signing-key rollover: the constitution's               *)
(* adns_ksk_rollover and adns_create_zone actions, which write commands    *)
(* into the lifecycle table and keep a stage mirror of their own, and      *)
(* governed_maintenance, which drains every command inside the enclave in  *)
(* one transaction, together with the lifecycle maintenance that follows.  *)
(*                                                                         *)
(* Governance cannot read the application's state and the application does *)
(* not report back: the mirror moves when a proposal is accepted, the zone *)
(* when the command is drained.  A command the application refuses aborts  *)
(* the whole maintenance transaction and stays where it is.                *)
(*                                                                         *)
(* A key stands for its pkcs8 bytes, its DNSKEY rdata, its tag and its DS  *)
(* digest alike.  The lifecycle part of maintenance is module Lifecycle;   *)
(* here it is the set of zones it happens to re-sign.                      *)
(***************************************************************************)
EXTENDS Naturals, FiniteSets

CONSTANTS
    Zones,      \* origins governance may name
    Keys,       \* the key pairs SigningKey::generate can return
    Holds,      \* the explicit minimum_hold_seconds a proposal may carry
    MaxBaseTtl, \* the largest TTL of a zone's base records
    MinTtl,     \* the 3600 s below which the default hold does not go
    MaxTime,    \* bound on the clock
    NoKey, NoHold

ASSUME KeyAssumption == NoKey \notin Keys
ASSUME TimeAssumption == /\ MaxTime \in Nat
                         /\ MinTtl \in Nat
                         /\ MaxBaseTtl \in [Zones -> Nat]
                         /\ Holds \subseteq Nat
                         /\ NoHold \notin Nat

VARIABLES
    clock,      \* seconds, as the host's timer passes them to maintenance
    governed,   \* keys of the constitution's zone table
    mirror,     \* stage of the constitution's rollover table, per zone
    zone_rows,  \* governance/zone/<origin> rows not yet drained
    command,    \* governance/ksk-rollover/<origin> row, per zone
    zones,      \* the zones the application has
    ksk,        \* private key "ksk", per zone
    ksk_next,   \* private key "ksk-next", per zone
    rollover,   \* ZoneMetadata.ksk_rollover
    dnskeys,    \* KSKs in the signed DNSKEY RRset, which each of them signs
    generated   \* every key ever generated

govVars == <<governed, mirror>>
rowVars == <<zone_rows, command>>
appVars == <<zones, ksk, ksk_next, rollover, dnskeys, generated>>
vars == <<clock, govVars, rowVars, appVars>>

NoCommand == [command |-> "none", new_ds |-> NoKey, hold |-> NoHold]

\* What the constitution's validation lets through: a DS only with complete,
\* a hold only with start.
Commands ==
    [command : {"start"}, new_ds : {NoKey}, hold : Holds \cup {NoHold}]
        \cup [command : {"complete"}, new_ds : Keys, hold : {NoHold}]
        \cup [command : {"abort"}, new_ds : {NoKey}, hold : {NoHold}]

Stages == {"idle", "double-signature"}

NoRollover == [stage |-> "idle", next |-> NoKey, started_at |-> 0, hold |-> 0]

KskRollovers ==
    [stage : {"double-signature"}, next : Keys, started_at : Nat, hold : Nat]

\* Type invariant.
TypeOK ==
    /\ clock \in 0 .. MaxTime
    /\ governed \subseteq Zones
    /\ mirror \in [Zones -> Stages]
    /\ zone_rows \subseteq Zones
    /\ command \in [Zones -> Commands \cup {NoCommand}]
    /\ zones \subseteq Zones
    /\ ksk \in [Zones -> Keys \cup {NoKey}]
    /\ ksk_next \in [Zones -> Keys \cup {NoKey}]
    /\ rollover \in [Zones -> KskRollovers \cup {NoRollover}]
    /\ dnskeys \in [Zones -> SUBSET Keys]
    /\ generated \subseteq Keys

Init ==
    /\ clock = 0
    /\ governed = {}
    /\ mirror = [z \in Zones |-> "idle"]
    /\ zone_rows = {}
    /\ command = [z \in Zones |-> NoCommand]
    /\ zones = {}
    /\ ksk = [z \in Zones |-> NoKey]
    /\ ksk_next = [z \in Zones |-> NoKey]
    /\ rollover = [z \in Zones |-> NoRollover]
    /\ dnskeys = [z \in Zones |-> {}]
    /\ generated = {}

-----------------------------------------------------------------------------
(* Governance.                                                             *)

CreateZone(z) ==
    /\ z \notin governed
    /\ governed' = governed \cup {z}
    /\ zone_rows' = zone_rows \cup {z}
    /\ UNCHANGED <<clock, mirror, command, appVars>>

StageBefore(c) == IF c.command = "start" THEN "idle" ELSE "double-signature"
StageAfter(c) == IF c.command = "start" THEN "double-signature" ELSE "idle"

\* Faulty variant: an accepted complete or abort leaves the mirror's stage.
Propose_MirrorKept(z, c) ==
    /\ mirror[z] = StageBefore(c)
    /\ mirror' = [mirror EXCEPT ![z] = "double-signature"]
    /\ command' = [command EXCEPT ![z] = c]
    /\ UNCHANGED <<clock, governed, zone_rows, appVars>>

\* The command row is overwritten: a command not yet drained is lost.
Propose(z, c) ==
    /\ mirror[z] = StageBefore(c)
    /\ mirror' = [mirror EXCEPT ![z] = StageAfter(c)]
    /\ command' = [command EXCEPT ![z] = c]
    /\ UNCHANGED <<clock, governed, zone_rows, appVars>>

-----------------------------------------------------------------------------
(* The application.                                                        *)

Pending == {z \in Zones : command[z] # NoCommand}
Commanded(name) == {z \in Zones : command[z].command = name}

HoldElapsed(z) == clock >= rollover[z].started_at + rollover[z].hold

\* Faulty variant: completion is accepted during the hold.
Accepts_NoHold(z) ==
    /\ z \in zones \cup zone_rows
    /\ command[z].command = "start" => rollover[z] = NoRollover
    /\ command[z].command = "complete" =>
          /\ rollover[z] # NoRollover
          /\ command[z].new_ds = rollover[z].next
    /\ command[z].command = "abort" => rollover[z] # NoRollover

\* apply_ksk_rollover does not refuse the zone's command.
Accepts(z) ==
    /\ z \in zones \cup zone_rows
    /\ command[z].command = "start" => rollover[z] = NoRollover
    /\ command[z].command = "complete" =>
          /\ rollover[z] # NoRollover
          /\ HoldElapsed(z)
          /\ command[z].new_ds = rollover[z].next
    /\ command[z].command = "abort" => rollover[z] # NoRollover

Larger(a, b) == IF a >= b THEN a ELSE b

HoldOf(z) ==
    IF command[z].hold = NoHold THEN 2 * Larger(MaxBaseTtl[z], MinTtl)
                                ELSE command[z].hold

\* Each of the transaction's generated keys is new: born is the KSK of every
\* zone created, next the incoming KSK of every rollover started.
Fresh(born, next) ==
    /\ \A z \in DOMAIN born : born[z] \notin generated
    /\ \A z \in DOMAIN next : next[z] \notin generated
    /\ \A y, z \in DOMAIN born : y # z => born[y] # born[z]
    /\ \A y, z \in DOMAIN next : y # z => next[y] # next[z]
    /\ \A y \in DOMAIN born, z \in DOMAIN next : born[y] # next[z]

KskAfter(born) ==
    [z \in Zones |-> IF z \in DOMAIN born THEN born[z]
                     ELSE IF z \in Commanded("complete") THEN ksk_next[z]
                     ELSE ksk[z]]

KskNextAfter(next) ==
    [z \in Zones |-> IF z \in DOMAIN next THEN next[z]
                     ELSE IF z \in Commanded("complete") \cup Commanded("abort")
                     THEN NoKey
                     ELSE ksk_next[z]]

\* Faulty variant: every maintenance run starts the hold of a rollover anew.
RolloverAfter_HoldRestarts(next) ==
    [z \in Zones |-> IF z \in DOMAIN next
                     THEN [stage |-> "double-signature", next |-> next[z],
                           started_at |-> clock, hold |-> HoldOf(z)]
                     ELSE IF z \in Commanded("complete") \cup Commanded("abort")
                             \/ rollover[z] = NoRollover
                     THEN NoRollover
                     ELSE [rollover[z] EXCEPT !.started_at = clock]]

RolloverAfter(next) ==
    [z \in Zones |-> IF z \in DOMAIN next
                     THEN [stage |-> "double-signature", next |-> next[z],
                           started_at |-> clock, hold |-> HoldOf(z)]
                     ELSE IF z \in Commanded("complete") \cup Commanded("abort")
                     THEN NoRollover
                     ELSE rollover[z]]

\* Faulty variant: the DNSKEY RRset is signed with the current key alone.
Signers_CurrentOnly(z) == {ksk[z]}

\* The keys resign_zone loads: "ksk-next" only while a rollover is recorded.
Signers(z) ==
    {ksk[z]} \cup (IF rollover[z] # NoRollover THEN {ksk_next[z]} ELSE {})

\* One transaction of governed_maintenance.  Zones are created first, so a
\* start may name a zone created by the same transaction.  Every zone created
\* or commanded is re-signed, and so is whatever the lifecycle part finds due.
\* With no zone at all the lifecycle format marker is missing and the
\* transaction fails.
Maintenance ==
    /\ zones \cup zone_rows # {}
    /\ \A z \in Pending : Accepts(z)
    /\ zones' = zones \cup zone_rows
    /\ zone_rows' = {}
    /\ command' = [z \in Zones |-> NoCommand]
    /\ \E born \in [zone_rows \ zones -> Keys],
          next \in [Commanded("start") -> Keys],
          due \in SUBSET zones' :
          /\ Fresh(born, next)
          /\ generated' = generated \cup {born[z] : z \in DOMAIN born}
                                    \cup {next[z] : z \in DOMAIN next}
          /\ ksk' = KskAfter(born)
          /\ ksk_next' = KskNextAfter(next)
          /\ rollover' = RolloverAfter(next)
          /\ dnskeys' = [z \in Zones |->
                            IF z \in zone_rows \cup Pending \cup due
                            THEN Signers(z)' ELSE dnskeys[z]]
    /\ UNCHANGED <<clock, govVars>>

Tick ==
    /\ clock < MaxTime
    /\ clock' = clock + 1
    /\ UNCHANGED <<govVars, rowVars, appVars>>

\* Bound: Keys has a key left for every zone and every rollover awaited.
SpareKey ==
    Cardinality(generated) + Cardinality(zone_rows) + Cardinality(Commanded("start"))
        < Cardinality(Keys)

Next ==
    \/ \E z \in Zones : SpareKey /\ CreateZone(z)
    \/ \E z \in Zones, c \in Commands :
          (c.command = "start" => SpareKey) /\ Propose(z, c)
    \/ Maintenance
    \/ Tick

Spec == Init /\ [][Next]_vars

-----------------------------------------------------------------------------
(* Properties.                                                             *)

\* A zone's private keys, its rollover record and the DNSKEY RRset it serves
\* agree after every transaction, whatever order commands were accepted,
\* overwritten and drained in: "ksk-next" exists exactly while a rollover is
\* recorded and is the key the record names, and the RRset holds exactly the
\* keys the enclave can sign with.  Were it otherwise resign_zone would fail
\* with "DNSSEC private key" on every later maintenance.
KeysAgree ==
    \A z \in zones :
        /\ ksk[z] \in generated
        /\ rollover[z].next = ksk_next[z]
        /\ rollover[z] # NoRollover => ksk_next[z] \in generated \ {ksk[z]}
        /\ dnskeys[z] = {ksk[z], ksk_next[z]} \ {NoKey}

\* Governance's mirror is right about every zone with no command waiting: it
\* is at "double-signature" exactly when the application double-signs, even
\* after refused, overwritten and premature commands.
MirrorAgrees ==
    \A z \in zones : command[z] = NoCommand => mirror[z] = rollover[z].stage

\* The key-signing key of an existing zone changes only to the incoming key,
\* after both have been published together for the whole hold, and only when
\* the command named that key; the outgoing key leaves the RRset in that same
\* step and in no other.
OutgoingKeyOutlivesHold ==
    [][\A z \in zones :
        \/ ksk'[z] = ksk[z] /\ ksk[z] \in dnskeys'[z]
        \/ /\ dnskeys[z] = {ksk[z], ksk'[z]}
           /\ dnskeys'[z] = {ksk'[z]}
           /\ command[z].new_ds = ksk'[z]
           /\ HoldElapsed(z)]_vars

\* A key that left a zone's DNSKEY RRset never returns to one: only a key
\* generated by the very transaction is ever added.
RetiredKeysStayRetired ==
    [][\A z \in Zones : (dnskeys'[z] \ dnskeys[z]) \cap generated = {}]_vars

=============================================================================

------------------------- MODULE RolloverValidation -------------------------
(***************************************************************************)
(* The rollover seen from outside: the parent zone's DS record, which only *)
(* the domain owner changes, and a validating resolver that caches DNSKEY  *)
(* RRsets and DS records for their TTLs.  Stewards and domain owner follow *)
(* the rollover procedure of the operations guide; what they do not        *)
(* control is when maintenance drains a command, when the resolver fetches *)
(* and which hold the start proposal carried.                              *)
(***************************************************************************)
EXTENDS KskRollover

CONSTANTS
    DnskeyTtl,  \* TTL of the DNSKEY RRset: that of the zone's SOA, per zone
    DsTtl       \* TTL of the DS record at the parent

ASSUME TtlAssumption == /\ DnskeyTtl \in [Zones -> Nat]
                        /\ \A z \in Zones : DnskeyTtl[z] <= MaxBaseTtl[z]
                        /\ DsTtl \in Nat

VARIABLES
    parent,        \* the key the DS at the parent names, and since when
    cached_dnskey, \* the resolver's DNSKEY RRset and when it expires
    cached_ds      \* the resolver's DS and when it expires

validationVars == <<parent, cached_dnskey, cached_ds>>
allVars == <<vars, validationVars>>

ValidationInit ==
    /\ Init
    /\ parent = [z \in Zones |-> [key |-> NoKey, since |-> 0]]
    /\ cached_dnskey = [z \in Zones |-> [keys |-> {}, until |-> 0]]
    /\ cached_ds = [z \in Zones |-> [key |-> NoKey, until |-> 0]]

-----------------------------------------------------------------------------
(* The stewards, reading the zone's status before they propose.            *)

\* The proposal is one the procedure provides for: start when the zone is not
\* rolling; complete once the parent names the incoming key and its TTL has
\* passed; abort while double-signing, before the parent was switched.
Provided(z, c) ==
    /\ z \in zones
    /\ c.command = "start" => rollover[z] = NoRollover
    /\ c.command = "complete" =>
          /\ rollover[z] # NoRollover
          /\ c.new_ds = rollover[z].next
          /\ parent[z].key = c.new_ds
          /\ clock >= parent[z].since + DsTtl
    /\ c.command = "abort" =>
          /\ rollover[z] # NoRollover
          /\ parent[z].key # rollover[z].next

ProposeProvided(z, c) ==
    /\ Provided(z, c)
    /\ Propose(z, c)
    /\ UNCHANGED validationVars

-----------------------------------------------------------------------------
(* The domain owner.                                                       *)

\* The first DS of a zone, published once the zone is served.
Delegate(z) ==
    /\ z \in zones
    /\ parent[z].key = NoKey
    /\ rollover[z] = NoRollover
    /\ command[z] = NoCommand
    /\ parent' = [parent EXCEPT ![z] = [key |-> ksk[z], since |-> clock]]
    /\ UNCHANGED <<vars, cached_dnskey, cached_ds>>

\* The incoming DS, published after the hold while governance, too, still has
\* the rollover in progress.
SwitchDs(z) ==
    /\ z \in zones
    /\ parent[z].key = ksk[z]
    /\ rollover[z] # NoRollover
    /\ HoldElapsed(z)
    /\ mirror[z] = "double-signature"
    /\ parent' = [parent EXCEPT ![z] = [key |-> rollover[z].next, since |-> clock]]
    /\ UNCHANGED <<vars, cached_dnskey, cached_ds>>

-----------------------------------------------------------------------------
(* The resolver.                                                           *)

FetchDnskey(z) ==
    /\ z \in zones
    /\ cached_dnskey[z].until <= clock
    /\ cached_dnskey' = [cached_dnskey EXCEPT
                           ![z] = [keys |-> dnskeys[z],
                                   until |-> clock + DnskeyTtl[z]]]
    /\ UNCHANGED <<vars, parent, cached_ds>>

FetchDs(z) ==
    /\ parent[z].key # NoKey
    /\ cached_ds[z].until <= clock
    /\ cached_ds' = [cached_ds EXCEPT ![z] = [key |-> parent[z].key,
                                             until |-> clock + DsTtl]]
    /\ UNCHANGED <<vars, parent, cached_dnskey>>

ValidationNext ==
    \/ \E z \in Zones : SpareKey /\ CreateZone(z) /\ UNCHANGED validationVars
    \/ \E z \in Zones, c \in Commands :
          (c.command = "start" => SpareKey) /\ ProposeProvided(z, c)
    \/ \E z \in Zones : \/ Delegate(z) \/ SwitchDs(z)
                        \/ FetchDnskey(z) \/ FetchDs(z)
    \/ Maintenance /\ UNCHANGED validationVars
    \/ Tick /\ UNCHANGED validationVars

ValidationSpec == ValidationInit /\ [][ValidationNext]_allVars

-----------------------------------------------------------------------------
(* Properties.                                                             *)

\* A resolver whose cached DS and cached DNSKEY RRset are both still within
\* their TTLs finds the DS's key in the RRset: no validator is ever left with
\* a combination of old and new that does not validate, whenever it fetched
\* either, and however late the command was drained.
ChainOfTrust ==
    \A z \in Zones :
        (cached_ds[z].until > clock /\ cached_dnskey[z].until > clock)
            => cached_ds[z].key \in cached_dnskey[z].keys

\* Followed as written, the procedure never makes the application refuse a
\* command, so a rollover never holds up the maintenance of other zones.
NeverRefused == \A z \in Pending : Accepts(z)

=============================================================================

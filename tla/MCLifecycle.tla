---------------------------- MODULE MCLifecycle ----------------------------
(***************************************************************************)
(* Small instances of Lifecycle for TLC.  The leases instance has two      *)
(* registrations of one host under two grants and a clock that outlives    *)
(* leases, policies and signatures; the records instance has challenges,   *)
(* operator records and tight capacities on a short clock.                 *)
(***************************************************************************)
EXTENDS Lifecycle, TLC

CONSTANTS g1, g2, k1, k2, h1, r1, r2, c1, c2, z1, aci, cvm, P1, P2, d1, d2

RegistrationSymmetry == Permutations(RegistrationIds)
IdSymmetry == Permutations(RegistrationIds) \cup Permutations(ChallengeIds)

Grant(key, ports, from, until) ==
    [subject |-> key, zones |-> Zones, hosts |-> Hosts, ports |-> ports,
     operations |-> Operations, acme_names |-> Hosts, operator_names |-> Owners,
     operator_types |-> OperatorTypes, max_lease |-> 3, max_challenge |-> 2,
     valid_from |-> from, valid_until |-> until, revoked |-> FALSE]

Policy(id, profiles, until, lifetime) ==
    [policy_id |-> id, profiles |-> profiles, valid_from |-> 0, valid_until |-> until,
     max_appraisal_lifetime |-> lifetime]

---------------------------------------------------------------------------
(* Leases *)

LeasesGrants == {Grant(k1, Ports, 0, 4), Grant(k2, {"25"}, 0, 2)}
LeasesPolicies == {Policy(P1, {aci}, 4, 2), Policy(P2, {aci, cvm}, 3, 3)}
LeasesParameters == {[host |-> h1, ports |-> Ports, profile |-> aci],
                     [host |-> h1, ports |-> {"25"}, profile |-> cvm]}

---------------------------------------------------------------------------
(* Records *)

RecordsGrants == {Grant(k1, Ports, 0, 3)}
RecordsPolicies == {Policy(P1, {aci}, 3, 3), Policy(P2, {aci}, 2, 3)}
RecordsParameters == {[host |-> h1, ports |-> {"25"}, profile |-> aci]}
RecordsBase == {[owner |-> <<"", h1>>, type |-> "A", data |-> d1, ttl |-> 2]}

Mutation(action, owner, type, data, ttl) ==
    [action |-> action, owner |-> owner, type |-> type, data |-> data, ttl |-> ttl]

\* An address next to the registration's and the base's, a CNAME that collides
\* with each in turn, text at the name of a TLSA record, and a pair.
RecordsRequests ==
    {<<Mutation("add", <<"", h1>>, "A", {d2}, 1)>>,
     <<Mutation("add", <<"", h1>>, "CNAME", {d1}, 2)>>,
     <<Mutation("delete", <<"", h1>>, "A", {}, 1)>>,
     <<Mutation("replace", <<"25", h1>>, "CNAME", {d1}, 2)>>,
     <<Mutation("delete", <<"25", h1>>, "CNAME", {}, 2),
       Mutation("replace", <<"25", h1>>, "TXT", {d1, d2}, 2)>>}
============================================================================

----------------------------- MODULE Lifecycle -----------------------------
(***************************************************************************)
(* The application state of the authority (crates/adns-server): owner      *)
(* grants and appraisal policies installed by governance, registrations    *)
(* with leases, ACME challenges, operator records, the records they        *)
(* contribute to a zone, and the signed snapshot of each zone.             *)
(*                                                                         *)
(* One action is one committed transaction: a signed mutation that the     *)
(* service accepts, an autonomous maintenance run, a governance write, or  *)
(* a transaction that only moves the clock watermark.  A refused mutation  *)
(* leaves this state alone, apart from that watermark.  Nonces, replay and *)
(* rollback are the subject of RequestLedger.                              *)
(*                                                                         *)
(* Every transaction reads the clock of the node that runs it; the value   *)
(* read is the parameter now, any time that is not before last_time.       *)
(***************************************************************************)
EXTENDS ZoneRecords, Sequences

CONSTANTS
    Zones, Grants, Keys, Hosts, Ports, Profiles, PolicyIds,
    RegistrationIds,        \* "reg-" and a digest of the signed message
    ChallengeIds,           \* "chal-" and a digest of the signed message
    OwnerGrants,            \* the grant rows governance may install
    AppraisalPolicies,      \* the policy rows governance may install
    RegisterParameters,     \* the [host, ports, profile] a client may ask for
    OperatorRequests,       \* the sequences of RRset mutations an operator may send
    OperatorData,           \* RDATA an operator may publish
    LeaseSeconds,           \* lease and challenge lifetimes a client may ask for
    CertificateExpirations, \* ends of validity of evidence certificates
    RecordTtl,              \* TTL of a service record before the lease bounds it
    MAX_ACTIVE_REGISTRATIONS,
    MAX_ACME_CHALLENGES,
    SignatureValidity, RefreshBefore,
    SerialModulus,          \* zone serials wrap here (2^32 in the code)
    MaxTime,                \* bound of the model on the clock
    NoRow                   \* an absent row

VARIABLES
    grants,         \* owner grant rows, written only by governance
    policies,       \* the current appraisal policy of each zone
    registrations,  \* registration rows, never deleted
    active_index,   \* ids in the active-registration index
    active_count,   \* LifecycleFormat.active_registrations
    challenges,     \* ACME challenge rows
    records,        \* contributions stored for each zone
    usage,          \* usage counters of each zone
    zones,          \* [serial, signed, expiration] of each zone
    last_time       \* the watermark ServiceConfiguration.last_time

vars == <<grants, policies, registrations, active_index, active_count,
          challenges, records, usage, zones, last_time>>

Times == 0 .. MaxTime

Operations == {"register", "renew", "deregister", "acme_challenge_create",
               "acme_challenge_delete", "operator_records"}

\* Owner names, as a prefix label and a host: the host itself, the TLSA owner
\* _port._tcp.host of a port, and the owner of the host's ACME challenges.
Owners == ({"", "_acme-challenge"} \cup Ports) \X Hosts
OperatorTypes == {"A", "CNAME", "TXT"}
Types == OperatorTypes \cup {"TLSA"}

OwnerGrant ==
    [subject : Keys, zones : SUBSET Zones, hosts : SUBSET Hosts, ports : SUBSET Ports,
     operations : SUBSET Operations, acme_names : SUBSET Hosts,
     operator_names : SUBSET Owners, operator_types : SUBSET OperatorTypes, max_lease : Nat, max_challenge : Nat,
     valid_from : Nat, valid_until : Nat, revoked : BOOLEAN]

AppraisalPolicy ==
    [policy_id : PolicyIds, profiles : SUBSET Profiles, valid_from : Nat,
     valid_until : Nat, max_appraisal_lifetime : Nat]

Registration ==
    [grant : Grants, zone : Zones, signer : Keys, host : Hosts, ports : SUBSET Ports,
     profile : Profiles, admitted_at : Nat, lease_expires_at : Nat,
     policy_valid_until : Nat, reappraisal_deadline : Nat, policy_id : PolicyIds,
     status : {"active", "expired", "withdrawn"}, active_ports : SUBSET Ports]

AcmeChallenge ==
    [grant : Grants, registration : RegistrationIds, zone : Zones, name : Hosts,
     signer : Keys, expires_at : Nat]

\* Who may own a contribution.  The code writes the registration or challenge
\* id, or "operator:grant:name:type", so the three kinds never collide.
RegistrationContributor(id) == [kind |-> "registration", id |-> id]
ChallengeContributor(cid) == [kind |-> "challenge", id |-> cid]
OperatorContributor(g, m) == [kind |-> "operator", id |-> <<g, m.owner, m.type>>]

Contributor ==
    [kind : {"registration"}, id : RegistrationIds]
        \cup [kind : {"challenge"}, id : ChallengeIds]
        \cup [kind : {"operator"}, id : Grants \X Owners \X Types]

Contribution ==
    [contributor : Contributor, owner : Owners, type : Types,
     data : Hosts \cup Keys \cup ChallengeIds \cup OperatorData, ttl : Nat]

OwnedBy(S, contributor) == {c \in S : c.contributor = contributor}

Minimum(S) == CHOOSE m \in S : \A n \in S : m <= n

\* What governance and clients may send, as the constitution and the request
\* schema admit it; a zone is created with settings that pass these checks.
ASSUME RowAssumption ==
    /\ OwnerGrants \subseteq OwnerGrant
    /\ AppraisalPolicies \subseteq AppraisalPolicy
    /\ RegisterParameters \subseteq [host : Hosts, ports : SUBSET Ports, profile : Profiles]
    /\ LeaseSeconds \subseteq Nat \ {0}
    /\ CertificateExpirations \subseteq Nat

ASSUME OperatorAssumption ==
    \A ms \in OperatorRequests :
       /\ ms \in Seq([action : {"add", "replace", "delete"}, owner : Owners,
                       type : OperatorTypes, data : SUBSET OperatorData, ttl : Nat])
       /\ \A i \in DOMAIN ms : IsFiniteSet(ms[i].data)
       /\ \A i, j \in DOMAIN ms : RrsetKey(ms[i]) = RrsetKey(ms[j]) => i = j

\* The constitution keeps every policy it ever installed and refuses the reuse
\* of a policy_id for other contents.
ASSUME PolicyIdentity ==
    \A p, q \in AppraisalPolicies : p.policy_id = q.policy_id => p = q

ASSUME SettingsAssumption ==
    /\ RecordTtl \in Nat /\ MaxTime \in Nat
    /\ MAX_ACTIVE_REGISTRATIONS \in Nat /\ MAX_ACME_CHALLENGES \in Nat
    /\ SerialModulus \in Nat \ {0}
    /\ SignatureValidity \in Nat /\ RefreshBefore \in Nat
    /\ RefreshBefore < SignatureValidity
    /\ Signable({})

ASSUME NameAssumption ==
    /\ IsFiniteSet(Ports) /\ IsFiniteSet(ChallengeIds)
    /\ {"", "_acme-challenge"} \cap Ports = {}

ASSUME NoRowAssumption ==
    NoRow \notin OwnerGrant \cup AppraisalPolicy \cup Registration \cup AcmeChallenge

---------------------------------------------------------------------------
(* Authorization (crates/adns-auth/src/grants.rs) *)

\* The part of OwnerGrant that decides whether it is in force.
InForce(row, now) ==
    ~ row.revoked /\ row.valid_from <= now /\ now < row.valid_until

\* authorize_action: grant g lets its subject perform op on zone z.
Authorized(g, op, z, now) ==
    /\ grants[g] # NoRow
    /\ InForce(grants[g], now)
    /\ z \in grants[g].zones
    /\ op \in grants[g].operations

\* authorize_registration_scope, for a host and a set of ports.
InScope(row, host, ports) == host \in row.hosts /\ ports \subseteq row.ports

\* registration_authority_invalid
AuthorityInvalid(r, now) ==
    \/ grants[r.grant] = NoRow
    \/ ~ InForce(grants[r.grant], now)
    \/ grants[r.grant].subject # r.signer
    \/ r.zone \notin grants[r.grant].zones
    \/ ~ InScope(grants[r.grant], r.host, r.ports)
    \/ policies[r.zone] = NoRow
    \/ policies[r.zone].valid_from > now
    \/ policies[r.zone].valid_until <= now
    \/ r.profile \notin policies[r.zone].profiles
    \/ policies[r.zone].policy_id # r.policy_id

Lapsed(r, now) == r.lease_expires_at <= now \/ r.reappraisal_deadline <= now

\* active_registration
ActiveRegistration(id, now) ==
    /\ registrations[id] # NoRow
    /\ registrations[id].status = "active"
    /\ id \in active_index
    /\ ~ Lapsed(registrations[id], now)
    /\ ~ AuthorityInvalid(registrations[id], now)

\* bounded_lease_expiration
BoundedLease(admission, seconds, bounds) == Minimum({admission + seconds} \cup bounds)

\* appraise: the profile must be active in a policy that is in force; evidence
\* is good until the policy, the appraisal lifetime or a certificate ends.
Appraisable(p, profile, now) ==
    /\ p # NoRow
    /\ profile \in p.profiles
    /\ p.valid_from <= now /\ now < p.valid_until
    /\ p.max_appraisal_lifetime > 0

AppraisalValidUntil(p, certificate, now) ==
    Minimum({p.valid_until, now + p.max_appraisal_lifetime, certificate})

---------------------------------------------------------------------------
(* Signing (crates/adns-server/src/zone.rs) *)

\* resign_zone with advance_serial
Resigned(z, S, now) ==
    [serial |-> (zones[z].serial + 1) % SerialModulus,
     signed |-> Published(S),
     expiration |-> now + SignatureValidity]

\* Store a zone's new contributions and sign them in the same transaction.
StoreAndSign(z, S, u, now) ==
    /\ Signable(S)
    /\ records' = [records EXCEPT ![z] = S]
    /\ usage' = [usage EXCEPT ![z] = u]
    /\ zones' = [zones EXCEPT ![z] = Resigned(z, S, now)]

AddAndSign(z, new, now) ==
    /\ CanAdd(records[z], usage[z], new)
    /\ StoreAndSign(z, records[z] \cup new,
                    UsageAfterAdd(records[z], usage[z], new), now)

\* Faulty variant: the removal is stored and the zone is not signed again.
RemoveAndSign_Unsigned(z, gone, now) ==
    /\ CanRemove(records[z], usage[z], gone)
    /\ records' = [records EXCEPT ![z] = @ \ gone]
    /\ usage' = [usage EXCEPT ![z] = UsageAfterRemove(records[z], usage[z], gone)]
    /\ UNCHANGED zones

\* remove_contributions and, when it removed something, resign_zone
RemoveAndSign(z, gone, now) ==
    IF gone = {}
    THEN UNCHANGED <<records, usage, zones>>
    ELSE /\ CanRemove(records[z], usage[z], gone)
         /\ StoreAndSign(z, records[z] \ gone,
                         UsageAfterRemove(records[z], usage[z], gone), now)

---------------------------------------------------------------------------
(* Signed mutations (service.rs, mutate) *)

\* mail_contributions and attested_contributions: the records of the host as
\* a whole, and a TLSA record of the signer's key for every port.
ServiceRecords(id, host, ports, signer, ttl) ==
    LET own(owner, type, data) ==
            [contributor |-> RegistrationContributor(id), owner |-> owner,
             type |-> type, data |-> data, ttl |-> ttl]
    IN  {own(<<"", host>>, "A", host)}
            \cup {own(<<p, host>>, "TLSA", signer) : p \in ports}

ChallengeRecord(cid, name, ttl) ==
    [contributor |-> ChallengeContributor(cid), owner |-> <<"_acme-challenge", name>>,
     type |-> "TXT", data |-> cid, ttl |-> ttl]

Register(id, g, z, p, seconds, certificate, now) ==
    LET row == grants[g]
        policy == policies[z]
        deadline == AppraisalValidUntil(policy, certificate, now)
        lease == BoundedLease(now, seconds, {row.valid_until, policy.valid_until, deadline})
        ttl == Minimum({RecordTtl, lease - now})
    IN  /\ Authorized(g, "register", z, now)
        /\ InScope(row, p.host, p.ports)
        /\ seconds <= row.max_lease
        /\ active_count < MAX_ACTIVE_REGISTRATIONS
        /\ Appraisable(policy, p.profile, now)
        /\ registrations[id] = NoRow
        /\ lease > now
        /\ AddAndSign(z, ServiceRecords(id, p.host, p.ports, row.subject, ttl), now)
        /\ registrations' = [registrations EXCEPT ![id] =
              [grant |-> g, zone |-> z, signer |-> row.subject, host |-> p.host,
               ports |-> p.ports, profile |-> p.profile, admitted_at |-> now,
               lease_expires_at |-> lease, policy_valid_until |-> policy.valid_until,
               reappraisal_deadline |-> deadline, policy_id |-> policy.policy_id,
               status |-> "active", active_ports |-> p.ports]]
        /\ id \notin active_index
        /\ active_index' = active_index \cup {id}
        /\ active_count' = active_count + 1
        /\ last_time' = now
        /\ UNCHANGED <<grants, policies, challenges>>

\* Faulty variants: a lease measured from the renewal, and a renewal that does
\* not look at the status and writes an active row.
RenewLease_FromNow(id, renewed, seconds, now) ==
    LET r == registrations[id]
        lease == BoundedLease(now, seconds,
                    {grants[r.grant].valid_until, renewed.policy_valid_until,
                     policies[r.zone].valid_until, renewed.reappraisal_deadline})
    IN  /\ r.status = "active" /\ id \in active_index
        /\ r.lease_expires_at > now /\ lease > now
        /\ Authorized(r.grant, "renew", r.zone, now)
        /\ seconds <= grants[r.grant].max_lease
        /\ grants[r.grant].subject = r.signer
        /\ registrations' = [registrations EXCEPT ![id] =
              [renewed EXCEPT !.lease_expires_at = lease]]
        /\ last_time' = now
        /\ UNCHANGED <<grants, policies, active_index, active_count, challenges,
                       records, usage, zones>>

RenewLease_Reactivates(id, renewed, seconds, now) ==
    LET r == registrations[id]
    IN  /\ Authorized(r.grant, "renew", r.zone, now)
        /\ seconds <= grants[r.grant].max_lease
        /\ registrations' = [registrations EXCEPT ![id] =
              [renewed EXCEPT !.lease_expires_at = r.admitted_at + seconds,
                              !.status = "active"]]
        /\ last_time' = now
        /\ UNCHANGED <<grants, policies, active_index, active_count, challenges,
                       records, usage, zones>>

\* Renew under the grant and key of the registration.  The lease is measured
\* from admission, and bounded again by the grant and by the appraisal.
RenewLease(id, renewed, seconds, now) ==
    LET r == registrations[id]
        lease == BoundedLease(r.admitted_at, seconds,
                    {grants[r.grant].valid_until, renewed.policy_valid_until,
                     policies[r.zone].valid_until, renewed.reappraisal_deadline})
    IN  /\ r.status = "active" /\ id \in active_index
        /\ r.lease_expires_at > now
        /\ Authorized(r.grant, "renew", r.zone, now)
        /\ seconds <= grants[r.grant].max_lease
        /\ grants[r.grant].subject = r.signer
        /\ InScope(grants[r.grant], r.host, r.ports)
        /\ policies[r.zone] # NoRow
        /\ lease > now
        /\ registrations' = [registrations EXCEPT ![id] =
              [renewed EXCEPT !.lease_expires_at = lease]]
        /\ last_time' = now
        /\ UNCHANGED <<grants, policies, active_index, active_count, challenges,
                       records, usage, zones>>

\* With fresh evidence the appraisal replaces the one made at admission.  The
\* profile of the evidence need not be the profile in the stored parameters.
RenewWithEvidence(id, profile, certificate, seconds, now) ==
    LET r == registrations[id]
        policy == policies[r.zone]
    IN  /\ r # NoRow
        /\ Appraisable(policy, profile, now)
        /\ RenewLease(id,
              [r EXCEPT !.policy_valid_until = policy.valid_until,
                        !.reappraisal_deadline = AppraisalValidUntil(policy, certificate, now),
                        !.policy_id = policy.policy_id],
              seconds, now)

RenewWithoutEvidence(id, seconds, now) ==
    LET r == registrations[id]
        policy == policies[r.zone]
    IN  /\ r # NoRow
        /\ policy # NoRow
        /\ r.profile \in policy.profiles
        /\ policy.policy_id = r.policy_id
        /\ policy.valid_from <= now /\ now < policy.valid_until
        /\ RenewLease(id, r, seconds, now)

\* The owner of a registration may deregister it whatever its status.
MayDeregister(id, selected, now) ==
    LET r == registrations[id]
    IN  /\ r # NoRow
        /\ r.status = "active" => id \in active_index
        /\ Authorized(r.grant, "deregister", r.zone, now)
        /\ grants[r.grant].subject = r.signer
        /\ selected \subseteq grants[r.grant].ports

\* Faulty variant: the row is withdrawn and stays in the index.
DeregisterAll_KeepsIndex(id, now) ==
    LET r == registrations[id]
    IN  /\ MayDeregister(id, {}, now)
        /\ RemoveAndSign(r.zone, OwnedBy(records[r.zone], RegistrationContributor(id)), now)
        /\ registrations' = [registrations EXCEPT ![id].status = "withdrawn",
                                                  ![id].active_ports = {}]
        /\ last_time' = now
        /\ UNCHANGED <<grants, policies, active_index, active_count, challenges>>

DeregisterAll(id, now) ==
    LET r == registrations[id]
    IN  /\ MayDeregister(id, {}, now)
        /\ RemoveAndSign(r.zone, OwnedBy(records[r.zone], RegistrationContributor(id)), now)
        /\ IF r.status = "active"
           THEN /\ active_count > 0
                /\ active_index' = active_index \ {id}
                /\ active_count' = active_count - 1
           ELSE UNCHANGED <<active_index, active_count>>
        /\ registrations' = [registrations EXCEPT ![id].status = "withdrawn",
                                                  ![id].active_ports = {}]
        /\ last_time' = now
        /\ UNCHANGED <<grants, policies, challenges>>

\* Faulty variant: every contribution to those owners goes, whoever owns it.
DeregisterPorts_AnyContributor(id, selected, now) ==
    LET r == registrations[id]
        owners == selected \X {r.host}
    IN  /\ MayDeregister(id, selected, now)
        /\ selected # {} /\ selected \subseteq r.active_ports
        /\ RemoveAndSign(r.zone, {c \in records[r.zone] : c.owner \in owners}, now)
        /\ registrations' = [registrations EXCEPT ![id].active_ports = @ \ selected]
        /\ last_time' = now
        /\ UNCHANGED <<grants, policies, active_index, active_count, challenges>>

\* Only the TLSA owners of the selected ports are withdrawn.
DeregisterPorts(id, selected, now) ==
    LET r == registrations[id]
        owners == selected \X {r.host}
    IN  /\ MayDeregister(id, selected, now)
        /\ selected # {} /\ selected \subseteq r.active_ports
        /\ RemoveAndSign(r.zone,
              {c \in OwnedBy(records[r.zone], RegistrationContributor(id)) : c.owner \in owners},
              now)
        /\ registrations' = [registrations EXCEPT ![id].active_ports = @ \ selected]
        /\ last_time' = now
        /\ UNCHANGED <<grants, policies, active_index, active_count, challenges>>

\* The rows a scan of the challenge table returns.
ChallengeRows == {cid \in ChallengeIds : challenges[cid] # NoRow}

\* The issuer's grant names the host; the registration may be another owner's.
AcmeChallengeCreate(cid, g, id, lifetime, now) ==
    LET r == registrations[id]
        row == grants[g]
        expires == Minimum({now + lifetime, row.valid_until, r.lease_expires_at})
        ttl == Minimum({RecordTtl, expires - now})
    IN  /\ Cardinality(ChallengeRows) < MAX_ACME_CHALLENGES
        /\ ActiveRegistration(id, now)
        /\ Authorized(g, "acme_challenge_create", r.zone, now)
        /\ r.host \in row.acme_names
        /\ lifetime <= row.max_challenge
        /\ expires > now
        /\ challenges[cid] = NoRow
        /\ AddAndSign(r.zone, {ChallengeRecord(cid, r.host, ttl)}, now)
        /\ challenges' = [challenges EXCEPT ![cid] =
              [grant |-> g, registration |-> id, zone |-> r.zone, name |-> r.host,
               signer |-> row.subject, expires_at |-> expires]]
        /\ last_time' = now
        /\ UNCHANGED <<grants, policies, registrations, active_index, active_count>>

AcmeChallengeDelete(cid, now) ==
    LET c == challenges[cid]
    IN  /\ c # NoRow
        /\ Authorized(c.grant, "acme_challenge_delete", c.zone, now)
        /\ grants[c.grant].subject = c.signer
        /\ RemoveAndSign(c.zone, OwnedBy(records[c.zone], ChallengeContributor(cid)), now)
        /\ challenges' = [challenges EXCEPT ![cid] = NoRow]
        /\ last_time' = now
        /\ UNCHANGED <<grants, policies, registrations, active_index, active_count>>

\* apply_operator_records: the mutations are applied in order, against the
\* serial the operator expects.  An operator's contributions to an RRset are
\* its own; replacing or deleting them leaves every other owner's alone.  The
\* RRsets of one request are distinct, so what is stored before mutation i is
\* what the earlier ones left.
OperatorRecords(g, z, ms, expected_serial, now) ==
    LET row == grants[g]
        removed(i) == IF ms[i].action = "add" THEN {}
                      ELSE OwnedBy(records[z], OperatorContributor(g, ms[i]))
        added(i) == {[contributor |-> OperatorContributor(g, ms[i]), owner |-> ms[i].owner,
                      type |-> ms[i].type, data |-> d, ttl |-> ms[i].ttl] : d \in ms[i].data}
        before(i) == (records[z] \ UNION {removed(j) : j \in 1 .. i})
                        \cup UNION {added(j) : j \in 1 .. (i - 1)}
        after == (records[z] \ UNION {removed(j) : j \in DOMAIN ms})
                        \cup UNION {added(j) : j \in DOMAIN ms}
    IN  /\ Authorized(g, "operator_records", z, now)
        /\ \A i \in DOMAIN ms : /\ ms[i].owner \in row.operator_names
                                /\ ms[i].type \in row.operator_types
        /\ expected_serial = zones[z].serial
        /\ \A i \in DOMAIN ms :
              IF ms[i].action = "delete"
              THEN ms[i].data = {}
              ELSE CanAdd(before(i), UsageShift(usage[z], records[z], before(i)), added(i))
        /\ StoreAndSign(z, after, UsageShift(usage[z], records[z], after), now)
        /\ last_time' = now
        /\ UNCHANGED <<grants, policies, registrations, active_index, active_count, challenges>>

\* A transaction that only moves the watermark: a nonce is issued, an anchor
\* is stored, or the rejection of an authenticated request is recorded.
ObserveTime(now) ==
    /\ now > last_time
    /\ last_time' = now
    /\ UNCHANGED <<grants, policies, registrations, active_index, active_count,
                   challenges, records, usage, zones>>

---------------------------------------------------------------------------
(* Autonomous maintenance (service.rs, maintenance) *)

\* Faulty variants: maintenance that looks at one of the two reasons only.
Ended_AuthorityOnly(now) ==
    {id \in active_index : AuthorityInvalid(registrations[id], now)}

Ended_LapsedOnly(now) == {id \in active_index : Lapsed(registrations[id], now)}

\* Indexed registrations whose lease, appraisal or authority has ended.
Ended(now) ==
    {id \in active_index : Lapsed(registrations[id], now)
                              \/ AuthorityInvalid(registrations[id], now)}

SettledRegistration(id, now) ==
    IF id \in Ended(now)
    THEN [registrations[id] EXCEPT
             !.status = IF AuthorityInvalid(registrations[id], now)
                        THEN "withdrawn" ELSE "expired",
             !.active_ports = {}]
    ELSE registrations[id]

\* Faulty variant: challenges judged on the rows read before the registrations
\* were settled.
ChallengeEnded_StaleRow(c, now) ==
    LET row == grants[c.grant]
        r == registrations[c.registration]
    IN  \/ c.expires_at <= now
        \/ row = NoRow
        \/ ~ InForce(row, now)
        \/ row.subject # c.signer
        \/ c.zone \notin row.zones \/ c.name \notin row.acme_names
        \/ "acme_challenge_create" \notin row.operations
        \/ r = NoRow
        \/ r.status # "active" \/ Lapsed(r, now)
        \/ r.zone # c.zone \/ r.host # c.name

\* Challenges are judged after the registrations, on the rows just written.
ChallengeEnded(c, now) ==
    LET row == grants[c.grant]
        r == SettledRegistration(c.registration, now)
    IN  \/ c.expires_at <= now
        \/ row = NoRow
        \/ ~ InForce(row, now)
        \/ row.subject # c.signer
        \/ c.zone \notin row.zones
        \/ c.name \notin row.acme_names
        \/ "acme_challenge_create" \notin row.operations
        \/ r = NoRow
        \/ r.status # "active"
        \/ Lapsed(r, now)
        \/ r.zone # c.zone
        \/ r.host # c.name

EndedChallenges(now) ==
    {cid \in ChallengeRows : ChallengeEnded(challenges[cid], now)}

\* Faulty variant: the row of an ended challenge goes and its record stays.
Withdrawn_RegistrationsOnly(z, now) ==
    LET contributors ==
            {RegistrationContributor(id) : id \in {i \in Ended(now) : registrations[i].zone = z}}
    IN  {c \in records[z] : c.contributor \in contributors}

\* What one removal scan of zone z takes out.
Withdrawn(z, now) ==
    LET contributors ==
            {RegistrationContributor(id) : id \in {i \in Ended(now) : registrations[i].zone = z}}
              \cup {ChallengeContributor(cid) :
                       cid \in {i \in EndedChallenges(now) : challenges[i].zone = z}}
    IN  {c \in records[z] : c.contributor \in contributors}

RefreshDue(z, now) == now + RefreshBefore >= zones[z].expiration

Maintenance(now) ==
    LET dirty == {z \in Zones : Withdrawn(z, now) # {} \/ RefreshDue(z, now)}
        kept(z) == records[z] \ Withdrawn(z, now)
    IN  /\ now >= last_time
        /\ Cardinality(active_index) = active_count
        /\ \A id \in active_index :
              registrations[id] # NoRow /\ registrations[id].status = "active"
        /\ registrations' = [id \in RegistrationIds |-> SettledRegistration(id, now)]
        /\ active_index' = active_index \ Ended(now)
        /\ active_count' = active_count - Cardinality(Ended(now))
        /\ Cardinality(ChallengeRows) <= MAX_ACME_CHALLENGES
        /\ challenges' = [cid \in ChallengeIds |->
              IF cid \in EndedChallenges(now) THEN NoRow ELSE challenges[cid]]
        /\ \A z \in Zones : CanRemove(records[z], usage[z], Withdrawn(z, now))
        /\ \A z \in dirty : Signable(kept(z))
        /\ records' = [z \in Zones |-> kept(z)]
        /\ usage' = [z \in Zones |-> UsageAfterRemove(records[z], usage[z], Withdrawn(z, now))]
        /\ zones' = [z \in Zones |-> IF z \in dirty THEN Resigned(z, kept(z), now) ELSE zones[z]]
        /\ last_time' = now
        /\ UNCHANGED <<grants, policies>>

---------------------------------------------------------------------------
(* Governance writes (ccf/governance/constitution.js) *)

SetOwnerGrant(g, row) ==
    /\ grants' = [grants EXCEPT ![g] = row]
    /\ UNCHANGED <<policies, registrations, active_index, active_count,
                   challenges, records, usage, zones, last_time>>

RevokeOwnerGrant(g) ==
    /\ grants[g] # NoRow
    /\ grants' = [grants EXCEPT ![g].revoked = TRUE]
    /\ UNCHANGED <<policies, registrations, active_index, active_count,
                   challenges, records, usage, zones, last_time>>

SetAppraisalPolicy(z, policy) ==
    /\ policies' = [policies EXCEPT ![z] = policy]
    /\ UNCHANGED <<grants, registrations, active_index, active_count,
                   challenges, records, usage, zones, last_time>>

---------------------------------------------------------------------------
\* initialize_lifecycle and initialize_zone: an empty index, and every zone
\* holding its signed base records.  Nothing is granted yet.
Init ==
    /\ grants = [g \in Grants |-> NoRow]
    /\ policies = [z \in Zones |-> NoRow]
    /\ registrations = [id \in RegistrationIds |-> NoRow]
    /\ active_index = {}
    /\ active_count = 0
    /\ challenges = [cid \in ChallengeIds |-> NoRow]
    /\ records = [z \in Zones |-> {}]
    /\ usage = [z \in Zones |-> NoUsage]
    /\ zones = [z \in Zones |->
          [serial |-> 0, signed |-> Published({}), expiration |-> SignatureValidity]]
    /\ last_time = 0

Mutate(now) ==
    /\ now >= last_time
    /\ \/ \E id \in RegistrationIds, g \in Grants, z \in Zones, p \in RegisterParameters,
             seconds \in LeaseSeconds, certificate \in CertificateExpirations :
             Register(id, g, z, p, seconds, certificate, now)
       \/ \E id \in RegistrationIds, profile \in Profiles, seconds \in LeaseSeconds,
             certificate \in CertificateExpirations :
             RenewWithEvidence(id, profile, certificate, seconds, now)
       \/ \E id \in RegistrationIds, seconds \in LeaseSeconds :
             RenewWithoutEvidence(id, seconds, now)
       \/ \E id \in RegistrationIds : DeregisterAll(id, now)
       \/ \E id \in RegistrationIds, selected \in SUBSET Ports :
             DeregisterPorts(id, selected, now)
       \/ \E cid \in ChallengeIds, g \in Grants, id \in RegistrationIds,
             lifetime \in LeaseSeconds :
             AcmeChallengeCreate(cid, g, id, lifetime, now)
       \/ \E cid \in ChallengeIds : AcmeChallengeDelete(cid, now)
       \/ \E g \in Grants, z \in Zones, ms \in OperatorRequests,
             serial \in 0 .. (SerialModulus - 1) :
             OperatorRecords(g, z, ms, serial, now)

Govern ==
    \/ \E g \in Grants, row \in OwnerGrants : SetOwnerGrant(g, row)
    \/ \E g \in Grants : RevokeOwnerGrant(g)
    \/ \E z \in Zones, policy \in AppraisalPolicies : SetAppraisalPolicy(z, policy)

Next ==
    \/ \E now \in Times : Mutate(now) \/ Maintenance(now) \/ ObserveTime(now)
    \/ Govern

Spec == Init /\ [][Next]_vars

\* The host driver runs maintenance every cycle for as long as the node is up.
FairSpec == Spec /\ WF_vars(\E now \in Times : Maintenance(now))

---------------------------------------------------------------------------
(* Properties *)

\* Types of the stored rows.  A zone serial stays within its modulus.
TypeOK ==
    /\ grants \in [Grants -> OwnerGrant \cup {NoRow}]
    /\ policies \in [Zones -> AppraisalPolicies \cup {NoRow}]
    /\ registrations \in [RegistrationIds -> Registration \cup {NoRow}]
    /\ active_index \in SUBSET RegistrationIds
    /\ active_count \in Nat
    /\ challenges \in [ChallengeIds -> AcmeChallenge \cup {NoRow}]
    /\ records \in [Zones -> SUBSET Contribution]
    /\ usage \in [Zones -> Usage]
    /\ DOMAIN zones = Zones
    /\ \A z \in Zones : /\ zones[z].serial \in 0 .. (SerialModulus - 1)
                        /\ zones[z].expiration \in Nat
    /\ last_time \in Times

Registered(id) == registrations[id] # NoRow
IsActive(id) == Registered(id) /\ registrations[id].status = "active"
ActiveIds == {id \in RegistrationIds : IsActive(id)}

\* Maintenance reads only the index, so a registration missing from it would
\* stay published for ever, and a row missing behind it would stop maintenance:
\* the index holds exactly the active rows, and the format marker counts them.
IndexExact ==
    /\ active_index = ActiveIds
    /\ active_count = Cardinality(ActiveIds)

\* The usage counters, updated by difference in every transaction, are what a
\* count of the stored records would give (else quota leaks or underflows).
UsageExact == \A z \in Zones : usage[z] = UsageOf(records[z])

\* The snapshot served to resolvers is the stored records at every commit: no
\* transaction changes records and leaves the old signatures in place.
SnapshotCurrent == \A z \in Zones : zones[z].signed = Published(records[z])

\* What every transaction derives from the rows and stores beside them, the
\* index, the counters and the snapshot, is what the rows themselves would give.
TablesExact == IndexExact /\ UsageExact /\ SnapshotCurrent

\* What a contributor has put in a zone, without the TTL.
Content(S) == {[owner |-> c.owner, type |-> c.type, data |-> c.data] : c \in S}

\* An active registration owns exactly the records of its host and of its
\* remaining ports, in its own zone; one that ended owns nothing anywhere.
\* A challenge row exists exactly while its TXT record does.
ContributionsExact ==
    /\ \A id \in RegistrationIds, z \in Zones :
          Content(OwnedBy(records[z], RegistrationContributor(id))) =
             IF IsActive(id) /\ registrations[id].zone = z
             THEN Content(ServiceRecords(id, registrations[id].host,
                             registrations[id].active_ports, registrations[id].signer, 0))
             ELSE {}
    /\ \A cid \in ChallengeIds, z \in Zones :
          Content(OwnedBy(records[z], ChallengeContributor(cid))) =
             IF challenges[cid] # NoRow /\ challenges[cid].zone = z
             THEN Content({ChallengeRecord(cid, challenges[cid].name, 0)})
             ELSE {}

\* Withdrawing one owner's records keeps what others still support: whatever
\* else happened to the zone, the served snapshot holds every record of every
\* active registration.
ActiveServed ==
    \A id \in ActiveIds :
       Content(ServiceRecords(id, registrations[id].host, registrations[id].active_ports,
                              registrations[id].signer, 0))
          \subseteq Content(zones[registrations[id].zone].signed)

\* However often it is renewed, a lease is a duration from admission and ends
\* with the appraisal it rests on at the latest; and as long as the zone's
\* policy is the one it was appraised under, it ends with that policy too.
LeaseBounded ==
    \A id \in RegistrationIds : Registered(id) =>
       LET r == registrations[id]
       IN  /\ r.admitted_at < r.lease_expires_at
           /\ r.lease_expires_at <= r.reappraisal_deadline
           /\ \E seconds \in LeaseSeconds : r.lease_expires_at <= r.admitted_at + seconds
           /\ (policies[r.zone] # NoRow /\ policies[r.zone].policy_id = r.policy_id) =>
                 r.lease_expires_at <= policies[r.zone].valid_until

\* No sequence of accepted requests can leave a state in which maintenance
\* fails: the removals it must make never underflow a counter, the index it
\* reads is sound, and what remains can be signed.
MaintenanceCanRun ==
    /\ Cardinality(active_index) = active_count
    /\ \A id \in active_index : IsActive(id)
    /\ Cardinality(ChallengeRows) <= MAX_ACME_CHALLENGES
    /\ \A now \in Times : now >= last_time =>
          \A z \in Zones : /\ CanRemove(records[z], usage[z], Withdrawn(z, now))
                           /\ Signable(records[z] \ Withdrawn(z, now))

\* A registration that ended stays ended: no renewal, policy rollback or grant
\* restored later brings it back, and its row is never lost.
NoResurrection ==
    [][\A id \in RegistrationIds :
          (Registered(id) /\ ~ IsActive(id)) => (Registered(id)' /\ ~ IsActive(id)')]_vars

\* Nothing that is stored rests on ended authority at time now: every active
\* registration is eligible, every challenge refers to an eligible one, and
\* every signature outlives the refresh margin.
Settled(now) ==
    /\ \A id \in ActiveIds : ActiveRegistration(id, now)
    /\ \A cid \in ChallengeRows : ActiveRegistration(challenges[cid].registration, now)
    /\ \A z \in Zones : zones[z].expiration > now + RefreshBefore

\* One maintenance run settles everything, challenges of registrations that the
\* same run ended included: nothing is left for a second run at the same time.
MaintenanceSettles ==
    [][\A now \in Times : (now = last_time' /\ Maintenance(now)) => Settled(now)']_vars

\* Faulty variant: the lease looked at before the authority.
EffectiveStatus_LeaseFirst(id, now) ==
    IF ~ IsActive(id) THEN registrations[id].status
    ELSE IF Lapsed(registrations[id], now) THEN "expired"
    ELSE IF AuthorityInvalid(registrations[id], now) THEN "withdrawn"
    ELSE "active"

\* What GET /service/registration reports at a given time.
EffectiveStatus(id, now) ==
    IF ~ IsActive(id) THEN registrations[id].status
    ELSE IF AuthorityInvalid(registrations[id], now) THEN "withdrawn"
    ELSE IF Lapsed(registrations[id], now) THEN "expired"
    ELSE "active"

\* A read never disagrees with the maintenance run that catches up with it: it
\* reports the status that a run at the same time stores.
ReadMatchesMaintenance ==
    [][\A now \in Times : (now = last_time' /\ Maintenance(now)) =>
          \A id \in RegistrationIds : Registered(id) =>
             registrations'[id].status = EffectiveStatus(id, now)]_vars

\* A lease that has run out is withdrawn, and so is authority that was revoked
\* and not restored in the meantime.
LapsedWithdrawn ==
    \A id \in RegistrationIds :
       (IsActive(id) /\ Lapsed(registrations[id], last_time)) ~> ~ IsActive(id)

RevokedWithdrawn ==
    \A id \in RegistrationIds :
       (IsActive(id) /\ AuthorityInvalid(registrations[id], last_time))
          ~> (~ IsActive(id) \/ ~ AuthorityInvalid(registrations[id], last_time))

\* Both, under maintenance that runs again and again.
EndedWithdrawn == LapsedWithdrawn /\ RevokedWithdrawn

============================================================================

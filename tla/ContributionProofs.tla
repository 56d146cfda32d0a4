------------------------- MODULE ContributionProofs -------------------------
(***************************************************************************)
(* What each contributor owns in a zone, in every reachable state and for  *)
(* every value of the constants: an active registration owns the records   *)
(* of its host and remaining ports, an ended one nothing, and a challenge  *)
(* row stands exactly as long as its record.  With the snapshot of         *)
(* LifecycleProofs this gives that active registrations are served.        *)
(*                                                                         *)
(* ContributionsExact is inductive relative to the invariant of            *)
(* LifecycleProofs.  The argument is by contributor: an operation changes  *)
(* what one contributor owns, and the contributors of registrations, of    *)
(* challenges and of operators never coincide.                             *)
(***************************************************************************)
EXTENDS LifecycleProofs

\* What a registration and a challenge put into a zone, without the TTL.
ServiceContent(host, ports, signer) ==
    {[owner |-> <<"", host>>, type |-> "A", data |-> host]}
        \cup {[owner |-> <<p, host>>, type |-> "TLSA", data |-> signer] : p \in ports}

ChallengeContent(cid, name) ==
    {[owner |-> <<"_acme-challenge", name>>, type |-> "TXT", data |-> cid]}

RegistrationOwes(id, z) ==
    IF IsActive(id) /\ registrations[id].zone = z
    THEN ServiceContent(registrations[id].host, registrations[id].active_ports,
                        registrations[id].signer)
    ELSE {}

ChallengeOwes(cid, z) ==
    IF challenges[cid] # NoRow /\ challenges[cid].zone = z
    THEN ChallengeContent(cid, challenges[cid].name)
    ELSE {}

RegistrationOwns(id, z) == OwnedBy(records[z], RegistrationContributor(id))
ChallengeOwns(cid, z) == OwnedBy(records[z], ChallengeContributor(cid))

\* ContributionsExact, one contributor and one zone at a time.
OwnedExactly ==
    /\ \A id \in RegistrationIds, z \in Zones :
          Content(RegistrationOwns(id, z)) = RegistrationOwes(id, z)
    /\ \A cid \in ChallengeIds, z \in Zones :
          Content(ChallengeOwns(cid, z)) = ChallengeOwes(cid, z)

---------------------------------------------------------------------------
(* Operators *)

\* The TTL and the contributor are not part of the content.
LEMMA ServiceContentIs ==
    \A id, host, ports, signer, ttl :
       Content(ServiceRecords(id, host, ports, signer, ttl)) = ServiceContent(host, ports, signer)
<1> SUFFICES ASSUME NEW id, NEW host, NEW ports, NEW signer, NEW ttl
             PROVE  Content(ServiceRecords(id, host, ports, signer, ttl)) =
                       ServiceContent(host, ports, signer)
  BY Zenon
<1> DEFINE own(owner, type, data) ==
               [contributor |-> RegistrationContributor(id), owner |-> owner,
                type |-> type, data |-> data, ttl |-> ttl]
           plain(c) == [owner |-> c.owner, type |-> c.type, data |-> c.data]
           a == own(<<"", host>>, "A", host)
           t(p) == own(<<p, host>>, "TLSA", signer)
           all == {a} \cup {t(p) : p \in ports}
<1>1. ServiceRecords(id, host, ports, signer, ttl) = all
  BY Zenon DEF ServiceRecords
<1>2. Content(all) = {plain(c) : c \in all}
  <2> HIDE DEF all
  <2> QED BY Zenon DEF Content
<1>3. {plain(c) : c \in all} = {plain(a)} \cup {plain(t(p)) : p \in ports}
  <2> HIDE DEF a, t, plain
  <2> QED BY Zenon
<1>4. plain(a) = [owner |-> <<"", host>>, type |-> "A", data |-> host]
  BY Zenon
<1>5. \A p \in ports : plain(t(p)) = [owner |-> <<p, host>>, type |-> "TLSA", data |-> signer]
  BY Zenon
<1>6. {plain(a)} \cup {plain(t(p)) : p \in ports} = ServiceContent(host, ports, signer)
  <2> HIDE DEF a, t, plain
  <2> QED BY <1>4, <1>5, Zenon DEF ServiceContent
<1> HIDE DEF all, a, t, plain
<1> QED BY <1>1, <1>2, <1>3, <1>6, Zenon

\* The record of a challenge has the content the challenge is accounted with.
LEMMA ChallengeContentIs ==
    \A cid, name, ttl : Content({ChallengeRecord(cid, name, ttl)}) = ChallengeContent(cid, name)
BY DEF Content, ChallengeRecord, ChallengeContent

\* The property is what is proved below.
LEMMA OwnedExactlyIs == ContributionsExact <=> OwnedExactly
<1> DEFINE service(id, z) ==
               IF IsActive(id) /\ registrations[id].zone = z
               THEN Content(ServiceRecords(id, registrations[id].host,
                               registrations[id].active_ports, registrations[id].signer, 0))
               ELSE {}
           challenge(cid, z) ==
               IF challenges[cid] # NoRow /\ challenges[cid].zone = z
               THEN Content({ChallengeRecord(cid, challenges[cid].name, 0)})
               ELSE {}
<1>1. \A id \in RegistrationIds, z \in Zones : service(id, z) = RegistrationOwes(id, z)
  BY ServiceContentIs DEF RegistrationOwes
<1>2. \A cid \in ChallengeIds, z \in Zones : challenge(cid, z) = ChallengeOwes(cid, z)
  BY ChallengeContentIs, Zenon DEF ChallengeOwes
<1>3. ContributionsExact <=>
         /\ \A id \in RegistrationIds, z \in Zones : Content(RegistrationOwns(id, z)) = service(id, z)
         /\ \A cid \in ChallengeIds, z \in Zones : Content(ChallengeOwns(cid, z)) = challenge(cid, z)
  BY Zenon DEF ContributionsExact, RegistrationOwns, ChallengeOwns
<1> HIDE DEF service, challenge
<1> QED BY <1>1, <1>2, <1>3, Zenon DEF OwnedExactly

\* Only the empty set has empty content.
LEMMA ContentEmpty == \A S : Content(S) = {} <=> S = {}
BY Zenon DEF Content

\* Contributors of different kinds, or with different ids, differ.
LEMMA ContributorsDiffer ==
    /\ \A a, b : RegistrationContributor(a) = RegistrationContributor(b) => a = b
    /\ \A a, b : ChallengeContributor(a) = ChallengeContributor(b) => a = b
    /\ \A a, b : RegistrationContributor(a) # ChallengeContributor(b)
    /\ \A a, g, m : OperatorContributor(g, m) # RegistrationContributor(a)
    /\ \A a, g, m : OperatorContributor(g, m) # ChallengeContributor(a)
BY Zenon DEF RegistrationContributor, ChallengeContributor, OperatorContributor

\* What an owner has after additions and removals.
LEMMA OwnedAfter ==
    /\ \A S, T, k : OwnedBy(S \cup T, k) = OwnedBy(S, k) \cup OwnedBy(T, k)
    /\ \A S, T, k : OwnedBy(S \ T, k) = OwnedBy(S, k) \ T
    /\ \A S, k, c : c \in OwnedBy(S, k) <=> c \in S /\ c.contributor = k
BY Zenon DEF OwnedBy

\* Every record of a registration or a challenge names its contributor.
LEMMA RecordsNameContributor ==
    /\ \A id, host, ports, signer, ttl : \A c \in ServiceRecords(id, host, ports, signer, ttl) :
          c.contributor = RegistrationContributor(id)
    /\ \A cid, name, ttl : ChallengeRecord(cid, name, ttl).contributor = ChallengeContributor(cid)
<1>1. \A cid, name, ttl : ChallengeRecord(cid, name, ttl).contributor = ChallengeContributor(cid)
  BY Zenon DEF ChallengeRecord
<1>2. ASSUME NEW id, NEW host, NEW ports, NEW signer, NEW ttl,
             NEW c \in ServiceRecords(id, host, ports, signer, ttl)
      PROVE  c.contributor = RegistrationContributor(id)
  <2> DEFINE own(owner, type, data) ==
                 [contributor |-> RegistrationContributor(id), owner |-> owner,
                  type |-> type, data |-> data, ttl |-> ttl]
  <2>1. \A owner, type, data : own(owner, type, data).contributor = RegistrationContributor(id)
    BY Zenon
  <2>2. ServiceRecords(id, host, ports, signer, ttl) =
           {own(<<"", host>>, "A", host)} \cup {own(<<p, host>>, "TLSA", signer) : p \in ports}
    BY Zenon DEF ServiceRecords
  <2> HIDE DEF own
  <2> QED BY <1>2, <2>1, <2>2, Zenon
<1> QED BY <1>1, <1>2, Zenon

\* Signing keeps owner, type and data of every contribution.
LEMMA PublishedContent == \A S : Content(S) \subseteq Content(Published(S))
<1> SUFFICES ASSUME NEW S, NEW c \in S
             PROVE  \E q \in Published(S) : q.owner = c.owner /\ q.type = c.type /\ q.data = c.data
  BY DEF Content
<1> DEFINE all == BaseRecords \cup {RecordOf(d) : d \in S}
           ttls(r) == {q.ttl : q \in {q \in all : RrsetKey(q) = RrsetKey(r)}}
           low(r) == CHOOSE t \in ttls(r) : \A u \in ttls(r) : t <= u
           r == RecordOf(c)
           q == [r EXCEPT !.ttl = low(r)]
<1>1. r \in all
  BY Zenon
<1>2. Published(S) = {[x EXCEPT !.ttl = low(x)] : x \in all}
  BY Zenon DEF Published
<1>3. q \in Published(S)
  <2> HIDE DEF all, low, r
  <2> QED BY <1>1, <1>2, Zenon
<1>4. q.owner = c.owner /\ q.type = c.type /\ q.data = c.data
  <2> HIDE DEF low
  <2> QED BY Zenon DEF RecordOf
<1> QED BY <1>3, <1>4, Zenon

---------------------------------------------------------------------------
(* Steps *)

\* What a mutation leaves stored, zone by zone.
LEMMA StoredIs ==
    ASSUME Inv, NEW z \in Zones, NEW now
    PROVE  /\ \A S, u : StoreAndSign(z, S, u, now) =>
                 \A y \in Zones : records'[y] = IF y = z THEN S ELSE records[y]
           /\ \A new : AddAndSign(z, new, now) =>
                 \A y \in Zones : records'[y] = IF y = z THEN records[z] \cup new ELSE records[y]
           /\ \A gone : RemoveAndSign(z, gone, now) =>
                 \A y \in Zones : records'[y] = IF y = z THEN records[z] \ gone ELSE records[y]
<1>1. \A S, u : StoreAndSign(z, S, u, now) =>
         \A y \in Zones : records'[y] = IF y = z THEN S ELSE records[y]
  BY Zenon DEF StoreAndSign, Inv, RecordsInv
<1>2. \A new : AddAndSign(z, new, now) =>
         \A y \in Zones : records'[y] = IF y = z THEN records[z] \cup new ELSE records[y]
  BY <1>1, Zenon DEF AddAndSign
<1>3. ASSUME NEW gone, RemoveAndSign(z, gone, now), NEW y \in Zones
      PROVE  records'[y] = IF y = z THEN records[z] \ gone ELSE records[y]
  <2>1. CASE gone = {}
    <3>1. records' = records
      BY <1>3, <2>1, Zenon DEF RemoveAndSign
    <3> QED BY <2>1, <3>1, Zenon
  <2>2. CASE gone # {}
    BY <1>1, <1>3, <2>2, Zenon DEF RemoveAndSign
  <2> QED BY <2>1, <2>2, Zenon
<1> QED BY <1>1, <1>2, <1>3, Zenon

\* A step under which nothing changes hands and nothing else is owed.
LEMMA NothingMoves ==
    ASSUME OwnedExactly,
           \A id \in RegistrationIds, z \in Zones :
              /\ RegistrationOwns(id, z)' = RegistrationOwns(id, z)
              /\ RegistrationOwes(id, z)' = RegistrationOwes(id, z),
           \A cid \in ChallengeIds, z \in Zones :
              /\ ChallengeOwns(cid, z)' = ChallengeOwns(cid, z)
              /\ ChallengeOwes(cid, z)' = ChallengeOwes(cid, z)
    PROVE  OwnedExactly'
BY Zenon DEF OwnedExactly

\* What a registration owes depends on the status, zone, host, remaining ports
\* and key of its row.
SameService(new, old) ==
    /\ new.status = old.status /\ new.zone = old.zone /\ new.host = old.host
    /\ new.active_ports = old.active_ports /\ new.signer = old.signer

\* A registration whose service data stays the same is owed the same contribution.
LEMMA SameServiceOwes ==
    ASSUME NEW id \in RegistrationIds,
           \/ registrations'[id] = registrations[id]
           \/ /\ Registered(id) /\ Registered(id)'
              /\ SameService(registrations'[id], registrations[id])
    PROVE  \A z : RegistrationOwes(id, z)' = RegistrationOwes(id, z)
BY Zenon DEF RegistrationOwes, IsActive, Registered, SameService

\* A registration that is admitted gets its records, in its zone.
LEMMA RegisterOwned ==
    ASSUME Inv, Inv', OwnedExactly, NEW now \in Times, NEW id \in RegistrationIds, NEW g \in Grants,
           NEW z \in Zones, NEW p \in RegisterParameters, NEW seconds \in LeaseSeconds,
           NEW certificate \in CertificateExpirations,
           Register(id, g, z, p, seconds, certificate, now)
    PROVE  OwnedExactly'
<1>1. PICK ttl : AddAndSign(z, ServiceRecords(id, p.host, p.ports, grants[g].subject, ttl), now)
  BY ZenonT(40) DEF Register
<1> DEFINE new == ServiceRecords(id, p.host, p.ports, grants[g].subject, ttl)
<1>2. \A y \in Zones : records'[y] = IF y = z THEN records[z] \cup new ELSE records[y]
  <2>1. AddAndSign(z, new, now)
    BY <1>1, Zenon
  <2> HIDE DEF new
  <2> QED BY <2>1, StoredIs, ZenonT(40)
<1>3. /\ \A c \in new : c.contributor = RegistrationContributor(id)
      /\ Content(new) = ServiceContent(p.host, p.ports, grants[g].subject)
  BY RecordsNameContributor, ServiceContentIs
<1>4. /\ registrations[id] = NoRow
      /\ \A i \in RegistrationIds \ {id} : registrations'[i] = registrations[i]
      /\ UNCHANGED challenges /\ id \in active_index'
  BY ZenonT(40) DEF Register, Inv, RowsInv
<1>5. IsActive(id)'
  BY <1>4, Zenon DEF Inv, RowsInv, IndexExact, ActiveIds
<1>6. /\ registrations'[id].zone = z /\ registrations'[id].host = p.host
      /\ registrations'[id].active_ports = p.ports
      /\ registrations'[id].signer = grants[g].subject
  BY ZenonT(40) DEF Register, Inv, RowsInv
<1> HIDE DEF new
<1>7. \A y \in Zones : \A k : k # RegistrationContributor(id) =>
         OwnedBy(records'[y], k) = OwnedBy(records[y], k)
  BY <1>2, <1>3, Zenon DEF OwnedBy
<1>8. ASSUME NEW i \in RegistrationIds, NEW y \in Zones
      PROVE  Content(RegistrationOwns(i, y)') = RegistrationOwes(i, y)'
  <2>1. CASE i # id
    <3>1. RegistrationOwns(i, y)' = RegistrationOwns(i, y)
      BY <1>7, <2>1, ContributorsDiffer, Zenon DEF RegistrationOwns
    <3>2. RegistrationOwes(i, y)' = RegistrationOwes(i, y)
      BY <1>4, <2>1, SameServiceOwes, Zenon
    <3> QED BY <3>1, <3>2, Zenon DEF OwnedExactly
  <2>2. CASE i = id
    <3>1. RegistrationOwns(id, y) = {}
      <4>1. Content(RegistrationOwns(id, y)) = {}
        BY <1>4, Zenon DEF OwnedExactly, RegistrationOwes, IsActive, Registered
      <4> QED BY <4>1, ContentEmpty, Zenon
    <3>2. RegistrationOwns(id, y)' = IF y = z THEN new ELSE {}
      BY <1>2, <1>3, <3>1, Zenon DEF RegistrationOwns, OwnedBy
    <3>3. RegistrationOwes(id, y)' =
             IF y = z THEN ServiceContent(p.host, p.ports, grants[g].subject) ELSE {}
      BY <1>5, <1>6, Zenon DEF RegistrationOwes
    <3> QED BY <1>3, <2>2, <3>2, <3>3, ContentEmpty, Zenon
  <2> QED BY <2>1, <2>2, Zenon
<1>9. ASSUME NEW cid \in ChallengeIds, NEW y \in Zones
      PROVE  Content(ChallengeOwns(cid, y)') = ChallengeOwes(cid, y)'
  <2>1. ChallengeOwns(cid, y)' = ChallengeOwns(cid, y)
    BY <1>7, ContributorsDiffer, Zenon DEF ChallengeOwns
  <2>2. ChallengeOwes(cid, y)' = ChallengeOwes(cid, y)
    BY <1>4, Zenon DEF ChallengeOwes
  <2> QED BY <2>1, <2>2, Zenon DEF OwnedExactly
<1> QED BY <1>8, <1>9, Zenon DEF OwnedExactly

\* A renewal keeps what the registration owes and touches no record.
LEMMA RenewOwned ==
    ASSUME Inv, Inv', OwnedExactly, NEW now, NEW id \in RegistrationIds, Registered(id),
           NEW seconds, NEW renewed, RenewLease(id, renewed, seconds, now),
           \A l : SameService([renewed EXCEPT !.lease_expires_at = l], registrations[id])
    PROVE  OwnedExactly'
<1>1. UNCHANGED <<records, challenges>> /\ id \in active_index'
  BY Zenon DEF RenewLease
<1>2. PICK lease : registrations' = [registrations EXCEPT ![id] =
                                        [renewed EXCEPT !.lease_expires_at = lease]]
  BY Zenon DEF RenewLease
<1> DEFINE new == [renewed EXCEPT !.lease_expires_at = lease]
<1>3. SameService(new, registrations[id])
  BY Zenon
<1>4. \A i \in RegistrationIds : registrations'[i] = IF i = id THEN new ELSE registrations[i]
  BY <1>2, Zenon DEF Inv, RowsInv
<1>5. Registered(id)'
  BY <1>1, Zenon DEF Inv, RowsInv, IndexExact, ActiveIds, IsActive
<1> HIDE DEF new
<1>6. \A i \in RegistrationIds : \A z : RegistrationOwes(i, z)' = RegistrationOwes(i, z)
  BY <1>3, <1>4, <1>5, SameServiceOwes, Zenon
<1> QED BY <1>1, <1>6, NothingMoves, Zenon DEF RegistrationOwns, ChallengeOwns, ChallengeOwes

\* A registration that is withdrawn loses all its records.
LEMMA DeregisterAllOwned ==
    ASSUME Inv, OwnedExactly, NEW now, NEW id \in RegistrationIds, DeregisterAll(id, now)
    PROVE  OwnedExactly'
<1> DEFINE z == registrations[id].zone
           k == RegistrationContributor(id)
           gone == OwnedBy(records[z], k)
<1>1. /\ registrations[id] \in Registration /\ z \in Zones
      /\ RemoveAndSign(z, gone, now) /\ UNCHANGED challenges
      /\ \A i \in RegistrationIds \ {id} : registrations'[i] = registrations[i]
      /\ registrations'[id].status = "withdrawn"
  BY Zenon DEF DeregisterAll, MayDeregister, Inv, RowsInv, Registration
<1>2. \A c \in gone : c.contributor = k
  BY Zenon DEF OwnedBy
<1> HIDE DEF z, k
<1>3. /\ \A y \in Zones : \A o : o # k => OwnedBy(records'[y], o) = OwnedBy(records[y], o)
      /\ \A y \in Zones : OwnedBy(records'[y], k) =
                             IF y = z THEN OwnedBy(records[y], k) \ gone ELSE OwnedBy(records[y], k)
  <2>1. z \in Zones /\ RemoveAndSign(z, gone, now)
    BY <1>1, Zenon
  <2> HIDE DEF gone
  <2>2. \A y \in Zones : records'[y] = IF y = z THEN records[z] \ gone ELSE records[y]
    BY <2>1, StoredIs, ZenonT(40)
  <2> QED BY <1>2, <2>2, Zenon DEF OwnedBy
<1>4. ASSUME NEW i \in RegistrationIds, NEW y \in Zones
      PROVE  Content(RegistrationOwns(i, y)') = RegistrationOwes(i, y)'
  <2>1. CASE i # id
    <3>1. RegistrationOwns(i, y)' = RegistrationOwns(i, y)
      BY <1>3, <2>1, ContributorsDiffer DEF RegistrationOwns, k
    <3>2. RegistrationOwes(i, y)' = RegistrationOwes(i, y)
      BY <1>1, <2>1, SameServiceOwes, Zenon
    <3> QED BY <3>1, <3>2, Zenon DEF OwnedExactly
  <2>2. CASE i = id
    <3>1. RegistrationOwes(id, y)' = {}
      BY <1>1, Zenon DEF RegistrationOwes, IsActive
    <3>2. CASE y = z
      <4>1. OwnedBy(records'[y], k) = {}
        BY <1>3, <3>2, Zenon
      <4> QED BY <2>2, <3>1, <4>1, ContentEmpty, Zenon DEF RegistrationOwns, k
    <3>3. CASE y # z
      <4>1. RegistrationOwes(id, y) = {}
        BY <3>3, Zenon DEF RegistrationOwes, z
      <4>2. RegistrationOwns(id, y)' = RegistrationOwns(id, y)
        BY <1>3, <3>3, ZenonT(40) DEF RegistrationOwns, k
      <4> QED BY <2>2, <3>1, <4>1, <4>2, Zenon DEF OwnedExactly
    <3> QED BY <3>2, <3>3, Zenon
  <2> QED BY <2>1, <2>2, Zenon
<1>5. ASSUME NEW cid \in ChallengeIds, NEW y \in Zones
      PROVE  Content(ChallengeOwns(cid, y)') = ChallengeOwes(cid, y)'
  <2>1. ChallengeOwns(cid, y)' = ChallengeOwns(cid, y)
    BY <1>3, ContributorsDiffer DEF ChallengeOwns, k
  <2>2. ChallengeOwes(cid, y)' = ChallengeOwes(cid, y)
    BY <1>1, Zenon DEF ChallengeOwes
  <2> QED BY <2>1, <2>2, Zenon DEF OwnedExactly
<1> QED BY <1>4, <1>5, Zenon DEF OwnedExactly

\* The records that are not at the TLSA owners of some ports.
Beside(S, selected, host) == {c \in S : c.owner \notin selected \X {host}}

\* What remains of a service when some of its ports go: the record of the host
\* has no port label, so it stays.
LEMMA PortsRemoved ==
    ASSUME NEW S, NEW host, NEW ports \in SUBSET Ports, NEW signer, NEW selected \in SUBSET Ports,
           Content(S) = ServiceContent(host, ports, signer)
    PROVE  Content(Beside(S, selected, host)) = ServiceContent(host, ports \ selected, signer)
<1> DEFINE plain(c) == [owner |-> c.owner, type |-> c.type, data |-> c.data]
           a == [owner |-> <<"", host>>, type |-> "A", data |-> host]
           t(p) == [owner |-> <<p, host>>, type |-> "TLSA", data |-> signer]
           kept == {c \in S : c.owner \notin selected \X {host}}
<1>1. /\ Content(S) = {plain(c) : c \in S} /\ Content(kept) = {plain(c) : c \in kept}
      /\ \A P : ServiceContent(host, P, signer) = {a} \cup {t(p) : p \in P}
  BY Zenon DEF Content, ServiceContent
<1>2. \A c : plain(c).owner = c.owner
  BY Zenon
<1>3. a.owner \notin selected \X {host}
  BY NameAssumption, Zenon
<1>4. \A p : t(p).owner \in selected \X {host} <=> p \in selected
  BY Zenon
<1>5. {plain(c) : c \in kept} = {x \in {plain(c) : c \in S} : x.owner \notin selected \X {host}}
  <2> HIDE DEF plain
  <2> QED BY <1>2, Zenon
<1>6. {x \in {a} \cup {t(p) : p \in ports} : x.owner \notin selected \X {host}} =
         {a} \cup {t(p) : p \in ports \ selected}
  <2> HIDE DEF a, t
  <2> QED BY <1>3, <1>4, Zenon
<1> HIDE DEF plain, a, t, kept
<1>7. Content(kept) = ServiceContent(host, ports \ selected, signer)
  BY <1>1, <1>5, <1>6, ZenonT(40)
<1> QED BY <1>7, Zenon DEF kept, Beside

\* Deregistering ports takes the TLSA records of those ports and no other.
LEMMA DeregisterPortsOwned ==
    ASSUME Inv, Inv', OwnedExactly, NEW now, NEW id \in RegistrationIds,
           NEW selected \in SUBSET Ports, DeregisterPorts(id, selected, now)
    PROVE  OwnedExactly'
<1> DEFINE r == registrations[id]
           z == r.zone
           k == RegistrationContributor(id)
           gone == {c \in OwnedBy(records[z], k) : c.owner \in selected \X {r.host}}
<1>1. r \in Registration /\ r # NoRow
  BY Zenon DEF DeregisterPorts, MayDeregister, Inv, RowsInv
<1>2. /\ z \in Zones /\ r.active_ports \in SUBSET Ports
      /\ RemoveAndSign(z, gone, now) /\ UNCHANGED <<challenges, active_index>>
      /\ \A i \in RegistrationIds \ {id} : registrations'[i] = registrations[i]
      /\ registrations'[id].status = r.status /\ registrations'[id].zone = r.zone
      /\ registrations'[id].host = r.host /\ registrations'[id].signer = r.signer
      /\ registrations'[id].active_ports = r.active_ports \ selected
  BY <1>1, Zenon DEF DeregisterPorts, Inv, RowsInv, Registration
<1>3. \A c \in gone : c.contributor = k
  BY Zenon DEF OwnedBy
<1>4. IsActive(id)' <=> IsActive(id)
  BY <1>2, Zenon DEF Inv, RowsInv, IndexExact, ActiveIds
<1> HIDE DEF r, z, k
<1>5. /\ \A y \in Zones : \A o : o # k => OwnedBy(records'[y], o) = OwnedBy(records[y], o)
      /\ \A y \in Zones : OwnedBy(records'[y], k) =
                             IF y = z THEN OwnedBy(records[y], k) \ gone ELSE OwnedBy(records[y], k)
  <2>1. z \in Zones /\ RemoveAndSign(z, gone, now)
    BY <1>2, Zenon
  <2> HIDE DEF gone
  <2>2. \A y \in Zones : records'[y] = IF y = z THEN records[z] \ gone ELSE records[y]
    BY <2>1, StoredIs, Zenon
  <2> QED BY <1>3, <2>2, Zenon DEF OwnedBy
<1>6. ASSUME NEW i \in RegistrationIds, NEW y \in Zones
      PROVE  Content(RegistrationOwns(i, y)') = RegistrationOwes(i, y)'
  <2>1. CASE i # id
    <3>1. RegistrationOwns(i, y)' = RegistrationOwns(i, y)
      BY <1>5, <2>1, ContributorsDiffer, SMTT(30) DEF RegistrationOwns, k
    <3>2. RegistrationOwes(i, y)' = RegistrationOwes(i, y)
      BY <1>2, <2>1, SameServiceOwes, Zenon
    <3> QED BY <3>1, <3>2, Zenon DEF OwnedExactly
  <2>2. CASE i = id /\ y # z
    <3>1. RegistrationOwns(id, y)' = RegistrationOwns(id, y)
      BY <1>5, <2>2, ZenonT(40) DEF RegistrationOwns, k
    <3>2. RegistrationOwes(id, y)' = {} /\ RegistrationOwes(id, y) = {}
      BY <1>2, <2>2, Zenon DEF RegistrationOwes, z, r
    <3> QED BY <2>2, <3>1, <3>2, Zenon DEF OwnedExactly
  <2>3. CASE i = id /\ y = z
    <3> DEFINE S == RegistrationOwns(id, y)
               kept == Beside(S, selected, r.host)
    <3>0. Content(S) = RegistrationOwes(id, y)
      BY Zenon DEF OwnedExactly
    <3>1. RegistrationOwns(id, y)' = kept
      BY <1>5, <2>3, ZenonT(40) DEF RegistrationOwns, Beside, k
    <3>2. CASE IsActive(id)
      <4>1. Content(S) = ServiceContent(r.host, r.active_ports, r.signer)
        BY <2>3, <3>0, <3>2, Zenon DEF RegistrationOwes, r, z
      <4>2. Content(kept) = ServiceContent(r.host, r.active_ports \ selected, r.signer)
        <5> HIDE DEF S
        <5> QED BY <1>2, <4>1, PortsRemoved, SMTT(30)
      <4>3. RegistrationOwes(id, y)' = ServiceContent(r.host, r.active_ports \ selected, r.signer)
        BY <1>2, <1>4, <2>3, <3>2, Zenon DEF RegistrationOwes, z
      <4> QED BY <2>3, <3>1, <4>2, <4>3, Zenon
    <3>3. CASE ~ IsActive(id)
      <4>1. RegistrationOwes(id, y)' = {} /\ RegistrationOwes(id, y) = {}
        BY <1>4, <3>3, Zenon DEF RegistrationOwes
      <4>2. S = {}
        BY <3>0, <4>1, ContentEmpty, Zenon
      <4>3. RegistrationOwns(id, y)' = {}
        BY <3>1, <4>2, Zenon DEF Beside
      <4> QED BY <2>3, <4>1, <4>3, ContentEmpty, Zenon
    <3> QED BY <3>2, <3>3, Zenon
  <2> QED BY <2>1, <2>2, <2>3, Zenon
<1>7. ASSUME NEW cid \in ChallengeIds, NEW y \in Zones
      PROVE  Content(ChallengeOwns(cid, y)') = ChallengeOwes(cid, y)'
  <2>1. ChallengeOwns(cid, y)' = ChallengeOwns(cid, y)
    BY <1>5, ContributorsDiffer, SMTT(30) DEF ChallengeOwns, k
  <2>2. ChallengeOwes(cid, y)' = ChallengeOwes(cid, y)
    BY <1>2, Zenon DEF ChallengeOwes
  <2> QED BY <2>1, <2>2, Zenon DEF OwnedExactly
<1> QED BY <1>6, <1>7, Zenon DEF OwnedExactly

\* A challenge that is created gets its record, in the zone of its registration.
LEMMA ChallengeCreateOwned ==
    ASSUME Inv, OwnedExactly, NEW now \in Times, NEW cid \in ChallengeIds, NEW g \in Grants,
           NEW id \in RegistrationIds, NEW lifetime \in LeaseSeconds,
           AcmeChallengeCreate(cid, g, id, lifetime, now)
    PROVE  OwnedExactly'
<1> DEFINE r == registrations[id]
<1>1. PICK ttl : AddAndSign(r.zone, {ChallengeRecord(cid, r.host, ttl)}, now)
  BY ZenonT(40) DEF AcmeChallengeCreate
<1> DEFINE new == ChallengeRecord(cid, r.host, ttl)
<1>2. r \in Registration
  BY Zenon DEF AcmeChallengeCreate, ActiveRegistration, Inv, RowsInv
<1>3. r.zone \in Zones
  BY <1>2, ZenonT(40) DEF Registration
<1>4. \A y \in Zones : records'[y] = IF y = r.zone THEN records[r.zone] \cup {new} ELSE records[y]
  <2>1. AddAndSign(r.zone, {new}, now)
    BY <1>1, Zenon
  <2> HIDE DEF new, r
  <2> QED BY <1>3, <2>1, StoredIs, ZenonT(40)
<1>5. new.contributor = ChallengeContributor(cid) /\ Content({new}) = ChallengeContent(cid, r.host)
  BY RecordsNameContributor, ChallengeContentIs, Zenon
<1>6. /\ challenges[cid] = NoRow /\ UNCHANGED registrations
      /\ \A i \in ChallengeIds \ {cid} : challenges'[i] = challenges[i]
  BY Zenon DEF AcmeChallengeCreate, Inv, RowsInv
<1>7. challenges'[cid].zone = r.zone /\ challenges'[cid].name = r.host
  BY Zenon DEF AcmeChallengeCreate, Inv, RowsInv
<1>8. challenges'[cid] # NoRow
  <2> DEFINE row == grants[g]
             expires == Minimum({now + lifetime, row.valid_until, r.lease_expires_at})
             c == [grant |-> g, registration |-> id, zone |-> r.zone, name |-> r.host,
                   signer |-> row.subject, expires_at |-> expires]
  <2>1. challenges' = [challenges EXCEPT ![cid] = c] /\ row \in OwnerGrant
    BY Zenon DEF AcmeChallengeCreate, Authorized, Inv, RowsInv
  <2>2. row.subject \in Keys /\ row.valid_until \in Nat
    <3> HIDE DEF row
    <3> QED BY <2>1, Zenon DEF OwnerGrant
  <2>3. r.host \in Hosts /\ r.lease_expires_at \in Nat
    <3> HIDE DEF r
    <3> QED BY <1>2, Zenon DEF Registration
  <2>4. now + lifetime \in Nat
    BY RowAssumption, SettingsAssumption DEF Times
  <2> HIDE DEF r, row
  <2>5. expires \in Nat
    BY <2>2, <2>3, <2>4, MinimumOfThree, Zenon
  <2> HIDE DEF expires
  <2>6. c \in AcmeChallenge
    BY <1>3, <2>2, <2>3, <2>5, Zenon DEF AcmeChallenge
  <2> HIDE DEF c
  <2> QED BY <2>1, <2>6, NoRowAssumption, Zenon DEF Inv, RowsInv
<1> HIDE DEF new, r
<1>9. \A y \in Zones : \A k : k # ChallengeContributor(cid) =>
         OwnedBy(records'[y], k) = OwnedBy(records[y], k)
  BY <1>4, <1>5, Zenon DEF OwnedBy
<1>10. ASSUME NEW i \in RegistrationIds, NEW y \in Zones
       PROVE  Content(RegistrationOwns(i, y)') = RegistrationOwes(i, y)'
  <2>1. RegistrationOwns(i, y)' = RegistrationOwns(i, y)
    BY <1>9, ContributorsDiffer, Zenon DEF RegistrationOwns
  <2>2. RegistrationOwes(i, y)' = RegistrationOwes(i, y)
    BY <1>6, SameServiceOwes, Zenon
  <2> QED BY <2>1, <2>2, Zenon DEF OwnedExactly
<1>11. ASSUME NEW i \in ChallengeIds, NEW y \in Zones
       PROVE  Content(ChallengeOwns(i, y)') = ChallengeOwes(i, y)'
  <2>1. CASE i # cid
    <3>1. ChallengeOwns(i, y)' = ChallengeOwns(i, y)
      BY <1>9, <2>1, ContributorsDiffer, Zenon DEF ChallengeOwns
    <3>2. ChallengeOwes(i, y)' = ChallengeOwes(i, y)
      BY <1>6, <2>1, Zenon DEF ChallengeOwes
    <3> QED BY <3>1, <3>2, Zenon DEF OwnedExactly
  <2>2. CASE i = cid
    <3>1. ChallengeOwns(cid, y) = {}
      <4>1. Content(ChallengeOwns(cid, y)) = {}
        BY <1>6, ZenonT(40) DEF OwnedExactly, ChallengeOwes
      <4> QED BY <4>1, ContentEmpty, Zenon
    <3>2. ChallengeOwns(cid, y)' = IF y = r.zone THEN {new} ELSE {}
      BY <1>4, <1>5, <3>1, Zenon DEF ChallengeOwns, OwnedBy
    <3>3. ChallengeOwes(cid, y)' = IF y = r.zone THEN ChallengeContent(cid, r.host) ELSE {}
      BY <1>7, <1>8, Zenon DEF ChallengeOwes
    <3> QED BY <1>5, <2>2, <3>2, <3>3, ContentEmpty, Zenon
  <2> QED BY <2>1, <2>2, Zenon
<1> QED BY <1>10, <1>11, Zenon DEF OwnedExactly

\* A challenge that is deleted loses its record with its row.
LEMMA ChallengeDeleteOwned ==
    ASSUME Inv, OwnedExactly, NEW now, NEW cid \in ChallengeIds, AcmeChallengeDelete(cid, now)
    PROVE  OwnedExactly'
<1> DEFINE z == challenges[cid].zone
           k == ChallengeContributor(cid)
           gone == OwnedBy(records[z], k)
<1>1. /\ challenges[cid] # NoRow /\ z \in Zones
      /\ RemoveAndSign(z, gone, now) /\ UNCHANGED registrations
      /\ challenges'[cid] = NoRow
      /\ \A i \in ChallengeIds \ {cid} : challenges'[i] = challenges[i]
  BY Zenon DEF AcmeChallengeDelete, Inv, RowsInv, AcmeChallenge
<1>2. \A c \in gone : c.contributor = k
  BY Zenon DEF OwnedBy
<1> HIDE DEF z, k
<1>3. /\ \A y \in Zones : \A o : o # k => OwnedBy(records'[y], o) = OwnedBy(records[y], o)
      /\ \A y \in Zones : OwnedBy(records'[y], k) =
                             IF y = z THEN OwnedBy(records[y], k) \ gone ELSE OwnedBy(records[y], k)
  <2>1. z \in Zones /\ RemoveAndSign(z, gone, now)
    BY <1>1, Zenon
  <2> HIDE DEF gone
  <2>2. \A y \in Zones : records'[y] = IF y = z THEN records[z] \ gone ELSE records[y]
    BY <2>1, StoredIs, ZenonT(40)
  <2> QED BY <1>2, <2>2, Zenon DEF OwnedBy
<1>4. ASSUME NEW i \in RegistrationIds, NEW y \in Zones
      PROVE  Content(RegistrationOwns(i, y)') = RegistrationOwes(i, y)'
  <2>1. RegistrationOwns(i, y)' = RegistrationOwns(i, y)
    BY <1>3, ContributorsDiffer, SMTT(30) DEF RegistrationOwns, k
  <2>2. RegistrationOwes(i, y)' = RegistrationOwes(i, y)
    BY <1>1, SameServiceOwes, Zenon
  <2> QED BY <2>1, <2>2, Zenon DEF OwnedExactly
<1>5. ASSUME NEW i \in ChallengeIds, NEW y \in Zones
      PROVE  Content(ChallengeOwns(i, y)') = ChallengeOwes(i, y)'
  <2>1. CASE i # cid
    <3>1. ChallengeOwns(i, y)' = ChallengeOwns(i, y)
      BY <1>3, <2>1, ContributorsDiffer, ZenonT(40) DEF ChallengeOwns, k
    <3>2. ChallengeOwes(i, y)' = ChallengeOwes(i, y)
      BY <1>1, <2>1, Zenon DEF ChallengeOwes
    <3> QED BY <3>1, <3>2, Zenon DEF OwnedExactly
  <2>2. CASE i = cid
    <3>1. ChallengeOwes(cid, y)' = {}
      BY <1>1, Zenon DEF ChallengeOwes
    <3>2. CASE y = z
      <4>1. OwnedBy(records'[y], k) = {}
        BY <1>3, <3>2, ZenonT(40)
      <4> QED BY <2>2, <3>1, <4>1, ContentEmpty, Zenon DEF ChallengeOwns, k
    <3>3. CASE y # z
      <4>1. ChallengeOwes(cid, y) = {}
        BY <3>3, Zenon DEF ChallengeOwes, z
      <4>2. ChallengeOwns(cid, y)' = ChallengeOwns(cid, y)
        BY <1>3, <3>3, ZenonT(40) DEF ChallengeOwns, k
      <4> QED BY <2>2, <3>1, <4>1, <4>2, Zenon DEF OwnedExactly
    <3> QED BY <3>2, <3>3, Zenon
  <2> QED BY <2>1, <2>2, Zenon
<1> QED BY <1>4, <1>5, Zenon DEF OwnedExactly

\* An operator adds and removes its own records only.
LEMMA OperatorOwned ==
    ASSUME Inv, OwnedExactly, NEW now, NEW g, NEW z \in Zones, NEW ms, NEW serial,
           OperatorRecords(g, z, ms, serial, now)
    PROVE  OwnedExactly'
<1> DEFINE k(i) == OperatorContributor(g, ms[i])
           removed(i) == IF ms[i].action = "add" THEN {} ELSE OwnedBy(records[z], k(i))
           rec(i, d) == [contributor |-> k(i), owner |-> ms[i].owner,
                         type |-> ms[i].type, data |-> d, ttl |-> ms[i].ttl]
           added(i) == {rec(i, d) : d \in ms[i].data}
           gone == UNION {removed(j) : j \in DOMAIN ms}
           new == UNION {added(j) : j \in DOMAIN ms}
           after == (records[z] \ gone) \cup new
<1>1. /\ StoreAndSign(z, after, UsageShift(usage[z], records[z], after), now)
      /\ UNCHANGED <<registrations, challenges>>
  BY Zenon DEF OperatorRecords
<1>2. \A c \in gone : \E i \in DOMAIN ms : c.contributor = k(i)
  <2>1. \A i \in DOMAIN ms : \A c \in removed(i) : c.contributor = k(i)
    BY Zenon DEF OwnedBy
  <2> HIDE DEF removed, k
  <2> QED BY <2>1, SMTT(30)
<1>3. \A c \in new : \E i \in DOMAIN ms : c.contributor = k(i)
  <2>1. \A i \in DOMAIN ms : \A c \in added(i) : c.contributor = k(i)
    BY SMTT(30)
  <2> HIDE DEF added, k
  <2> QED BY <2>1, SMTT(30)
<1>4. \A y \in Zones : records'[y] = IF y = z THEN after ELSE records[y]
  <2> HIDE DEF after
  <2> QED BY <1>1, StoredIs, ZenonT(40)
<1> HIDE DEF gone, new
<1>5. \A y \in Zones : \A o : (\A i \in DOMAIN ms : o # k(i)) =>
         OwnedBy(records'[y], o) = OwnedBy(records[y], o)
  <2> HIDE DEF k
  <2> QED BY <1>2, <1>3, <1>4, Zenon DEF OwnedBy
<1>6. \A i \in RegistrationIds, y \in Zones :
         /\ RegistrationOwns(i, y)' = RegistrationOwns(i, y)
         /\ RegistrationOwes(i, y)' = RegistrationOwes(i, y)
  BY <1>1, <1>5, ContributorsDiffer, SameServiceOwes, SMTT(30) DEF RegistrationOwns
<1>7. \A i \in ChallengeIds, y \in Zones :
         /\ ChallengeOwns(i, y)' = ChallengeOwns(i, y)
         /\ ChallengeOwes(i, y)' = ChallengeOwes(i, y)
  BY <1>1, <1>5, ContributorsDiffer, SMTT(30) DEF ChallengeOwns, ChallengeOwes
<1> QED BY <1>6, <1>7, NothingMoves, Zenon

\* Maintenance takes from each zone what its ended registrations and challenges
\* own there, and nothing else.
LEMMA MaintenanceOwned ==
    ASSUME Inv, Inv', OwnedExactly, NEW now \in Times, Maintenance(now)
    PROVE  OwnedExactly'
<1> DEFINE over(z) == {RegistrationContributor(id) : id \in {i \in Ended(now) : registrations[i].zone = z}}
           done(z) == {ChallengeContributor(cid) :
                          cid \in {i \in EndedChallenges(now) : challenges[i].zone = z}}
<1>1. /\ \A z \in Zones : records'[z] = records[z] \ Withdrawn(z, now)
      /\ \A id \in RegistrationIds : registrations'[id] = SettledRegistration(id, now)
      /\ \A cid \in ChallengeIds : challenges'[cid] =
            IF cid \in EndedChallenges(now) THEN NoRow ELSE challenges[cid]
      /\ active_index' = active_index \ Ended(now)
  BY ZenonT(40) DEF Maintenance
<1>2. \A z \in Zones : Withdrawn(z, now) = {c \in records[z] : c.contributor \in over(z) \cup done(z)}
  BY Zenon DEF Withdrawn
<1>3. \A z \in Zones, id \in RegistrationIds :
         RegistrationContributor(id) \in over(z) \cup done(z) <=>
            id \in Ended(now) /\ registrations[id].zone = z
  BY ContributorsDiffer, Zenon
<1>4. \A z \in Zones, cid \in ChallengeIds :
         ChallengeContributor(cid) \in over(z) \cup done(z) <=>
            cid \in EndedChallenges(now) /\ challenges[cid].zone = z
  BY ContributorsDiffer, Zenon
<1> HIDE DEF over, done
<1>5. \A z \in Zones : \A k : OwnedBy(records'[z], k) =
         IF k \in over(z) \cup done(z) THEN {} ELSE OwnedBy(records[z], k)
  BY <1>1, <1>2, Zenon DEF OwnedBy
<1>6. ASSUME NEW id \in RegistrationIds, NEW z \in Zones
      PROVE  Content(RegistrationOwns(id, z)') = RegistrationOwes(id, z)'
  <2>1. CASE id \in Ended(now)
    <3>1. ~ IsActive(id)'
      BY <1>1, <2>1, Zenon DEF Inv, RowsInv, IndexExact, ActiveIds
    <3>2. RegistrationOwes(id, z)' = {}
      BY <3>1, Zenon DEF RegistrationOwes
    <3>3. CASE registrations[id].zone = z
      <4>1. RegistrationOwns(id, z)' = {}
        BY <1>3, <1>5, <2>1, <3>3, Zenon DEF RegistrationOwns
      <4> QED BY <3>2, <4>1, ContentEmpty, Zenon
    <3>4. CASE registrations[id].zone # z
      <4>1. RegistrationOwns(id, z)' = RegistrationOwns(id, z)
        BY <1>3, <1>5, <3>4, Zenon DEF RegistrationOwns
      <4>2. RegistrationOwes(id, z) = {}
        BY <3>4, Zenon DEF RegistrationOwes
      <4> QED BY <3>2, <4>1, <4>2, Zenon DEF OwnedExactly
    <3> QED BY <3>3, <3>4, Zenon
  <2>2. CASE id \notin Ended(now)
    <3>1. RegistrationOwns(id, z)' = RegistrationOwns(id, z)
      BY <1>3, <1>5, <2>2, Zenon DEF RegistrationOwns
    <3>2. RegistrationOwes(id, z)' = RegistrationOwes(id, z)
      <4>1. registrations'[id] = registrations[id]
        BY <1>1, <2>2, Zenon DEF SettledRegistration
      <4> QED BY <4>1, SameServiceOwes, ZenonT(40)
    <3> QED BY <3>1, <3>2, Zenon DEF OwnedExactly
  <2> QED BY <2>1, <2>2, Zenon
<1>7. ASSUME NEW cid \in ChallengeIds, NEW z \in Zones
      PROVE  Content(ChallengeOwns(cid, z)') = ChallengeOwes(cid, z)'
  <2>1. CASE cid \in EndedChallenges(now)
    <3>1. ChallengeOwes(cid, z)' = {}
      BY <1>1, <2>1, Zenon DEF ChallengeOwes
    <3>2. CASE challenges[cid].zone = z
      <4>1. ChallengeOwns(cid, z)' = {}
        BY <1>4, <1>5, <2>1, <3>2, ZenonT(40) DEF ChallengeOwns
      <4> QED BY <3>1, <4>1, ContentEmpty, Zenon
    <3>3. CASE challenges[cid].zone # z
      <4>1. ChallengeOwns(cid, z)' = ChallengeOwns(cid, z)
        BY <1>4, <1>5, <3>3, ZenonT(40) DEF ChallengeOwns
      <4>2. ChallengeOwes(cid, z) = {}
        BY <3>3, Zenon DEF ChallengeOwes
      <4> QED BY <3>1, <4>1, <4>2, Zenon DEF OwnedExactly
    <3> QED BY <3>2, <3>3, Zenon
  <2>2. CASE cid \notin EndedChallenges(now)
    <3>1. ChallengeOwns(cid, z)' = ChallengeOwns(cid, z)
      BY <1>4, <1>5, <2>2, Zenon DEF ChallengeOwns
    <3>2. ChallengeOwes(cid, z)' = ChallengeOwes(cid, z)
      BY <1>1, <2>2, ZenonT(40) DEF ChallengeOwes
    <3> QED BY <3>1, <3>2, Zenon DEF OwnedExactly
  <2> QED BY <2>1, <2>2, Zenon
<1> QED BY <1>6, <1>7, Zenon DEF OwnedExactly

\* Every accepted mutation keeps it.
LEMMA MutateOwned ==
    ASSUME Inv, Inv', OwnedExactly, NEW now \in Times, Mutate(now)
    PROVE  OwnedExactly'
<1>1. CASE \E id \in RegistrationIds, g \in Grants, z \in Zones, p \in RegisterParameters,
              seconds \in LeaseSeconds, certificate \in CertificateExpirations :
              Register(id, g, z, p, seconds, certificate, now)
  BY <1>1, RegisterOwned, Zenon
<1>2. ASSUME NEW id \in RegistrationIds, NEW profile \in Profiles, NEW seconds \in LeaseSeconds,
             NEW certificate \in CertificateExpirations,
             RenewWithEvidence(id, profile, certificate, seconds, now)
      PROVE  OwnedExactly'
  <2> DEFINE r == registrations[id]
             policy == policies[r.zone]
             deadline == AppraisalValidUntil(policy, certificate, now)
             renewed == [r EXCEPT !.policy_valid_until = policy.valid_until,
                                  !.reappraisal_deadline = deadline,
                                  !.policy_id = policy.policy_id]
  <2>1. Registered(id) /\ RenewLease(id, renewed, seconds, now)
    BY <1>2, Zenon DEF RenewWithEvidence, Registered
  <2>2. r \in Registration
    BY <2>1, Zenon DEF Inv, RowsInv, Registered
  <2>3. \A l : SameService([renewed EXCEPT !.lease_expires_at = l], r)
    <3> HIDE DEF r, policy, deadline
    <3> QED BY <2>2, Zenon DEF SameService, Registration
  <2> HIDE DEF renewed
  <2> QED BY <2>1, <2>3, RenewOwned, Zenon
<1>3. ASSUME NEW id \in RegistrationIds, NEW seconds \in LeaseSeconds,
             RenewWithoutEvidence(id, seconds, now)
      PROVE  OwnedExactly'
  <2> DEFINE r == registrations[id]
  <2>1. Registered(id) /\ RenewLease(id, r, seconds, now)
    BY <1>3, ZenonT(40) DEF RenewWithoutEvidence, Registered
  <2>2. r \in Registration
    BY <2>1, Zenon DEF Inv, RowsInv, Registered
  <2>3. \A l : SameService([r EXCEPT !.lease_expires_at = l], r)
    <3> HIDE DEF r
    <3> QED BY <2>2, Zenon DEF SameService, Registration
  <2> QED BY <2>1, <2>3, RenewOwned, Zenon
<1>4. CASE \E id \in RegistrationIds : DeregisterAll(id, now)
  BY <1>4, DeregisterAllOwned, Zenon
<1>5. CASE \E id \in RegistrationIds, selected \in SUBSET Ports :
              DeregisterPorts(id, selected, now)
  BY <1>5, DeregisterPortsOwned, Zenon
<1>6. CASE \E cid \in ChallengeIds, g \in Grants, id \in RegistrationIds,
              lifetime \in LeaseSeconds :
              AcmeChallengeCreate(cid, g, id, lifetime, now)
  BY <1>6, ChallengeCreateOwned, Zenon
<1>7. CASE \E cid \in ChallengeIds : AcmeChallengeDelete(cid, now)
  BY <1>7, ChallengeDeleteOwned, Zenon
<1>8. CASE \E g \in Grants, z \in Zones, ms \in OperatorRequests,
              serial \in 0 .. (SerialModulus - 1) :
              OperatorRecords(g, z, ms, serial, now)
  BY <1>8, OperatorOwned, Zenon
<1> QED BY <1>1, <1>2, <1>3, <1>4, <1>5, <1>6, <1>7, <1>8, Zenon DEF Mutate

\* So does every step, and it holds of the empty tables.
LEMMA OwnedStep == Inv /\ Inv' /\ OwnedExactly /\ [Next]_vars => OwnedExactly'
<1> SUFFICES ASSUME Inv, Inv', OwnedExactly, [Next]_vars PROVE OwnedExactly'
  BY Zenon
<1>1. CASE \E now \in Times : Mutate(now)
  BY <1>1, MutateOwned, Zenon
<1>2. CASE \E now \in Times : Maintenance(now)
  BY <1>2, MaintenanceOwned, Zenon
<1>3. ASSUME UNCHANGED <<registrations, challenges, records>> PROVE OwnedExactly'
  BY <1>3, Zenon DEF OwnedExactly, RegistrationOwns, RegistrationOwes, ChallengeOwns, ChallengeOwes,
              IsActive, Registered
<1>4. CASE UNCHANGED vars \/ Govern \/ \E now \in Times : ObserveTime(now)
  BY <1>3, <1>4, Zenon DEF vars, Govern, SetOwnerGrant, RevokeOwnerGrant, SetAppraisalPolicy, ObserveTime
<1> QED BY <1>1, <1>2, <1>4, Zenon DEF Next

\* At the start what is owned is exactly what is owed.
LEMMA OwnedInit == Init => OwnedExactly
<1> SUFFICES ASSUME Init PROVE OwnedExactly
  BY Zenon
<1>1. \A z \in Zones : \A k : OwnedBy(records[z], k) = {}
  BY Zenon DEF Init, OwnedBy
<1>2. \A id \in RegistrationIds : ~ IsActive(id)
  BY Zenon DEF Init, IsActive, Registered
<1>3. \A cid \in ChallengeIds : challenges[cid] = NoRow
  BY Zenon DEF Init
<1> QED BY <1>1, <1>2, <1>3, ContentEmpty, ZenonT(40)
        DEF OwnedExactly, RegistrationOwns, RegistrationOwes, ChallengeOwns, ChallengeOwes

---------------------------------------------------------------------------
(* The theorems *)

\* An active registration owns exactly the records of its host and remaining
\* ports, in its own zone; an ended one owns nothing anywhere; a challenge row
\* stands exactly as long as its TXT record.
THEOREM ContributionsCorrect == Spec => []ContributionsExact
<1>1. Spec => []OwnedExactly
  BY OwnedInit, OwnedStep, Invariance, PTL DEF Spec
<1> QED BY <1>1, OwnedExactlyIs, PTL

\* The served snapshot holds every record of every active registration, whatever
\* other contributors added, withdrew or replaced in the zone.
THEOREM ActiveAlwaysServed == Spec => []ActiveServed
<1>1. Inv /\ ContributionsExact => ActiveServed
  <2> SUFFICES ASSUME Inv, ContributionsExact, NEW id \in ActiveIds
               PROVE  Content(ServiceRecords(id, registrations[id].host,
                                 registrations[id].active_ports, registrations[id].signer, 0))
                         \subseteq Content(zones[registrations[id].zone].signed)
    BY Zenon DEF ActiveServed
  <2> DEFINE z == registrations[id].zone
  <2>1. id \in RegistrationIds /\ IsActive(id) /\ z \in Zones
    BY Zenon DEF ActiveIds, IsActive, Registered, Inv, RowsInv, Registration
  <2>2. Content(ServiceRecords(id, registrations[id].host, registrations[id].active_ports,
                               registrations[id].signer, 0)) =
           Content(OwnedBy(records[z], RegistrationContributor(id)))
    BY <2>1, ZenonT(40) DEF ContributionsExact
  <2>3. Content(OwnedBy(records[z], RegistrationContributor(id))) \subseteq Content(records[z])
    BY Zenon DEF Content, OwnedBy
  <2>4. Content(records[z]) \subseteq Content(zones[z].signed)
    BY <2>1, PublishedContent, Zenon DEF Inv, RecordsInv, SnapshotCurrent
  <2> QED BY <2>2, <2>3, <2>4, ZenonT(40)
<1> QED BY <1>1, Invariance, ContributionsCorrect, PTL

\* One maintenance run settles everything: a second run at the same time finds
\* nothing, not even a challenge of a registration that the first run ended.
THEOREM MaintenanceAlwaysSettles == Spec => MaintenanceSettles
<1> DEFINE Settling == \A now \in Times : (now = last_time' /\ Maintenance(now)) => Settled(now)'
<1>1. ASSUME Inv, Inv', NEW now \in Times, Maintenance(now) PROVE Settled(now)'
  <2>0. now \in Nat /\ RefreshBefore \in Nat /\ SignatureValidity \in Nat /\ RefreshBefore < SignatureValidity
    BY SettingsAssumption, SMTT(30) DEF Times
  <2>1. /\ registrations' = [id \in RegistrationIds |-> SettledRegistration(id, now)]
        /\ active_index' = active_index \ Ended(now)
        /\ challenges' = [cid \in ChallengeIds |->
              IF cid \in EndedChallenges(now) THEN NoRow ELSE challenges[cid]]
        /\ UNCHANGED <<grants, policies>>
    BY <1>1, ZenonT(40) DEF Maintenance
  <2>2. ActiveIds' = active_index' /\ active_index \subseteq RegistrationIds
    BY <1>1, Zenon DEF Inv, RowsInv, IndexExact
  <2>3. ASSUME NEW id \in ActiveIds' PROVE ActiveRegistration(id, now)'
    <3>1. id \in active_index /\ id \notin Ended(now) /\ id \in RegistrationIds
      BY <2>1, <2>2, Zenon
    <3>2. registrations'[id] = registrations[id]
      BY <2>1, <3>1, Zenon DEF SettledRegistration
    <3>3. ~ Lapsed(registrations[id], now) /\ ~ AuthorityInvalid(registrations[id], now)
      BY <3>1, Zenon DEF Ended
    <3>4. /\ registrations'[id] # NoRow /\ registrations'[id].status = "active"
          /\ id \in active_index'
      BY <2>2, Zenon DEF ActiveIds, IsActive, Registered
    <3>5. ~ Lapsed(registrations[id], now)' /\ ~ AuthorityInvalid(registrations[id], now)'
      BY <2>1, <3>2, <3>3, ZenonT(40) DEF Lapsed, AuthorityInvalid
    <3> QED BY <3>4, <3>5, Zenon DEF ActiveRegistration
  <2>4. ASSUME NEW cid \in ChallengeRows'
        PROVE  ActiveRegistration(challenges[cid].registration, now)'
    <3>1. cid \in ChallengeIds /\ challenges'[cid] # NoRow
      BY Zenon DEF ChallengeRows
    <3>2. challenges'[cid] = challenges[cid] /\ cid \notin EndedChallenges(now)
      BY <2>1, <3>1, Zenon
    <3>3. ~ ChallengeEnded(challenges[cid], now) /\ challenges[cid] \in AcmeChallenge
      BY <1>1, <3>1, <3>2, Zenon DEF EndedChallenges, ChallengeRows, Inv, RowsInv
    <3>4. PICK i \in RegistrationIds : i = challenges[cid].registration
      BY <3>3, ZenonT(40) DEF AcmeChallenge
    <3>5. SettledRegistration(i, now) # NoRow /\ SettledRegistration(i, now).status = "active"
      BY <3>3, <3>4, ZenonT(40) DEF ChallengeEnded
    <3>6. i \in ActiveIds'
      BY <2>1, <3>5, ZenonT(40) DEF ActiveIds, IsActive, Registered
    <3>7. ActiveRegistration(i, now)' /\ challenges'[cid].registration = i
      BY <2>3, <3>2, <3>4, <3>6, ZenonT(40)
    <3> QED BY <3>7, Zenon DEF ActiveRegistration, Lapsed, AuthorityInvalid
  <2>5. ASSUME NEW z \in Zones PROVE zones'[z].expiration > now + RefreshBefore
    <3>1. zones[z].expiration \in Nat
      BY <1>1, Zenon DEF Inv, RecordsInv
    <3>2. CASE RefreshDue(z, now) \/ Withdrawn(z, now) # {}
      <4>1. zones'[z] = Resigned(z, records[z] \ Withdrawn(z, now), now)
        BY <1>1, <3>2, ZenonT(40) DEF Maintenance
      <4>2. zones'[z].expiration = now + SignatureValidity
        BY <4>1, SMTT(30) DEF Resigned
      <4> QED BY <2>0, <4>2, SMTT(30)
    <3>3. CASE ~ RefreshDue(z, now) /\ Withdrawn(z, now) = {}
      <4>1. zones'[z] = zones[z]
        BY <1>1, <3>3, Zenon DEF Maintenance
      <4>2. ~ (now + RefreshBefore >= zones[z].expiration)
        BY <3>3, Zenon DEF RefreshDue
      <4> QED BY <2>0, <3>1, <4>1, <4>2, SMTT(30)
    <3> QED BY <3>2, <3>3, Zenon
  <2> QED BY <2>3, <2>4, <2>5, Zenon DEF Settled
<1>2. Inv /\ Inv' => Settling
  BY <1>1, Zenon
<1> QED BY <1>2, Invariance, PTL DEF MaintenanceSettles

\* A read reports the status that a maintenance run at the same time stores.
THEOREM ReadsMatchMaintenance == Spec => ReadMatchesMaintenance
<1> DEFINE Matching ==
        \A now \in Times : (now = last_time' /\ Maintenance(now)) =>
           \A id \in RegistrationIds : Registered(id) =>
              registrations'[id].status = EffectiveStatus(id, now)
<1>1. ASSUME Inv, NEW now \in Times, Maintenance(now), NEW id \in RegistrationIds, Registered(id)
      PROVE  registrations'[id].status = EffectiveStatus(id, now)
  <2>1. registrations'[id] = SettledRegistration(id, now)
    BY <1>1, Zenon DEF Maintenance
  <2>2. id \in active_index <=> IsActive(id)
    BY <1>1, Zenon DEF Inv, RowsInv, IndexExact, ActiveIds
  <2>3. registrations[id] \in Registration
    BY <1>1, Zenon DEF Inv, RowsInv, Registered
  <2> QED BY <1>1, <2>1, <2>2, <2>3, Zenon
          DEF SettledRegistration, Ended, EffectiveStatus, IsActive, Registration
<1>2. Inv => Matching
  BY <1>1, Zenon
<1> QED BY <1>2, Invariance, PTL DEF ReadMatchesMaintenance
=============================================================================

-------------------------- MODULE LifecycleProofs --------------------------
(***************************************************************************)
(* Safety of the lifecycle for every set of zones, grants, keys, hosts and *)
(* ports, every clock and every capacity.                                  *)
(*                                                                         *)
(* The state falls into two halves that are proved about separately.  The  *)
(* records half (records, usage, zones) changes only through StoreAndSign, *)
(* so one lemma about it serves every mutation.  The rows half (grants,    *)
(* policies, registrations, their index, challenges, the watermark) is     *)
(* proved action by action.                                                *)
(***************************************************************************)
EXTENDS Lifecycle, FiniteSetTheorems, TLAPS

-----------------------------------------------------------------------------
(* The records of a zone and their usage counters, for every base, every   *)
(* capacity and every finite set of contributions.                         *)

\* The RRsets of a union are those of its parts.
LEMMA RrsetKeysUnion ==
    \A S, T : RrsetKeys(S \cup T) = RrsetKeys(S) \cup RrsetKeys(T)
BY Zenon DEF RrsetKeys

\* Fewer contributions make no new RRset.
LEMMA RrsetKeysSubset ==
    \A S, T : S \subseteq T => RrsetKeys(S) \subseteq RrsetKeys(T)
BY Zenon DEF RrsetKeys

\* Finitely many contributions make finitely many RRsets.
LEMMA RrsetKeysFinite ==
    ASSUME NEW S, IsFiniteSet(S)
    PROVE  IsFiniteSet(RrsetKeys(S))
<1> DEFINE f == [c \in S |-> RrsetKey(c)]
<1>1. f \in Surjection(S, RrsetKeys(S))
  BY Zenon DEF Surjection, RrsetKeys
<1> QED BY <1>1, FS_Surjection, Zenon

\* Counting a finite set of contributions gives natural numbers.
LEMMA UsageOfType ==
    ASSUME NEW S, IsFiniteSet(S)
    PROVE  UsageOf(S) \in Usage
BY RrsetKeysFinite, FS_CardinalityType, Zenon DEF UsageOf, Usage

\* The part of a set that another does not hold: what is added to a count.
LEMMA CardinalityGrowth ==
    ASSUME NEW S, NEW T, IsFiniteSet(S), IsFiniteSet(T)
    PROVE  /\ Cardinality(T \ S) \in Nat
           /\ Cardinality(S \cup T) = Cardinality(S) + Cardinality(T \ S)
<1>1. IsFiniteSet(T \ S) /\ IsFiniteSet(S \cup T)
  BY FS_Difference, FS_Union, Zenon
<1>2. S \cup T = S \cup (T \ S) /\ S \cap (T \ S) = {}
  BY Zenon
<1>3. Cardinality(S \cup (T \ S)) =
         Cardinality(S) + Cardinality(T \ S) - Cardinality(S \cap (T \ S))
  BY <1>1, FS_Union, Zenon
<1>4. Cardinality(S \cap (T \ S)) = 0
  BY <1>2, FS_EmptySet, Zenon
<1>5. Cardinality(S) \in Nat /\ Cardinality(T \ S) \in Nat
  BY <1>1, FS_CardinalityType, Zenon
<1>6. Cardinality(S \cup T) = Cardinality(S \cup (T \ S))
  BY <1>2, Zenon
<1> QED BY <1>3, <1>4, <1>5, <1>6

\* add_contribution keeps exact counters exact.
LEMMA UsageAddExact ==
    ASSUME NEW S, NEW new, IsFiniteSet(S), IsFiniteSet(new)
    PROVE  UsageAfterAdd(S, UsageOf(S), new) = UsageOf(S \cup new)
<1>1. Cardinality(S \cup new) = Cardinality(S) + Cardinality(new \ S)
  BY CardinalityGrowth, Zenon
<1>2. RrsetKeys(S \cup new) = RrsetKeys(S) \cup RrsetKeys(new \ S)
  BY Zenon DEF RrsetKeys
<1>3. IsFiniteSet(RrsetKeys(S)) /\ IsFiniteSet(RrsetKeys(new \ S))
  BY RrsetKeysFinite, FS_Difference, Zenon
<1>4. Cardinality(RrsetKeys(S) \cup RrsetKeys(new \ S)) =
         Cardinality(RrsetKeys(S)) + Cardinality(RrsetKeys(new \ S) \ RrsetKeys(S))
  BY <1>3, CardinalityGrowth, Zenon
<1> QED BY <1>1, <1>2, <1>4, Zenon DEF UsageAfterAdd, UsageOf

\* With exact counters a removal never underflows one, and keeps them exact.
LEMMA UsageRemoveExact ==
    ASSUME NEW S, NEW gone, IsFiniteSet(S), gone \subseteq S
    PROVE  /\ CanRemove(S, UsageOf(S), gone)
           /\ UsageAfterRemove(S, UsageOf(S), gone) = UsageOf(S \ gone)
<1> DEFINE kept == S \ gone
<1>1. IsFiniteSet(gone) /\ IsFiniteSet(kept)
  BY FS_Subset, Zenon
<1>2. /\ Cardinality(gone) \in Nat /\ Cardinality(kept) \in Nat
      /\ Cardinality(S) = Cardinality(kept) + Cardinality(gone)
  <2>1. kept \cup gone = S /\ gone \ kept = gone
    BY Zenon
  <2> QED BY <1>1, <2>1, CardinalityGrowth, FS_CardinalityType, Zenon
<1>3. /\ IsFiniteSet(RrsetKeys(S)) /\ IsFiniteSet(RrsetKeys(kept))
      /\ RrsetKeys(kept) \subseteq RrsetKeys(S)
  BY <1>1, RrsetKeysFinite, RrsetKeysSubset, Zenon
<1>4. /\ Cardinality(RrsetKeys(S) \ RrsetKeys(kept)) \in Nat
      /\ Cardinality(RrsetKeys(kept)) \in Nat
      /\ Cardinality(RrsetKeys(S)) =
            Cardinality(RrsetKeys(kept)) + Cardinality(RrsetKeys(S) \ RrsetKeys(kept))
  <2>1. RrsetKeys(kept) \cup RrsetKeys(S) = RrsetKeys(S)
    BY <1>3, Zenon
  <2> QED BY <1>3, <2>1, CardinalityGrowth, FS_CardinalityType, Zenon
<1> QED BY <1>2, <1>4 DEF CanRemove, UsageAfterRemove, UsageOf

\* A series of additions and removals keeps exact counters exact.
LEMMA UsageShiftExact ==
    ASSUME NEW S, NEW T, IsFiniteSet(S), IsFiniteSet(T)
    PROVE  UsageShift(UsageOf(S), S, T) = UsageOf(T)
<1>1. UsageOf(S) \in Usage /\ UsageOf(T) \in Usage
  BY UsageOfType, Zenon
<1> QED BY <1>1 DEF UsageShift, UsageOf, Usage

\* Whatever was signable stays so when contributions are withdrawn.
THEOREM SignableSubset ==
    ASSUME NEW S, NEW T, T \subseteq S, Signable(S)
    PROVE  Signable(T)
BY Zenon DEF Signable

-----------------------------------------------------------------------------
(* The lifecycle.                                                          *)

USE DEF Times

\* The serial that resign_zone writes stays below the modulus.
LEMMA SerialWraps ==
    ASSUME NEW a \in Nat, NEW m \in Nat \ {0}
    PROVE  a % m \in 0 .. (m - 1)
BY SMTT(30)

\* The records half of the invariant.  The counters and the snapshot are part
\* of it: a counter is a natural number only because it is exact.  What is
\* stored can be signed, or the next maintenance run would fail on it.
RecordsInv ==
    /\ records \in [Zones -> SUBSET Contribution]
    /\ \A z \in Zones : IsFiniteSet(records[z])
    /\ usage \in [Zones -> Usage]
    /\ DOMAIN zones = Zones
    /\ \A z \in Zones : /\ zones[z].serial \in 0 .. (SerialModulus - 1)
                        /\ zones[z].expiration \in Nat
    /\ UsageExact
    /\ SnapshotCurrent
    /\ \A z \in Zones : Signable(records[z])

\* Storing a finite set of contributions with its exact counters and signing it
\* keeps the records half.
LEMMA StoreRecords ==
    ASSUME RecordsInv, NEW z \in Zones, NEW S \in SUBSET Contribution, IsFiniteSet(S),
           NEW u, u = UsageOf(S), NEW now \in Times, StoreAndSign(z, S, u, now)
    PROVE  RecordsInv'
<1>1. u \in Usage
  BY UsageOfType, Zenon
<1>2. records' \in [Zones -> SUBSET Contribution] /\ usage' \in [Zones -> Usage]
  BY <1>1, Zenon DEF RecordsInv, StoreAndSign
<1>3. \A y \in Zones : IsFiniteSet(records'[y]) /\ usage'[y] = UsageOf(records'[y])
  BY <1>1, Zenon DEF RecordsInv, StoreAndSign, UsageExact
<1>4. DOMAIN zones' = Zones
  BY Zenon DEF RecordsInv, StoreAndSign
<1>5. \A y \in Zones : zones'[y] = IF y = z THEN Resigned(z, S, now) ELSE zones[y]
  BY Zenon DEF RecordsInv, StoreAndSign
<1>6. /\ Resigned(z, S, now).serial \in 0 .. (SerialModulus - 1)
      /\ Resigned(z, S, now).expiration \in Nat
      /\ Resigned(z, S, now).signed = Published(S)
  <2>1. zones[z].serial + 1 \in Nat
    BY SettingsAssumption DEF RecordsInv
  <2> QED BY <2>1, SerialWraps, SettingsAssumption, SMTT(30) DEF Resigned
<1>7. \A y \in Zones : zones'[y].signed = Published(records'[y])
  BY <1>5, <1>6, Zenon DEF RecordsInv, StoreAndSign, SnapshotCurrent
<1>8. \A y \in Zones : Signable(records'[y])
  BY Zenon DEF RecordsInv, StoreAndSign
<1> QED BY <1>2, <1>3, <1>4, <1>5, <1>6, <1>7, <1>8, Zenon DEF RecordsInv, UsageExact, SnapshotCurrent

\* add_contribution and resign_zone keep the records half.
LEMMA AddRecords ==
    ASSUME RecordsInv, NEW z \in Zones, NEW new \in SUBSET Contribution, IsFiniteSet(new),
           NEW now \in Times, AddAndSign(z, new, now)
    PROVE  RecordsInv'
<1>1. records[z] \in SUBSET Contribution /\ IsFiniteSet(records[z]) /\ usage[z] = UsageOf(records[z])
  BY Zenon DEF RecordsInv, UsageExact
<1>2. IsFiniteSet(records[z] \cup new)
  BY <1>1, FS_Union, Zenon
<1>3. UsageAfterAdd(records[z], usage[z], new) = UsageOf(records[z] \cup new)
  BY <1>1, UsageAddExact, Zenon
<1>4. StoreAndSign(z, records[z] \cup new, UsageAfterAdd(records[z], usage[z], new), now)
  BY Zenon DEF AddAndSign
<1> QED BY <1>1, <1>2, <1>3, <1>4, StoreRecords, Zenon

\* remove_contributions and resign_zone keep the records half.
LEMMA RemoveRecords ==
    ASSUME RecordsInv, NEW z \in Zones, NEW gone \in SUBSET records[z],
           NEW now \in Times, RemoveAndSign(z, gone, now)
    PROVE  RecordsInv'
<1>1. records[z] \in SUBSET Contribution /\ IsFiniteSet(records[z]) /\ usage[z] = UsageOf(records[z])
  BY Zenon DEF RecordsInv, UsageExact
<1>2. CASE gone = {}
  <2>1. UNCHANGED <<records, usage, zones>>
    BY <1>2, Zenon DEF RemoveAndSign
  <2> QED BY <2>1, Zenon DEF RecordsInv, UsageExact, SnapshotCurrent
<1>3. CASE gone # {}
  <2>1. IsFiniteSet(records[z] \ gone)
    BY <1>1, FS_Difference, Zenon
  <2>2. UsageAfterRemove(records[z], usage[z], gone) = UsageOf(records[z] \ gone)
    BY <1>1, UsageRemoveExact, Zenon
  <2>3. StoreAndSign(z, records[z] \ gone, UsageAfterRemove(records[z], usage[z], gone), now)
    BY <1>3, Zenon DEF RemoveAndSign
  <2> QED BY <1>1, <2>1, <2>2, <2>3, StoreRecords, Zenon
<1> QED BY <1>2, <1>3, Zenon

---------------------------------------------------------------------------
(* What the operators return *)

\* Minimum picks a member that no other undercuts, where there is one.
LEMMA MinimumIs ==
    ASSUME NEW S, \E m \in S : \A n \in S : m <= n
    PROVE  Minimum(S) \in S /\ \A n \in S : Minimum(S) <= n
BY Zenon DEF Minimum

\* The smaller of two times.
LEMMA MinimumOfTwo ==
    ASSUME NEW a \in Nat, NEW b \in Nat
    PROVE  Minimum({a, b}) \in Nat /\ Minimum({a, b}) <= a /\ Minimum({a, b}) <= b
<1>1. \E m \in {a, b} : \A n \in {a, b} : m <= n
  OBVIOUS
<1> QED BY <1>1, MinimumIs, Zenon

\* The smallest of three times: what bounds an appraisal or a challenge.
LEMMA MinimumOfThree ==
    ASSUME NEW a \in Nat, NEW b \in Nat, NEW c \in Nat
    PROVE  /\ Minimum({a, b, c}) \in Nat
           /\ Minimum({a, b, c}) <= a /\ Minimum({a, b, c}) <= b /\ Minimum({a, b, c}) <= c
<1>1. \E m \in {a, b, c} : \A n \in {a, b, c} : m <= n
  OBVIOUS
<1> QED BY <1>1, MinimumIs, Zenon

\* bounded_lease_expiration never passes the requested end nor any bound.
LEMMA BoundedLeaseIs ==
    ASSUME NEW a \in Nat, NEW seconds \in Nat, NEW b \in Nat, NEW c \in Nat, NEW d \in Nat, NEW e \in Nat
    PROVE  LET lease == BoundedLease(a, seconds, {b, c, d, e})
           IN  /\ lease \in Nat
               /\ lease <= a + seconds /\ lease <= b /\ lease <= c /\ lease <= d /\ lease <= e
<1> DEFINE S == {a + seconds} \cup {b, c, d, e}
<1>1. \E m \in S : \A n \in S : m <= n
  OBVIOUS
<1>2. S \subseteq Nat
  OBVIOUS
<1>3. Minimum(S) \in S /\ \A n \in S : Minimum(S) <= n
  BY <1>1, MinimumIs, Zenon
<1> QED BY <1>2, <1>3, Zenon DEF BoundedLease

\* The records of a registration are well-formed contributions, finitely many.
LEMMA ServiceRecordsType ==
    ASSUME NEW id \in RegistrationIds, NEW host \in Hosts, NEW ports \in SUBSET Ports,
           NEW signer \in Keys, NEW ttl \in Nat
    PROVE  /\ ServiceRecords(id, host, ports, signer, ttl) \in SUBSET Contribution
           /\ IsFiniteSet(ServiceRecords(id, host, ports, signer, ttl))
<1> DEFINE own(owner, type, data) ==
               [contributor |-> RegistrationContributor(id), owner |-> owner,
                type |-> type, data |-> data, ttl |-> ttl]
           tlsa == {own(<<p, host>>, "TLSA", signer) : p \in ports}
           f == [p \in ports |-> own(<<p, host>>, "TLSA", signer)]
<1>1. ServiceRecords(id, host, ports, signer, ttl) = {own(<<"", host>>, "A", host)} \cup tlsa
  BY Zenon DEF ServiceRecords
<1>2. RegistrationContributor(id) \in Contributor
  BY Zenon DEF RegistrationContributor, Contributor
<1>3. own(<<"", host>>, "A", host) \in Contribution
  BY <1>2, Zenon DEF Contribution, Owners, Types, OperatorTypes
<1>4. \A p \in ports : own(<<p, host>>, "TLSA", signer) \in Contribution
  BY <1>2, Zenon DEF Contribution, Owners, Types
<1>5. IsFiniteSet(ports)
  BY NameAssumption, FS_Subset, Zenon
<1>6. f \in Surjection(ports, tlsa)
  BY Zenon DEF Surjection
<1>7. IsFiniteSet(tlsa)
  BY <1>5, <1>6, FS_Surjection, Zenon
<1>8. tlsa \subseteq Contribution
  BY <1>4, Zenon
<1> DEFINE a == own(<<"", host>>, "A", host)
<1>9. IsFiniteSet({a} \cup tlsa)
  <2> HIDE DEF a, tlsa
  <2> QED BY <1>7, FS_AddElement
<1> QED BY <1>1, <1>3, <1>8, <1>9, Zenon

\* So is the record of a challenge.
LEMMA ChallengeRecordType ==
    ASSUME NEW cid \in ChallengeIds, NEW name \in Hosts, NEW ttl \in Nat
    PROVE  ChallengeRecord(cid, name, ttl) \in Contribution
<1>1. ChallengeContributor(cid) \in Contributor
  BY Zenon DEF ChallengeContributor, Contributor
<1> QED BY <1>1, Zenon DEF ChallengeRecord, Contribution, Owners, Types, OperatorTypes

---------------------------------------------------------------------------
(* The rows half *)

\* The rows half of the invariant.  The index is part of it: the count that
\* maintenance takes down stays natural because it counts the index.
RowsInv ==
    /\ grants \in [Grants -> OwnerGrant \cup {NoRow}]
    /\ policies \in [Zones -> AppraisalPolicies \cup {NoRow}]
    /\ registrations \in [RegistrationIds -> Registration \cup {NoRow}]
    /\ active_index \in SUBSET RegistrationIds
    /\ IsFiniteSet(active_index)
    /\ challenges \in [ChallengeIds -> AcmeChallenge \cup {NoRow}]
    /\ last_time \in Times
    /\ IndexExact
    /\ Cardinality(ChallengeRows) <= MAX_ACME_CHALLENGES

\* What a lease rests on: LeaseBounded, with the policy it was last bounded by
\* in place of the policy of the day.
LeaseOf(r) ==
    /\ r.admitted_at < r.lease_expires_at
    /\ r.lease_expires_at <= r.reappraisal_deadline
    /\ \E seconds \in LeaseSeconds : r.lease_expires_at <= r.admitted_at + seconds
    /\ \E p \in AppraisalPolicies :
          p.policy_id = r.policy_id /\ r.lease_expires_at <= p.valid_until

LeaseInv ==
    \A id \in RegistrationIds : Registered(id) =>
       LeaseOf(registrations[id]) /\ registrations[id].admitted_at <= last_time

\* The strengthening of the safety invariants that every step preserves.
Inv == RowsInv /\ RecordsInv /\ LeaseInv

\* A row that is written for one registration keeps the index exact when the id
\* is in the index afterwards exactly if the row is active.
LEMMA IndexKept ==
    ASSUME RowsInv, NEW id \in RegistrationIds, NEW row \in Registration,
           registrations' = [registrations EXCEPT ![id] = row],
           active_index' = IF row.status = "active" THEN active_index \cup {id}
                                                    ELSE active_index \ {id},
           active_count' = Cardinality(active_index')
    PROVE  /\ registrations' \in [RegistrationIds -> Registration \cup {NoRow}]
           /\ active_index' \in SUBSET RegistrationIds
           /\ IsFiniteSet(active_index')
           /\ IndexExact'
<1>1. registrations' \in [RegistrationIds -> Registration \cup {NoRow}]
  BY Zenon DEF RowsInv
<1>2. IsFiniteSet(active_index')
  BY FS_AddElement, FS_RemoveElement, Zenon DEF RowsInv
<1>3. row # NoRow
  BY NoRowAssumption, Zenon
<1>4. \A i \in RegistrationIds : registrations'[i] = IF i = id THEN row ELSE registrations[i]
  BY Zenon DEF RowsInv
<1>5. active_index' = ActiveIds'
  BY <1>3, <1>4, Zenon DEF RowsInv, IndexExact, ActiveIds, IsActive, Registered
<1> QED BY <1>1, <1>2, <1>5, Zenon DEF RowsInv, IndexExact

\* A registration admitted by the old watermark was admitted by the new one.
LEMMA AdmittedStays ==
    ASSUME Inv, NEW now \in Times, now >= last_time,
           NEW id \in RegistrationIds, Registered(id)
    PROVE  registrations[id].admitted_at <= now
<1>1. registrations[id] \in Registration
  BY Zenon DEF Inv, RowsInv, Registered
<1>2. registrations[id].admitted_at \in Nat
  BY <1>1, Zenon DEF Registration
<1>3. last_time \in Nat /\ registrations[id].admitted_at <= last_time
  BY SettingsAssumption DEF Inv, RowsInv, LeaseInv
<1> QED BY <1>2, <1>3

\* Writing one row whose lease is bounded keeps every lease bounded.
LEMMA LeaseWritten ==
    ASSUME Inv, NEW now \in Times, now >= last_time, last_time' = now,
           NEW id \in RegistrationIds, NEW row, LeaseOf(row), row.admitted_at <= now,
           registrations' = [registrations EXCEPT ![id] = row]
    PROVE  LeaseInv'
<1> SUFFICES ASSUME NEW i \in RegistrationIds, Registered(i)'
             PROVE  LeaseOf(registrations'[i]) /\ registrations'[i].admitted_at <= now
  BY Zenon DEF LeaseInv
<1>1. registrations'[i] = IF i = id THEN row ELSE registrations[i]
  BY Zenon DEF Inv, RowsInv
<1>2. CASE i = id
  BY <1>1, <1>2, Zenon
<1>3. CASE i # id
  <2>1. registrations'[i] = registrations[i] /\ Registered(i)
    BY <1>1, <1>3, Zenon DEF Registered
  <2>2. LeaseOf(registrations[i])
    BY <2>1, Zenon DEF Inv, LeaseInv
  <2>3. registrations[i].admitted_at <= now
    BY <2>1, AdmittedStays, Zenon
  <2> QED BY <2>1, <2>2, <2>3, Zenon
<1> QED BY <1>2, <1>3, Zenon

\* Register keeps both halves, and the lease it writes is bounded.
LEMMA RegisterStep ==
    ASSUME Inv, NEW now \in Times, now >= last_time,
           NEW id \in RegistrationIds, NEW g \in Grants, NEW z \in Zones,
           NEW p \in RegisterParameters, NEW seconds \in LeaseSeconds,
           NEW certificate \in CertificateExpirations,
           Register(id, g, z, p, seconds, certificate, now)
    PROVE  Inv'
<1> DEFINE row == grants[g]
           policy == policies[z]
           deadline == AppraisalValidUntil(policy, certificate, now)
           lease == BoundedLease(now, seconds, {row.valid_until, policy.valid_until, deadline})
           ttl == Minimum({RecordTtl, lease - now})
           r == [grant |-> g, zone |-> z, signer |-> row.subject, host |-> p.host,
                 ports |-> p.ports, profile |-> p.profile, admitted_at |-> now,
                 lease_expires_at |-> lease, policy_valid_until |-> policy.valid_until,
                 reappraisal_deadline |-> deadline, policy_id |-> policy.policy_id,
                 status |-> "active", active_ports |-> p.ports]
<1>1. row \in OwnerGrant /\ policy \in AppraisalPolicies /\ policy \in AppraisalPolicy
  BY RowAssumption, Zenon DEF Inv, RowsInv, Register, Authorized, Appraisable
<1>2. p.host \in Hosts /\ p.ports \in SUBSET Ports /\ p.profile \in Profiles
  BY RowAssumption, Zenon
<1>3. seconds \in Nat /\ certificate \in Nat /\ now \in Nat
  BY RowAssumption, SettingsAssumption, SMTT(30)
<1>4. row.subject \in Keys /\ row.valid_until \in Nat
  BY <1>1, Zenon DEF OwnerGrant
<1>5. policy.valid_until \in Nat /\ policy.max_appraisal_lifetime \in Nat /\ policy.policy_id \in PolicyIds
  BY <1>1, Zenon DEF AppraisalPolicy
<1>6. deadline \in Nat
  <2> HIDE DEF policy
  <2>1. now + policy.max_appraisal_lifetime \in Nat
    BY <1>3, <1>5
  <2> QED BY <1>3, <1>5, <2>1, MinimumOfThree, Zenon DEF AppraisalValidUntil
<1>7. /\ lease \in Nat /\ lease <= now + seconds
      /\ lease <= policy.valid_until /\ lease <= deadline
  <2> HIDE DEF deadline, row, policy
  <2>1. {row.valid_until, policy.valid_until, deadline, deadline} =
           {row.valid_until, policy.valid_until, deadline}
    BY Zenon
  <2>2. LET l == BoundedLease(now, seconds, {row.valid_until, policy.valid_until, deadline, deadline})
        IN  /\ l \in Nat /\ l <= now + seconds
            /\ l <= policy.valid_until /\ l <= deadline
    BY <1>3, <1>4, <1>5, <1>6, BoundedLeaseIs, Zenon
  <2> QED BY <2>1, <2>2, Zenon
<1>8. lease > now
  BY Zenon DEF Register
<1>9. ttl \in Nat
  <2> HIDE DEF lease
  <2>1. lease - now \in Nat
    BY <1>3, <1>7, <1>8, SMTT(30)
  <2> QED BY <2>1, SettingsAssumption, MinimumOfTwo, Zenon
<1>10. AddAndSign(z, ServiceRecords(id, p.host, p.ports, row.subject, ttl), now)
  BY Zenon DEF Register
<1>11. RecordsInv'
  <2> HIDE DEF ttl, row
  <2> QED BY <1>2, <1>4, <1>9, <1>10, ServiceRecordsType, AddRecords, Zenon DEF Inv
<1>12. r \in Registration
  <2> HIDE DEF lease, deadline, row, policy
  <2> QED BY <1>2, <1>3, <1>4, <1>5, <1>6, <1>7, ZenonT(40) DEF Registration
<1>13. registrations' = [registrations EXCEPT ![id] = r]
  BY Zenon DEF Register
<1>14. /\ active_index' = active_index \cup {id}
       /\ active_count' = Cardinality(active_index')
  <2>1. /\ id \notin active_index /\ active_index' = active_index \cup {id}
        /\ active_count' = active_count + 1
    BY Zenon DEF Register
  <2>2. IsFiniteSet(active_index) /\ active_count = Cardinality(active_index)
    BY Zenon DEF Inv, RowsInv, IndexExact
  <2> QED BY <2>1, <2>2, FS_AddElement, Zenon
<1>15. r.status = "active"
  BY ZenonT(40)
<1>16. RowsInv'
  <2>1. UNCHANGED <<grants, policies, challenges>> /\ last_time' = now
    BY Zenon DEF Register
  <2> HIDE DEF r
  <2> QED BY <1>12, <1>13, <1>14, <1>15, <2>1, IndexKept, ZenonT(40) DEF Inv, RowsInv, ChallengeRows
<1>17. LeaseOf(r)
  <2> HIDE DEF lease, deadline, policy
  <2> QED BY <1>1, <1>7, <1>8, Zenon DEF LeaseOf
<1>18. LeaseInv'
  <2>1. last_time' = now
    BY Zenon DEF Register
  <2>2. r.admitted_at = now /\ now <= now
    <3> HIDE DEF lease, deadline, row, policy
    <3> QED BY <1>3, SMTT(30)
  <2> HIDE DEF r
  <2> QED BY <1>13, <1>17, <2>1, <2>2, LeaseWritten, Zenon
<1> QED BY <1>11, <1>16, <1>18, Zenon DEF Inv

\* A renewal keeps the invariant, whichever appraisal it rests on: renewed is
\* the stored row with the policy of its zone.
LEMMA RenewStep ==
    ASSUME Inv, NEW now \in Times, now >= last_time, NEW id \in RegistrationIds,
           Registered(id), NEW seconds \in LeaseSeconds, NEW renewed \in Registration,
           renewed.admitted_at = registrations[id].admitted_at,
           renewed.status = registrations[id].status,
           renewed.policy_id = policies[registrations[id].zone].policy_id,
           RenewLease(id, renewed, seconds, now)
    PROVE  Inv'
<1> DEFINE r == registrations[id]
           grant == grants[r.grant]
           policy == policies[r.zone]
           bounds == {grant.valid_until, renewed.policy_valid_until,
                      policy.valid_until, renewed.reappraisal_deadline}
           lease == BoundedLease(r.admitted_at, seconds, bounds)
           new == [renewed EXCEPT !.lease_expires_at = lease]
<1>1. r \in Registration
  BY Zenon DEF Inv, RowsInv, Registered
<1>2. r.grant \in Grants /\ r.zone \in Zones /\ r.admitted_at \in Nat /\ r.lease_expires_at \in Nat
  <2> HIDE DEF r
  <2> QED BY <1>1, Zenon DEF Registration
<1>3. grant \in OwnerGrant /\ policy \in AppraisalPolicies
  <2>1. grant # NoRow /\ policy # NoRow
    BY Zenon DEF RenewLease, Authorized
  <2> HIDE DEF r
  <2> QED BY <1>2, <2>1, Zenon DEF Inv, RowsInv
<1>4. grant.valid_until \in Nat /\ policy.valid_until \in Nat
  <2> HIDE DEF grant, policy
  <2> QED BY <1>3, RowAssumption, Zenon DEF OwnerGrant, AppraisalPolicy
<1>5. /\ renewed.policy_valid_until \in Nat /\ renewed.reappraisal_deadline \in Nat
      /\ seconds \in Nat
  BY RowAssumption, Zenon DEF Registration
<1>6. /\ lease \in Nat /\ lease <= r.admitted_at + seconds
      /\ lease <= policy.valid_until /\ lease <= renewed.reappraisal_deadline
  <2> HIDE DEF r, grant, policy
  <2> QED BY <1>2, <1>4, <1>5, BoundedLeaseIs, ZenonT(40)
<1>7. r.status = "active" /\ id \in active_index /\ r.lease_expires_at > now /\ lease > now
  BY Zenon DEF RenewLease
<1>8. registrations' = [registrations EXCEPT ![id] = new]
  BY Zenon DEF RenewLease
<1>9. /\ last_time' = now
      /\ UNCHANGED <<grants, policies, active_index, active_count, challenges,
                     records, usage, zones>>
  BY Zenon DEF RenewLease
<1>10. new \in Registration /\ new.status = "active" /\ new.admitted_at = r.admitted_at
  <2> HIDE DEF lease
  <2> QED BY <1>6, <1>7, Zenon DEF Registration
<1>11. RecordsInv'
  BY <1>9, Zenon DEF Inv, RecordsInv, UsageExact, SnapshotCurrent
<1>12. RowsInv'
  <2>1. active_index' = active_index \cup {id} /\ active_count' = Cardinality(active_index')
    BY <1>7, <1>9, Zenon DEF Inv, RowsInv, IndexExact
  <2> HIDE DEF new
  <2> QED BY <1>8, <1>9, <1>10, <2>1, IndexKept, ZenonT(40) DEF Inv, RowsInv, ChallengeRows
<1>13. LeaseOf(new)
  <2>1. r.admitted_at <= now
    BY AdmittedStays, Zenon
  <2>2. /\ new.lease_expires_at = lease /\ new.reappraisal_deadline = renewed.reappraisal_deadline
        /\ new.policy_id = policy.policy_id
    <3> HIDE DEF lease
    <3> QED BY Zenon DEF Registration
  <2>3. new.admitted_at = r.admitted_at
    BY <1>10, Zenon
  <2> HIDE DEF new, lease, r, policy
  <2>4. now \in Nat
    BY SettingsAssumption, SMTT(30)
  <2>5. new.admitted_at < new.lease_expires_at
    BY <1>2, <1>6, <1>7, <2>1, <2>2, <2>3, <2>4, SMTT(30)
  <2>6. new.lease_expires_at <= new.reappraisal_deadline
    BY <1>6, <2>2, Zenon
  <2>7. \E s \in LeaseSeconds : new.lease_expires_at <= new.admitted_at + s
    BY <1>6, <2>2, <2>3, Zenon
  <2>8. \E p \in AppraisalPolicies : p.policy_id = new.policy_id /\ new.lease_expires_at <= p.valid_until
    BY <1>3, <1>6, <2>2, Zenon
  <2> QED BY <2>5, <2>6, <2>7, <2>8, Zenon DEF LeaseOf
<1>14. LeaseInv'
  <2> HIDE DEF new
  <2>1. new.admitted_at <= now
    BY <1>10, AdmittedStays, Zenon
  <2> QED BY <1>8, <1>9, <1>13, <2>1, LeaseWritten, ZenonT(40)
<1> QED BY <1>11, <1>12, <1>14, Zenon DEF Inv

\* Fresh evidence replaces the appraisal by one under the policy of the zone.
LEMMA RenewWithEvidenceStep ==
    ASSUME Inv, NEW now \in Times, now >= last_time, NEW id \in RegistrationIds,
           NEW profile \in Profiles, NEW seconds \in LeaseSeconds,
           NEW certificate \in CertificateExpirations,
           RenewWithEvidence(id, profile, certificate, seconds, now)
    PROVE  Inv'
<1> DEFINE r == registrations[id]
           policy == policies[r.zone]
           deadline == AppraisalValidUntil(policy, certificate, now)
           renewed == [r EXCEPT !.policy_valid_until = policy.valid_until,
                                !.reappraisal_deadline = deadline,
                                !.policy_id = policy.policy_id]
<1>1. Registered(id) /\ policy # NoRow /\ RenewLease(id, renewed, seconds, now)
  BY Zenon DEF RenewWithEvidence, Appraisable, Registered
<1>2. r \in Registration
  BY <1>1, Zenon DEF Inv, RowsInv, Registered
<1>3. policy \in AppraisalPolicy
  <2>1. r.zone \in Zones
    BY <1>2, Zenon DEF Registration
  <2> QED BY <1>1, <2>1, RowAssumption, Zenon DEF Inv, RowsInv
<1>4. policy.valid_until \in Nat /\ policy.max_appraisal_lifetime \in Nat /\ policy.policy_id \in PolicyIds
  <2> HIDE DEF policy
  <2> QED BY <1>3, Zenon DEF AppraisalPolicy
<1>5. deadline \in Nat
  <2> HIDE DEF policy
  <2>1. now + policy.max_appraisal_lifetime \in Nat /\ certificate \in Nat
    BY <1>4, RowAssumption, SettingsAssumption
  <2> QED BY <1>4, <2>1, MinimumOfThree, Zenon DEF AppraisalValidUntil
<1>6. /\ renewed \in Registration
      /\ renewed.admitted_at = r.admitted_at /\ renewed.status = r.status
      /\ renewed.policy_id = policy.policy_id
  <2> HIDE DEF policy, deadline, r
  <2> QED BY <1>2, <1>4, <1>5, Zenon DEF Registration
<1> HIDE DEF renewed
<1> QED BY <1>1, <1>6, RenewStep, Zenon

\* Without evidence the policy must still be the one of the appraisal.
LEMMA RenewWithoutEvidenceStep ==
    ASSUME Inv, NEW now \in Times, now >= last_time, NEW id \in RegistrationIds,
           NEW seconds \in LeaseSeconds, RenewWithoutEvidence(id, seconds, now)
    PROVE  Inv'
<1>1. /\ Registered(id) /\ registrations[id].policy_id = policies[registrations[id].zone].policy_id
      /\ RenewLease(id, registrations[id], seconds, now)
  BY Zenon DEF RenewWithoutEvidence, Registered
<1>2. registrations[id] \in Registration
  BY <1>1, Zenon DEF Inv, RowsInv, Registered
<1> QED BY <1>1, <1>2, RenewStep, Zenon

\* The fields a lease is judged by.
SameLease(q, r) ==
    /\ q.admitted_at = r.admitted_at /\ q.lease_expires_at = r.lease_expires_at
    /\ q.reappraisal_deadline = r.reappraisal_deadline /\ q.policy_id = r.policy_id

\* A step that leaves those fields of every row alone keeps the leases bounded.
LEMMA LeaseKept ==
    ASSUME Inv, last_time' \in Times, last_time' >= last_time,
           \A i \in RegistrationIds :
              Registered(i)' => Registered(i) /\ SameLease(registrations'[i], registrations[i])
    PROVE  LeaseInv'
<1> SUFFICES ASSUME NEW i \in RegistrationIds, Registered(i)'
             PROVE  LeaseOf(registrations'[i]) /\ registrations'[i].admitted_at <= last_time'
  BY Zenon DEF LeaseInv
<1>1. Registered(i) /\ SameLease(registrations'[i], registrations[i])
  BY Zenon
<1>2. LeaseOf(registrations[i]) /\ registrations[i].admitted_at <= last_time'
  BY <1>1, AdmittedStays, Zenon DEF Inv, LeaseInv
<1> QED BY <1>1, <1>2, Zenon DEF LeaseOf, SameLease

\* Deregistration withdraws the row, takes it out of the index and removes the
\* contributions that it owns.
LEMMA DeregisterAllStep ==
    ASSUME Inv, NEW now \in Times, now >= last_time, NEW id \in RegistrationIds,
           DeregisterAll(id, now)
    PROVE  Inv'
<1> DEFINE r == registrations[id]
           new == [r EXCEPT !.status = "withdrawn", !.active_ports = {}]
<1>1. r \in Registration /\ r # NoRow
  BY Zenon DEF Inv, RowsInv, DeregisterAll, MayDeregister
<1>2. new \in Registration /\ new.status = "withdrawn" /\ SameLease(new, r) /\ r.zone \in Zones
  <2> HIDE DEF r
  <2> QED BY <1>1, Zenon DEF Registration, SameLease
<1>3. registrations' = [registrations EXCEPT ![id] = new]
  BY ZenonT(40) DEF DeregisterAll, Inv, RowsInv
<1>4. UNCHANGED <<grants, policies, challenges>> /\ last_time' = now
  BY Zenon DEF DeregisterAll
<1>5. active_index' = active_index \ {id} /\ active_count' = Cardinality(active_index')
  <2>1. IsFiniteSet(active_index) /\ active_count = Cardinality(active_index)
    BY Zenon DEF Inv, RowsInv, IndexExact
  <2>2. id \in active_index <=> r.status = "active"
    BY <1>1, Zenon DEF Inv, RowsInv, IndexExact, ActiveIds, IsActive, Registered
  <2>3. CASE r.status = "active"
    <3>1. active_index' = active_index \ {id} /\ active_count' = active_count - 1
      BY <2>3, Zenon DEF DeregisterAll
    <3> QED BY <2>1, <2>2, <2>3, <3>1, FS_RemoveElement, ZenonT(40)
  <2>4. CASE r.status # "active"
    <3>1. UNCHANGED <<active_index, active_count>>
      BY <2>4, Zenon DEF DeregisterAll
    <3> QED BY <2>1, <2>2, <2>4, <3>1, Zenon
  <2> QED BY <2>3, <2>4, Zenon
<1>6. RowsInv'
  <2> HIDE DEF new
  <2> QED BY <1>2, <1>3, <1>4, <1>5, IndexKept, ZenonT(40) DEF Inv, RowsInv, ChallengeRows
<1>7. RecordsInv'
  <2>1. OwnedBy(records[r.zone], RegistrationContributor(id)) \in SUBSET records[r.zone]
    BY Zenon DEF OwnedBy
  <2>2. RemoveAndSign(r.zone, OwnedBy(records[r.zone], RegistrationContributor(id)), now)
    BY Zenon DEF DeregisterAll
  <2> HIDE DEF r
  <2> QED BY <1>2, <2>1, <2>2, RemoveRecords, Zenon DEF Inv
<1>8. LeaseInv'
  <2>1. \A i \in RegistrationIds : registrations'[i] = IF i = id THEN new ELSE registrations[i]
    BY <1>3, Zenon DEF Inv, RowsInv
  <2> HIDE DEF new
  <2> QED BY <1>1, <1>2, <1>4, <2>1, LeaseKept, ZenonT(40) DEF Registered, SameLease
<1> QED BY <1>6, <1>7, <1>8, Zenon DEF Inv

\* Deregistering ports removes what it owns at their TLSA owners.
LEMMA DeregisterPortsStep ==
    ASSUME Inv, NEW now \in Times, now >= last_time, NEW id \in RegistrationIds,
           NEW selected \in SUBSET Ports, DeregisterPorts(id, selected, now)
    PROVE  Inv'
<1> DEFINE r == registrations[id]
           new == [r EXCEPT !.active_ports = @ \ selected]
           gone == {c \in OwnedBy(records[r.zone], RegistrationContributor(id)) :
                       c.owner \in selected \X {r.host}}
<1>1. r \in Registration /\ r # NoRow
  BY Zenon DEF Inv, RowsInv, DeregisterPorts, MayDeregister
<1>2. /\ new \in Registration /\ new.status = r.status /\ SameLease(new, r)
      /\ r.zone \in Zones /\ r.status \in {"active", "expired", "withdrawn"}
  <2> HIDE DEF r
  <2> QED BY <1>1, Zenon DEF Registration, SameLease
<1>3. registrations' = [registrations EXCEPT ![id] = new]
  BY Zenon DEF DeregisterPorts, Inv, RowsInv
<1>4. UNCHANGED <<grants, policies, active_index, active_count, challenges>> /\ last_time' = now
  BY Zenon DEF DeregisterPorts
<1>5. /\ active_index' = IF new.status = "active" THEN active_index \cup {id}
                                                  ELSE active_index \ {id}
      /\ active_count' = Cardinality(active_index')
  <2>1. id \in active_index <=> r.status = "active"
    BY <1>1, Zenon DEF Inv, RowsInv, IndexExact, ActiveIds, IsActive, Registered
  <2>2. active_count' = Cardinality(active_index')
    BY <1>4, Zenon DEF Inv, RowsInv, IndexExact
  <2> HIDE DEF new, r
  <2> QED BY <1>2, <1>4, <2>1, <2>2, Zenon
<1>6. RowsInv'
  <2> HIDE DEF new
  <2> QED BY <1>2, <1>3, <1>4, <1>5, IndexKept, Zenon DEF Inv, RowsInv, ChallengeRows
<1>7. RecordsInv'
  <2>1. gone \in SUBSET records[r.zone]
    BY Zenon DEF OwnedBy
  <2>2. RemoveAndSign(r.zone, gone, now)
    BY Zenon DEF DeregisterPorts
  <2> HIDE DEF r, gone
  <2> QED BY <1>2, <2>1, <2>2, RemoveRecords, Zenon DEF Inv
<1>8. LeaseInv'
  <2>1. \A i \in RegistrationIds : registrations'[i] = IF i = id THEN new ELSE registrations[i]
    BY <1>3, Zenon DEF Inv, RowsInv
  <2> HIDE DEF new
  <2> QED BY <1>1, <1>2, <1>4, <2>1, LeaseKept, Zenon DEF Registered, SameLease
<1> QED BY <1>6, <1>7, <1>8, Zenon DEF Inv

\* Steps that write no registration row keep the leases and the index.
LEMMA RegistrationsKept ==
    ASSUME Inv, UNCHANGED <<registrations, active_index, active_count>>,
           last_time' \in Times, last_time' >= last_time
    PROVE  LeaseInv' /\ IndexExact'
<1>1. LeaseInv'
  BY LeaseKept, Zenon DEF Registered, SameLease
<1>2. IndexExact'
  BY Zenon DEF Inv, RowsInv, IndexExact, ActiveIds, IsActive, Registered
<1> QED BY <1>1, <1>2, Zenon

\* A new challenge is within the bound and adds one record of its own.
LEMMA AcmeChallengeCreateStep ==
    ASSUME Inv, NEW now \in Times, now >= last_time, NEW cid \in ChallengeIds,
           NEW g \in Grants, NEW id \in RegistrationIds, NEW lifetime \in LeaseSeconds,
           AcmeChallengeCreate(cid, g, id, lifetime, now)
    PROVE  Inv'
<1> DEFINE r == registrations[id]
           row == grants[g]
           expires == Minimum({now + lifetime, row.valid_until, r.lease_expires_at})
           ttl == Minimum({RecordTtl, expires - now})
           new == [grant |-> g, registration |-> id, zone |-> r.zone, name |-> r.host,
                   signer |-> row.subject, expires_at |-> expires]
           rec == ChallengeRecord(cid, r.host, ttl)
<1>1. r \in Registration /\ row \in OwnerGrant
  BY Zenon DEF Inv, RowsInv, AcmeChallengeCreate, ActiveRegistration, Authorized
<1>2. r.zone \in Zones /\ r.host \in Hosts /\ r.lease_expires_at \in Nat
  <2> HIDE DEF r
  <2> QED BY <1>1, Zenon DEF Registration
<1>3. row.subject \in Keys /\ row.valid_until \in Nat
  <2> HIDE DEF row
  <2> QED BY <1>1, Zenon DEF OwnerGrant
<1>4. now \in Nat /\ now + lifetime \in Nat
  BY RowAssumption, SettingsAssumption
<1>5. expires \in Nat /\ expires > now
  <2>1. expires > now
    BY Zenon DEF AcmeChallengeCreate
  <2>2. expires \in Nat
    <3> HIDE DEF r, row
    <3> QED BY <1>2, <1>3, <1>4, MinimumOfThree, Zenon
  <2> QED BY <2>1, <2>2, Zenon
<1>6. ttl \in Nat
  <2> HIDE DEF expires
  <2>1. expires - now \in Nat
    BY <1>4, <1>5
  <2> QED BY <2>1, SettingsAssumption, MinimumOfTwo, Zenon
<1>7. rec \in Contribution
  <2> HIDE DEF ttl, r
  <2> QED BY <1>2, <1>6, ChallengeRecordType, Zenon
<1>8. RecordsInv'
  <2>1. AddAndSign(r.zone, {rec}, now)
    BY Zenon DEF AcmeChallengeCreate
  <2> HIDE DEF rec, r
  <2> QED BY <1>2, <1>7, <2>1, FS_Singleton, AddRecords, Zenon DEF Inv
<1>9. new \in AcmeChallenge
  <2> HIDE DEF r, row, expires
  <2> QED BY <1>2, <1>3, <1>5, Zenon DEF AcmeChallenge
<1>10. /\ challenges' = [challenges EXCEPT ![cid] = new] /\ challenges[cid] = NoRow
       /\ Cardinality(ChallengeRows) < MAX_ACME_CHALLENGES
       /\ last_time' = now
       /\ UNCHANGED <<grants, policies, registrations, active_index, active_count>>
  BY Zenon DEF AcmeChallengeCreate
<1>11. Cardinality(ChallengeRows') <= MAX_ACME_CHALLENGES
  <2>1. ChallengeRows' = ChallengeRows \cup {cid} /\ cid \notin ChallengeRows
    <3> HIDE DEF new
    <3> QED BY <1>9, <1>10, NoRowAssumption DEF ChallengeRows, Inv, RowsInv
  <2>2. IsFiniteSet(ChallengeRows)
    BY NameAssumption, FS_Subset, Zenon DEF ChallengeRows
  <2>3. Cardinality(ChallengeRows') = Cardinality(ChallengeRows) + 1 /\ Cardinality(ChallengeRows) \in Nat
    BY <2>1, <2>2, FS_AddElement, FS_CardinalityType, Zenon
  <2>4. Cardinality(ChallengeRows) < MAX_ACME_CHALLENGES /\ MAX_ACME_CHALLENGES \in Nat
    BY <1>10, SettingsAssumption, Zenon
  <2> QED BY <2>3, <2>4
<1>12. LeaseInv' /\ IndexExact'
  BY <1>10, RegistrationsKept, ZenonT(40)
<1>13. RowsInv'
  <2>1. challenges' \in [ChallengeIds -> AcmeChallenge \cup {NoRow}]
    <3> HIDE DEF new
    <3> QED BY <1>9, <1>10, Zenon DEF Inv, RowsInv
  <2> QED BY <1>10, <1>11, <1>12, <2>1, Zenon DEF Inv, RowsInv
<1> QED BY <1>8, <1>12, <1>13, Zenon DEF Inv

\* Fewer challenge rows are still within the bound.
LEMMA FewerChallenges ==
    ASSUME RowsInv, ChallengeRows' \subseteq ChallengeRows
    PROVE  Cardinality(ChallengeRows') <= MAX_ACME_CHALLENGES
<1>1. IsFiniteSet(ChallengeRows)
  BY NameAssumption, FS_Subset, Zenon DEF ChallengeRows
<1>2. /\ Cardinality(ChallengeRows') \in Nat /\ Cardinality(ChallengeRows) \in Nat
      /\ Cardinality(ChallengeRows') <= Cardinality(ChallengeRows)
  <2> DEFINE A == ChallengeRows
             B == ChallengeRows'
  <2>1. IsFiniteSet(A) /\ B \subseteq A
    BY <1>1, Zenon
  <2> HIDE DEF A, B
  <2>2. Cardinality(B) \in Nat /\ Cardinality(A) \in Nat /\ Cardinality(B) <= Cardinality(A)
    BY <2>1, FS_Subset, FS_CardinalityType, Zenon
  <2> QED BY <2>2, Zenon DEF A, B
<1> QED BY <1>2, SettingsAssumption DEF RowsInv

\* Deleting a challenge removes its row and the record it owns.
LEMMA AcmeChallengeDeleteStep ==
    ASSUME Inv, NEW now \in Times, now >= last_time, NEW cid \in ChallengeIds,
           AcmeChallengeDelete(cid, now)
    PROVE  Inv'
<1> DEFINE c == challenges[cid]
<1>1. c \in AcmeChallenge
  BY Zenon DEF Inv, RowsInv, AcmeChallengeDelete
<1>2. c.zone \in Zones
  BY <1>1, Zenon DEF AcmeChallenge
<1>3. /\ challenges' = [challenges EXCEPT ![cid] = NoRow]
      /\ last_time' = now
      /\ UNCHANGED <<grants, policies, registrations, active_index, active_count>>
  BY ZenonT(40) DEF AcmeChallengeDelete
<1>4. RecordsInv'
  <2>1. OwnedBy(records[c.zone], ChallengeContributor(cid)) \in SUBSET records[c.zone]
    BY Zenon DEF OwnedBy
  <2>2. RemoveAndSign(c.zone, OwnedBy(records[c.zone], ChallengeContributor(cid)), now)
    BY Zenon DEF AcmeChallengeDelete
  <2> HIDE DEF c
  <2> QED BY <1>2, <2>1, <2>2, RemoveRecords, ZenonT(40) DEF Inv
<1>5. challenges' \in [ChallengeIds -> AcmeChallenge \cup {NoRow}] /\ ChallengeRows' \subseteq ChallengeRows
  BY <1>3, Zenon DEF Inv, RowsInv, ChallengeRows
<1>6. Cardinality(ChallengeRows') <= MAX_ACME_CHALLENGES
  BY <1>5, FewerChallenges, Zenon DEF Inv
<1>7. LeaseInv' /\ IndexExact'
  BY <1>3, RegistrationsKept, Zenon
<1>8. RowsInv'
  BY <1>3, <1>5, <1>6, <1>7, Zenon DEF Inv, RowsInv
<1> QED BY <1>4, <1>7, <1>8, Zenon DEF Inv

\* What an operator's request leaves stored is finite and well-formed, so its
\* counters are exact.
LEMMA OperatorRecordsStep ==
    ASSUME Inv, NEW now \in Times, now >= last_time, NEW g \in Grants, NEW z \in Zones,
           NEW ms \in OperatorRequests, NEW serial \in 0 .. (SerialModulus - 1),
           OperatorRecords(g, z, ms, serial, now)
    PROVE  Inv'
<1> DEFINE removed(i) == IF ms[i].action = "add" THEN {}
                         ELSE OwnedBy(records[z], OperatorContributor(g, ms[i]))
           rec(i, d) == [contributor |-> OperatorContributor(g, ms[i]), owner |-> ms[i].owner,
                         type |-> ms[i].type, data |-> d, ttl |-> ms[i].ttl]
           added(i) == {rec(i, d) : d \in ms[i].data}
           family == {added(j) : j \in DOMAIN ms}
           after == (records[z] \ UNION {removed(j) : j \in DOMAIN ms}) \cup UNION family
<1>1. /\ StoreAndSign(z, after, UsageShift(usage[z], records[z], after), now)
      /\ last_time' = now
      /\ UNCHANGED <<grants, policies, registrations, active_index, active_count, challenges>>
  BY Zenon DEF OperatorRecords
<1>2. /\ ms \in Seq([action : {"add", "replace", "delete"}, owner : Owners,
                      type : OperatorTypes, data : SUBSET OperatorData, ttl : Nat])
      /\ \A i \in DOMAIN ms : IsFiniteSet(ms[i].data)
  BY OperatorAssumption, Zenon
<1>3. \A i \in DOMAIN ms : /\ ms[i].owner \in Owners /\ ms[i].type \in OperatorTypes
                           /\ ms[i].data \in SUBSET OperatorData /\ ms[i].ttl \in Nat
  <2> DEFINE M == [action : {"add", "replace", "delete"}, owner : Owners,
                   type : OperatorTypes, data : SUBSET OperatorData, ttl : Nat]
  <2>1. \A m \in M : /\ m.owner \in Owners /\ m.type \in OperatorTypes
                     /\ m.data \in SUBSET OperatorData /\ m.ttl \in Nat
    BY Zenon
  <2>2. ms \in Seq(M)
    BY <1>2, Zenon
  <2> HIDE DEF M
  <2>3. \A i \in DOMAIN ms : ms[i] \in M
    BY <2>2, SMTT(30)
  <2> QED BY <2>1, <2>3, Zenon
<1>4. \A i \in DOMAIN ms : added(i) \subseteq Contribution
  <2> SUFFICES ASSUME NEW i \in DOMAIN ms, NEW d \in ms[i].data
               PROVE  rec(i, d) \in Contribution
    BY Zenon
  <2>1. OperatorContributor(g, ms[i]) \in Contributor
    BY <1>3, Zenon DEF OperatorContributor, Contributor, Types
  <2> QED BY <1>3, <2>1, ZenonT(40) DEF Contribution, Types
<1>5. \A i \in DOMAIN ms : IsFiniteSet(added(i))
  <2> TAKE i \in DOMAIN ms
  <2> DEFINE f == [d \in ms[i].data |-> rec(i, d)]
  <2>1. f \in Surjection(ms[i].data, added(i))
    BY Zenon DEF Surjection
  <2>2. IsFiniteSet(ms[i].data)
    BY <1>2, Zenon
  <2> HIDE DEF f, added
  <2> QED BY <2>1, <2>2, FS_Surjection, Zenon
<1>6. IsFiniteSet(UNION family)
  <2>1. IsFiniteSet(DOMAIN ms)
    <3>1. Len(ms) \in Nat /\ DOMAIN ms = 1 .. Len(ms)
      BY <1>2
    <3> QED BY <3>1, FS_Interval
  <2> DEFINE h == [j \in DOMAIN ms |-> added(j)]
  <2>2. h \in Surjection(DOMAIN ms, family)
    <3> HIDE DEF added
    <3> QED BY Zenon DEF Surjection
  <2>3. IsFiniteSet(family)
    BY <2>1, <2>2, FS_Surjection, Zenon
  <2>4. \A T \in family : IsFiniteSet(T)
    <3> HIDE DEF added
    <3> QED BY <1>5, Zenon
  <2> HIDE DEF family
  <2> QED BY <2>3, <2>4, FS_UNION, Zenon
<1>7. /\ records[z] \subseteq Contribution /\ IsFiniteSet(records[z])
      /\ usage[z] = UsageOf(records[z])
  BY ZenonT(40) DEF Inv, RecordsInv, UsageExact
<1>8. IsFiniteSet(after)
  <2> HIDE DEF family, removed
  <2>1. IsFiniteSet(records[z] \ UNION {removed(j) : j \in DOMAIN ms})
    BY <1>7, FS_Difference, ZenonT(40)
  <2> QED BY <1>6, <2>1, FS_Union, ZenonT(40)
<1>9. after \in SUBSET Contribution
  <2> HIDE DEF added, removed
  <2> QED BY <1>4, <1>7, Zenon
<1>10. RecordsInv'
  <2> HIDE DEF after
  <2>1. UsageShift(usage[z], records[z], after) = UsageOf(after)
    BY <1>7, <1>8, UsageShiftExact, Zenon
  <2> QED BY <1>1, <1>8, <1>9, <2>1, StoreRecords, Zenon DEF Inv
<1>11. LeaseInv' /\ IndexExact'
  BY <1>1, RegistrationsKept, ZenonT(40)
<1>12. RowsInv'
  BY <1>1, <1>11, Zenon DEF Inv, RowsInv, ChallengeRows
<1> QED BY <1>10, <1>11, <1>12, Zenon DEF Inv

\* Maintenance ends rows, takes them out of the index and removes what they own
\* from every zone; a zone that changed or is due is signed again.
LEMMA MaintenanceStep ==
    ASSUME Inv, NEW now \in Times, Maintenance(now)
    PROVE  Inv'
<1> DEFINE kept(z) == records[z] \ Withdrawn(z, now)
           dirty == {z \in Zones : Withdrawn(z, now) # {} \/ RefreshDue(z, now)}
<1>1. /\ now >= last_time /\ last_time' = now /\ UNCHANGED <<grants, policies>>
      /\ \A id \in active_index : registrations[id] # NoRow
      /\ registrations' = [id \in RegistrationIds |-> SettledRegistration(id, now)]
      /\ active_index' = active_index \ Ended(now)
      /\ active_count' = active_count - Cardinality(Ended(now))
  BY ZenonT(40) DEF Maintenance
<1>2. \A id \in RegistrationIds :
         /\ registrations'[id] \in Registration \cup {NoRow}
         /\ Registered(id)' => Registered(id) /\ SameLease(registrations'[id], registrations[id])
         /\ id \in Ended(now) => ~ IsActive(id)'
         /\ id \notin Ended(now) => registrations'[id] = registrations[id]
  <2> TAKE id \in RegistrationIds
  <2> DEFINE r == registrations[id]
             s == IF AuthorityInvalid(r, now) THEN "withdrawn" ELSE "expired"
             new == [r EXCEPT !.status = s, !.active_ports = {}]
  <2>1. registrations'[id] = IF id \in Ended(now) THEN new ELSE r
    BY <1>1, Zenon DEF SettledRegistration
  <2>2. s \in {"expired", "withdrawn"}
    BY Zenon
  <2>3. CASE id \in Ended(now)
    <3>1. r \in Registration /\ r # NoRow
      BY <1>1, <2>3, Zenon DEF Ended, Inv, RowsInv
    <3>2. new \in Registration /\ new.status # "active" /\ SameLease(new, r)
      <4> HIDE DEF r, s
      <4> QED BY <2>2, <3>1, Zenon DEF Registration, SameLease
    <3> HIDE DEF new
    <3> QED BY <2>1, <2>3, <3>1, <3>2, Zenon DEF Registered, IsActive
  <2>4. CASE id \notin Ended(now)
    BY <2>1, <2>4, Zenon DEF Registered, SameLease, Inv, RowsInv
  <2> QED BY <2>3, <2>4, ZenonT(40)
<1>3. /\ IsFiniteSet(active_index') /\ active_index' \in SUBSET RegistrationIds
      /\ active_count' = Cardinality(active_index')
  <2>1. Ended(now) \subseteq active_index
    BY Zenon DEF Ended
  <2>2. IsFiniteSet(active_index) /\ active_count = Cardinality(active_index)
        /\ active_index \subseteq RegistrationIds
    BY Zenon DEF Inv, RowsInv, IndexExact
  <2>3. Cardinality(active_index \ Ended(now)) = Cardinality(active_index) - Cardinality(Ended(now))
    <3> DEFINE E == Ended(now)
    <3>1. E \subseteq active_index
      BY <2>1, Zenon
    <3> HIDE DEF E
    <3>2. active_index \cap E = E
      BY <3>1, Zenon
    <3>3. Cardinality(active_index \ E) = Cardinality(active_index) - Cardinality(active_index \cap E)
      BY <2>2, FS_Difference, ZenonT(40)
    <3>4. Cardinality(active_index \ E) = Cardinality(active_index) - Cardinality(E)
      BY <3>2, <3>3, Zenon
    <3> QED BY <3>4, Zenon DEF E
  <2> QED BY <1>1, <2>1, <2>2, <2>3, FS_Difference, Zenon
<1>4. active_index' = ActiveIds'
  <2>1. \A id \in RegistrationIds : id \in active_index <=> IsActive(id)
    BY Zenon DEF Inv, RowsInv, IndexExact, ActiveIds
  <2>2. \A id \in RegistrationIds : id \in active_index' <=> IsActive(id)'
    BY <1>1, <1>2, <2>1, ZenonT(40) DEF IsActive, Registered, Ended
  <2> QED BY <1>3, <2>2, Zenon DEF ActiveIds
<1>5. LeaseInv'
  BY <1>1, <1>2, LeaseKept, Zenon
<1>6. challenges' \in [ChallengeIds -> AcmeChallenge \cup {NoRow}] /\ ChallengeRows' \subseteq ChallengeRows
  BY ZenonT(40) DEF Maintenance, Inv, RowsInv, ChallengeRows
<1>7. RowsInv'
  <2>1. Cardinality(ChallengeRows') <= MAX_ACME_CHALLENGES
    BY <1>6, FewerChallenges, Zenon DEF Inv
  <2>2. registrations' \in [RegistrationIds -> Registration \cup {NoRow}]
    BY <1>1, <1>2, Zenon
  <2>3. IndexExact'
    BY <1>3, <1>4, Zenon DEF IndexExact
  <2> QED BY <1>1, <1>3, <1>6, <2>1, <2>2, <2>3, ZenonT(40) DEF Inv, RowsInv
<1>8. RecordsInv'
  <2>1. /\ records' = [z \in Zones |-> kept(z)]
        /\ usage' = [z \in Zones |-> UsageAfterRemove(records[z], usage[z], Withdrawn(z, now))]
        /\ zones' = [z \in Zones |-> IF z \in dirty THEN Resigned(z, kept(z), now) ELSE zones[z]]
    BY ZenonT(40) DEF Maintenance
  <2>2. \A z \in Zones : /\ records[z] \in SUBSET Contribution /\ IsFiniteSet(records[z])
                         /\ usage[z] = UsageOf(records[z]) /\ Signable(records[z])
                         /\ Withdrawn(z, now) \subseteq records[z]
    BY ZenonT(40) DEF Inv, RecordsInv, UsageExact, Withdrawn
  <2>3. \A z \in Zones : /\ records'[z] = kept(z) /\ kept(z) \in SUBSET Contribution
                         /\ IsFiniteSet(kept(z))
                         /\ Signable(kept(z))
                         /\ usage'[z] = UsageOf(kept(z))
    <3> TAKE z \in Zones
    <3>1. IsFiniteSet(kept(z)) /\ Signable(kept(z))
      BY <2>2, FS_Difference, SignableSubset, ZenonT(40)
    <3>2. UsageAfterRemove(records[z], usage[z], Withdrawn(z, now)) = UsageOf(kept(z))
      BY <2>2, UsageRemoveExact, Zenon
    <3> QED BY <2>1, <2>2, <3>1, <3>2, ZenonT(40)
  <2>4. \A z \in Zones : UsageOf(kept(z)) \in Usage
    BY <2>3, UsageOfType, Zenon
  <2>5. \A z \in Zones : /\ zones'[z].serial \in 0 .. (SerialModulus - 1)
                         /\ zones'[z].expiration \in Nat
                         /\ zones'[z].signed = Published(kept(z))
    <3> TAKE z \in Zones
    <3> HIDE DEF kept
    <3>1. CASE z \in dirty
      <4>1. zones'[z] = Resigned(z, kept(z), now)
        BY <2>1, <3>1, ZenonT(40)
      <4>2. zones[z].serial + 1 \in Nat
        BY SettingsAssumption, SMTT(30) DEF Inv, RecordsInv
      <4>3. (zones[z].serial + 1) % SerialModulus \in 0 .. (SerialModulus - 1)
        BY <4>2, SerialWraps, SettingsAssumption, Zenon
      <4>4. now + SignatureValidity \in Nat
        BY SettingsAssumption
      <4> QED BY <4>1, <4>3, <4>4, SMTT(30) DEF Resigned
    <3>2. CASE z \notin dirty
      <4>1. zones'[z] = zones[z] /\ kept(z) = records[z]
        BY <2>1, <3>2, ZenonT(40) DEF kept
      <4> QED BY <4>1, Zenon DEF Inv, RecordsInv, SnapshotCurrent
    <3> QED BY <3>1, <3>2, ZenonT(40)
  <2> HIDE DEF kept
  <2>6. records' \in [Zones -> SUBSET Contribution] /\ usage' \in [Zones -> Usage] /\ DOMAIN zones' = Zones
    BY <2>1, <2>3, <2>4, Zenon
  <2> QED BY <2>3, <2>5, <2>6, ZenonT(40) DEF RecordsInv, UsageExact, SnapshotCurrent
<1> QED BY <1>5, <1>7, <1>8, Zenon DEF Inv

\* Governance replaces one row of its own tables.  It touches no registration,
\* so leases stay bounded by the policy they were appraised under.
LEMMA GovernStep ==
    ASSUME Inv, Govern
    PROVE  Inv'
<1>1. /\ UNCHANGED <<registrations, active_index, active_count, challenges,
                     records, usage, zones, last_time>>
      /\ grants' \in [Grants -> OwnerGrant \cup {NoRow}]
      /\ policies' \in [Zones -> AppraisalPolicies \cup {NoRow}]
  <2>1. CASE \E g \in Grants, row \in OwnerGrants : SetOwnerGrant(g, row)
    BY <2>1, RowAssumption, Zenon DEF SetOwnerGrant, Inv, RowsInv
  <2>2. CASE \E g \in Grants : RevokeOwnerGrant(g)
    <3>1. PICK g \in Grants : RevokeOwnerGrant(g)
      BY <2>2, Zenon
    <3>2. grants[g] \in OwnerGrant
      BY <3>1, Zenon DEF RevokeOwnerGrant, Inv, RowsInv
    <3>3. [grants[g] EXCEPT !.revoked = TRUE] \in OwnerGrant
      BY <3>2, ZenonT(40) DEF OwnerGrant
    <3>4. grants' = [grants EXCEPT ![g] = [grants[g] EXCEPT !.revoked = TRUE]]
      BY <3>1, Zenon DEF RevokeOwnerGrant, Inv, RowsInv
    <3> QED BY <3>1, <3>3, <3>4, Zenon DEF RevokeOwnerGrant, Inv, RowsInv
  <2>3. CASE \E z \in Zones, policy \in AppraisalPolicies : SetAppraisalPolicy(z, policy)
    BY <2>3, Zenon DEF SetAppraisalPolicy, Inv, RowsInv
  <2> QED BY <2>1, <2>2, <2>3, Zenon DEF Govern
<1>2. last_time' \in Times /\ last_time' >= last_time
  BY <1>1, SettingsAssumption DEF Inv, RowsInv
<1>3. LeaseInv' /\ IndexExact'
  BY <1>1, <1>2, RegistrationsKept, Zenon
<1>4. RowsInv'
  BY <1>1, <1>2, <1>3, Zenon DEF Inv, RowsInv, ChallengeRows
<1>5. RecordsInv'
  BY <1>1, Zenon DEF Inv, RecordsInv, UsageExact, SnapshotCurrent
<1> QED BY <1>3, <1>4, <1>5, Zenon DEF Inv

\* A transaction that only moves the watermark.
LEMMA ObserveTimeStep ==
    ASSUME Inv, NEW now \in Times, ObserveTime(now)
    PROVE  Inv'
<1>1. /\ UNCHANGED <<grants, policies, registrations, active_index, active_count,
                     challenges, records, usage, zones>>
      /\ last_time' = now /\ now >= last_time
  BY SettingsAssumption DEF ObserveTime, Inv, RowsInv
<1>2. LeaseInv' /\ IndexExact'
  BY <1>1, RegistrationsKept, Zenon
<1>3. RowsInv'
  BY <1>1, <1>2, Zenon DEF Inv, RowsInv, ChallengeRows
<1>4. RecordsInv'
  BY <1>1, Zenon DEF Inv, RecordsInv, UsageExact, SnapshotCurrent
<1> QED BY <1>2, <1>3, <1>4, Zenon DEF Inv

---------------------------------------------------------------------------
(* The invariant *)

\* The first commit holds nothing but signed base records.
LEMMA InitInv == Init => Inv
<1> SUFFICES ASSUME Init PROVE Inv
  BY Zenon
<1>1. RowsInv
  <2>1. ActiveIds = {} /\ ChallengeRows = {}
    BY Zenon DEF Init, ActiveIds, IsActive, Registered, ChallengeRows
  <2>2. IsFiniteSet({}) /\ Cardinality({}) = 0
    BY FS_EmptySet, Zenon
  <2>3. active_index = {} /\ active_count = 0
    BY Zenon DEF Init
  <2>4. IndexExact /\ IsFiniteSet(active_index)
    BY <2>1, <2>2, <2>3, Zenon DEF IndexExact
  <2>5. Cardinality(ChallengeRows) <= MAX_ACME_CHALLENGES
    BY <2>1, <2>2, SettingsAssumption
  <2>6. last_time \in Times
    BY SettingsAssumption DEF Init
  <2>7. /\ grants \in [Grants -> OwnerGrant \cup {NoRow}]
        /\ policies \in [Zones -> AppraisalPolicies \cup {NoRow}]
        /\ registrations \in [RegistrationIds -> Registration \cup {NoRow}]
        /\ challenges \in [ChallengeIds -> AcmeChallenge \cup {NoRow}]
    BY Zenon DEF Init
  <2> QED BY <2>3, <2>4, <2>5, <2>6, <2>7, Zenon DEF RowsInv
<1>2. RecordsInv
  <2>1. IsFiniteSet({}) /\ UsageOf({}) = NoUsage /\ NoUsage \in Usage
    <3>1. RrsetKeys({}) = {}
      BY Zenon DEF RrsetKeys
    <3> QED BY <3>1, FS_EmptySet, Zenon DEF UsageOf, NoUsage, Usage
  <2>2. \A z \in Zones : /\ zones[z].serial = 0 /\ zones[z].expiration = SignatureValidity
                         /\ zones[z].signed = Published({}) /\ records[z] = {}
                         /\ usage[z] = NoUsage
    BY Zenon DEF Init
  <2>3. /\ records \in [Zones -> SUBSET Contribution] /\ usage \in [Zones -> Usage]
        /\ DOMAIN zones = Zones
    BY <2>1, Zenon DEF Init
  <2>4. 0 \in 0 .. (SerialModulus - 1) /\ SignatureValidity \in Nat /\ Signable({})
    BY SettingsAssumption
  <2>5. UsageExact /\ SnapshotCurrent
    BY <2>1, <2>2, ZenonT(40) DEF UsageExact, SnapshotCurrent
  <2> QED BY <2>1, <2>2, <2>3, <2>4, <2>5, ZenonT(40) DEF RecordsInv
<1>3. LeaseInv
  BY Zenon DEF Init, LeaseInv, Registered
<1> QED BY <1>1, <1>2, <1>3, Zenon DEF Inv

\* Every accepted mutation keeps the invariant.
LEMMA MutateStep ==
    ASSUME Inv, NEW now \in Times, Mutate(now)
    PROVE  Inv'
<1>0. now >= last_time
  BY Zenon DEF Mutate
<1>1. CASE \E id \in RegistrationIds, g \in Grants, z \in Zones, p \in RegisterParameters,
              seconds \in LeaseSeconds, certificate \in CertificateExpirations :
              Register(id, g, z, p, seconds, certificate, now)
  BY <1>0, <1>1, RegisterStep, Zenon
<1>2. CASE \E id \in RegistrationIds, profile \in Profiles, seconds \in LeaseSeconds,
              certificate \in CertificateExpirations :
              RenewWithEvidence(id, profile, certificate, seconds, now)
  BY <1>0, <1>2, RenewWithEvidenceStep, Zenon
<1>3. CASE \E id \in RegistrationIds, seconds \in LeaseSeconds :
              RenewWithoutEvidence(id, seconds, now)
  BY <1>0, <1>3, RenewWithoutEvidenceStep, Zenon
<1>4. CASE \E id \in RegistrationIds : DeregisterAll(id, now)
  BY <1>0, <1>4, DeregisterAllStep, Zenon
<1>5. CASE \E id \in RegistrationIds, selected \in SUBSET Ports :
              DeregisterPorts(id, selected, now)
  BY <1>0, <1>5, DeregisterPortsStep, Zenon
<1>6. CASE \E cid \in ChallengeIds, g \in Grants, id \in RegistrationIds,
              lifetime \in LeaseSeconds :
              AcmeChallengeCreate(cid, g, id, lifetime, now)
  BY <1>0, <1>6, AcmeChallengeCreateStep, Zenon
<1>7. CASE \E cid \in ChallengeIds : AcmeChallengeDelete(cid, now)
  BY <1>0, <1>7, AcmeChallengeDeleteStep, Zenon
<1>8. CASE \E g \in Grants, z \in Zones, ms \in OperatorRequests,
              serial \in 0 .. (SerialModulus - 1) :
              OperatorRecords(g, z, ms, serial, now)
  BY <1>0, <1>8, OperatorRecordsStep, Zenon
<1> QED BY <1>1, <1>2, <1>3, <1>4, <1>5, <1>6, <1>7, <1>8, Zenon DEF Mutate

\* So does every step.
LEMMA InvStep == Inv /\ [Next]_vars => Inv'
<1> SUFFICES ASSUME Inv, [Next]_vars PROVE Inv'
  BY Zenon
<1>1. CASE \E now \in Times : Mutate(now)
  BY <1>1, MutateStep, Zenon
<1>2. CASE \E now \in Times : Maintenance(now)
  BY <1>2, MaintenanceStep, Zenon
<1>3. CASE \E now \in Times : ObserveTime(now)
  BY <1>3, ObserveTimeStep, Zenon
<1>4. CASE Govern
  BY <1>4, GovernStep, Zenon
<1>5. CASE UNCHANGED vars
  <2>1. UNCHANGED <<grants, policies, registrations, active_index, active_count,
                    challenges, records, usage, zones, last_time>>
    BY <1>5, Zenon DEF vars
  <2> QED BY <2>1, Zenon DEF Inv, RowsInv, RecordsInv, LeaseInv, LeaseOf, IndexExact, ActiveIds,
                      IsActive, Registered, ChallengeRows, UsageExact, SnapshotCurrent
<1> QED BY <1>1, <1>2, <1>3, <1>4, <1>5, Zenon DEF Next

\* The invariant holds at every commit.
THEOREM Invariance == Spec => []Inv
BY InitInv, InvStep, PTL DEF Spec

\* Type correctness: every row the service stores has its type, counters stay
\* natural and serials stay below their modulus.
THEOREM TypeCorrect == Spec => []TypeOK
<1>1. Inv => TypeOK
  <2> SUFFICES ASSUME Inv PROVE TypeOK
    BY Zenon
  <2>1. active_count \in Nat
    BY FS_CardinalityType, Zenon DEF Inv, RowsInv, IndexExact
  <2> QED BY <2>1, Zenon DEF Inv, RowsInv, RecordsInv, TypeOK
<1> QED BY <1>1, Invariance, PTL

\* The active-registration index is exactly the set of active rows.
THEOREM IndexCorrect == Spec => []IndexExact
<1>1. Inv => IndexExact
  BY Zenon DEF Inv, RowsInv
<1> QED BY <1>1, Invariance, PTL

\* The usage counters, kept by difference, are what a recount would give.
THEOREM UsageCorrect == Spec => []UsageExact
<1>1. Inv => UsageExact
  BY Zenon DEF Inv, RecordsInv
<1> QED BY <1>1, Invariance, PTL

\* No commit leaves a zone's signed snapshot behind its records.
THEOREM SnapshotCorrect == Spec => []SnapshotCurrent
<1>1. Inv => SnapshotCurrent
  BY Zenon DEF Inv, RecordsInv
<1> QED BY <1>1, Invariance, PTL

\* Whatever is derived from the rows agrees with them at every commit.
THEOREM TablesCorrect == Spec => []TablesExact
BY IndexCorrect, UsageCorrect, SnapshotCorrect, PTL DEF TablesExact

\* A lease never outlives its appraisal, its policy or its requested duration
\* from admission, however it is renewed.
THEOREM LeaseCorrect == Spec => []LeaseBounded
<1>1. Inv => LeaseBounded
  <2> SUFFICES ASSUME Inv, NEW id \in RegistrationIds, Registered(id)
               PROVE  LET r == registrations[id]
                      IN  /\ LeaseOf(r)
                          /\ (policies[r.zone] # NoRow /\ policies[r.zone].policy_id = r.policy_id) =>
                                r.lease_expires_at <= policies[r.zone].valid_until
    BY Zenon DEF LeaseBounded, LeaseOf
  <2>1. registrations[id].zone \in Zones
    BY Zenon DEF Inv, RowsInv, Registered, Registration
  <2>2. LeaseOf(registrations[id])
    BY Zenon DEF Inv, LeaseInv
  <2>3. policies[registrations[id].zone] # NoRow => policies[registrations[id].zone] \in AppraisalPolicies
    BY <2>1, Zenon DEF Inv, RowsInv
  <2> QED BY <2>2, <2>3, PolicyIdentity, Zenon DEF LeaseOf
<1> QED BY <1>1, Invariance, PTL

\* No accepted request can stop maintenance: its checks on the index, the
\* counters, the challenge table and the signer's input always pass.
THEOREM MaintenanceNeverBlocked == Spec => []MaintenanceCanRun
<1>1. Inv => MaintenanceCanRun
  <2> SUFFICES ASSUME Inv PROVE MaintenanceCanRun
    BY Zenon
  <2>1. /\ Cardinality(active_index) = active_count
        /\ \A id \in active_index : IsActive(id)
        /\ Cardinality(ChallengeRows) <= MAX_ACME_CHALLENGES
    BY Zenon DEF Inv, RowsInv, IndexExact, ActiveIds
  <2>2. ASSUME NEW now \in Times, NEW z \in Zones
        PROVE  /\ CanRemove(records[z], usage[z], Withdrawn(z, now))
               /\ Signable(records[z] \ Withdrawn(z, now))
    <3>1. /\ IsFiniteSet(records[z]) /\ usage[z] = UsageOf(records[z]) /\ Signable(records[z])
          /\ Withdrawn(z, now) \subseteq records[z]
      BY ZenonT(40) DEF Inv, RecordsInv, UsageExact, Withdrawn
    <3>2. CanRemove(records[z], usage[z], Withdrawn(z, now))
      BY <3>1, UsageRemoveExact, ZenonT(40)
    <3>3. Signable(records[z] \ Withdrawn(z, now))
      BY <3>1, SignableSubset, Zenon
    <3> QED BY <3>2, <3>3, Zenon
  <2> QED BY <2>1, <2>2, Zenon DEF MaintenanceCanRun
<1> QED BY <1>1, Invariance, PTL

---------------------------------------------------------------------------
(* Action properties *)

\* What one step may not do to an ended registration.
EndedStays ==
    \A id \in RegistrationIds :
       (Registered(id) /\ ~ IsActive(id)) => (Registered(id)' /\ ~ IsActive(id)')

\* A mutation writes the row of one registration: a new one, an active one, or
\* one that it ends or whose status it keeps.
LEMMA MutateKeepsEnded ==
    ASSUME Inv, NEW now \in Times, Mutate(now)
    PROVE  EndedStays
<1> USE DEF EndedStays, Registered, IsActive
<1>0. registrations \in [RegistrationIds -> Registration \cup {NoRow}]
  BY Zenon DEF Inv, RowsInv
<1>1. CASE \E id \in RegistrationIds, g \in Grants, z \in Zones, p \in RegisterParameters,
              seconds \in LeaseSeconds, certificate \in CertificateExpirations :
              Register(id, g, z, p, seconds, certificate, now)
  <2>1. PICK id \in RegistrationIds, g \in Grants, z \in Zones, p \in RegisterParameters,
             seconds \in LeaseSeconds, certificate \in CertificateExpirations :
             Register(id, g, z, p, seconds, certificate, now)
    BY <1>1, Zenon
  <2>2. registrations[id] = NoRow
    BY <2>1, ZenonT(40) DEF Register
  <2>3. \A i \in RegistrationIds \ {id} : registrations'[i] = registrations[i]
    BY <1>0, <2>1, ZenonT(40) DEF Register
  <2> QED BY <2>2, <2>3, Zenon
<1>2. ASSUME NEW id \in RegistrationIds, NEW renewed, NEW seconds \in LeaseSeconds,
             registrations[id] # NoRow, RenewLease(id, renewed, seconds, now)
      PROVE  EndedStays
  <2>1. registrations[id].status = "active"
    BY <1>2, Zenon DEF RenewLease
  <2>2. \A i \in RegistrationIds \ {id} : registrations'[i] = registrations[i]
    BY <1>0, <1>2, Zenon DEF RenewLease
  <2> QED BY <1>2, <2>1, <2>2, Zenon
<1>3. ASSUME NEW id \in RegistrationIds, NEW new, new # NoRow,
             registrations[id] # NoRow,
             new.status \in {"withdrawn", registrations[id].status},
             registrations' = [registrations EXCEPT ![id] = new]
      PROVE  EndedStays
  <2>1. \A i \in RegistrationIds : registrations'[i] = IF i = id THEN new ELSE registrations[i]
    BY <1>0, <1>3, Zenon
  <2> QED BY <1>3, <2>1, Zenon
<1>5. CASE \/ \E id \in RegistrationIds, profile \in Profiles, seconds \in LeaseSeconds,
                certificate \in CertificateExpirations :
                RenewWithEvidence(id, profile, certificate, seconds, now)
           \/ \E id \in RegistrationIds, seconds \in LeaseSeconds :
                RenewWithoutEvidence(id, seconds, now)
  <2> USE DEF RenewWithEvidence, RenewWithoutEvidence
  <2> HIDE DEF EndedStays
  <2> QED BY <1>2, <1>5, Zenon
<1>6. CASE \E id \in RegistrationIds : DeregisterAll(id, now)
  <2>1. PICK id \in RegistrationIds : DeregisterAll(id, now)
    BY <1>6, Zenon
  <2> DEFINE r == registrations[id]
             new == [r EXCEPT !.status = "withdrawn", !.active_ports = {}]
  <2>2. r \in Registration /\ r # NoRow
    BY <1>0, <2>1, Zenon DEF DeregisterAll, MayDeregister
  <2>3. registrations' = [registrations EXCEPT ![id] = new]
    BY <1>0, <2>1, Zenon DEF DeregisterAll
  <2>4. new \in Registration /\ new.status = "withdrawn"
    <3> HIDE DEF r
    <3> QED BY <2>2, ZenonT(40) DEF Registration
  <2> HIDE DEF new, EndedStays
  <2> QED BY <1>3, <2>2, <2>3, <2>4, NoRowAssumption, Zenon
<1>7. CASE \E id \in RegistrationIds, selected \in SUBSET Ports :
              DeregisterPorts(id, selected, now)
  <2>1. PICK id \in RegistrationIds, selected \in SUBSET Ports : DeregisterPorts(id, selected, now)
    BY <1>7, Zenon
  <2> DEFINE r == registrations[id]
             new == [r EXCEPT !.active_ports = @ \ selected]
  <2>2. r \in Registration /\ r # NoRow
    BY <1>0, <2>1, Zenon DEF DeregisterPorts, MayDeregister
  <2>3. registrations' = [registrations EXCEPT ![id] = new]
    BY <1>0, <2>1, Zenon DEF DeregisterPorts
  <2>4. new \in Registration /\ new.status = r.status
    <3> HIDE DEF r
    <3> QED BY <2>2, Zenon DEF Registration
  <2> HIDE DEF new, EndedStays
  <2> QED BY <1>3, <2>2, <2>3, <2>4, NoRowAssumption, Zenon
<1>8. CASE \/ \E cid \in ChallengeIds, g \in Grants, id \in RegistrationIds,
                lifetime \in LeaseSeconds :
                AcmeChallengeCreate(cid, g, id, lifetime, now)
           \/ \E cid \in ChallengeIds : AcmeChallengeDelete(cid, now)
           \/ \E g \in Grants, z \in Zones, ms \in OperatorRequests,
                serial \in 0 .. (SerialModulus - 1) :
                OperatorRecords(g, z, ms, serial, now)
  <2>1. ASSUME NEW cid \in ChallengeIds, NEW g \in Grants, NEW id \in RegistrationIds,
               NEW lifetime \in LeaseSeconds, AcmeChallengeCreate(cid, g, id, lifetime, now)
        PROVE  UNCHANGED registrations
    BY <2>1, ZenonT(40) DEF AcmeChallengeCreate
  <2>2. ASSUME NEW cid \in ChallengeIds, AcmeChallengeDelete(cid, now)
        PROVE  UNCHANGED registrations
    BY <2>2, ZenonT(40) DEF AcmeChallengeDelete
  <2>3. ASSUME NEW g \in Grants, NEW z \in Zones, NEW ms \in OperatorRequests,
               NEW serial \in 0 .. (SerialModulus - 1), OperatorRecords(g, z, ms, serial, now)
        PROVE  UNCHANGED registrations
    BY <2>3, ZenonT(40) DEF OperatorRecords
  <2>4. UNCHANGED registrations
    BY <1>8, <2>1, <2>2, <2>3, Zenon
  <2> QED BY <2>4, Zenon
<1> HIDE DEF EndedStays
<1> QED BY <1>1, <1>5, <1>6, <1>7, <1>8, Zenon DEF Mutate

\* An ended registration stays ended, whatever governance restores later.
THEOREM NoResurrectionHolds == Spec => NoResurrection
<1>1. Inv /\ [Next]_vars => [EndedStays]_vars
  <2> SUFFICES ASSUME Inv, Next PROVE EndedStays
    BY Zenon
  <2>1. CASE \E now \in Times : Mutate(now)
    BY <2>1, MutateKeepsEnded, Zenon
  <2>2. CASE \E now \in Times : Maintenance(now)
    <3>1. PICK now \in Times : registrations' = [id \in RegistrationIds |-> SettledRegistration(id, now)]
      BY <2>2, ZenonT(40) DEF Maintenance
    <3>2. \A id \in RegistrationIds : ~ IsActive(id) => registrations'[id] = registrations[id]
      BY <3>1, Zenon DEF SettledRegistration, Ended, Inv, RowsInv, IndexExact, ActiveIds
    <3> QED BY <3>2, Zenon DEF EndedStays, Registered, IsActive
  <2>3. CASE Govern \/ \E now \in Times : ObserveTime(now)
    <3>1. UNCHANGED registrations
      BY <2>3, Zenon DEF Govern, SetOwnerGrant, RevokeOwnerGrant, SetAppraisalPolicy, ObserveTime
    <3> QED BY <3>1, Zenon DEF EndedStays, Registered, IsActive
  <2> QED BY <2>1, <2>2, <2>3, Zenon DEF Next
<1> QED BY <1>1, Invariance, PTL DEF Spec, NoResurrection, EndedStays
============================================================================

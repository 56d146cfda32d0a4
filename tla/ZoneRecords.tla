---------------------------- MODULE ZoneRecords ----------------------------
(***************************************************************************)
(* The owned records of a zone (crates/adns-server/src/state.rs).  A zone  *)
(* stores one VersionedRrset per owner name and type, and every RRset is a *)
(* list of contributions, each owned by the contributor that may withdraw  *)
(* it.  Here a zone's records are the set of its contributions             *)
(*   [contributor, owner, type, data, ttl]                                 *)
(* and an RRset is the set of contributions with one <<owner, type>>.      *)
(* The operators below are what the code does to that set, to the zone's   *)
(* usage counters, and to the snapshot that is signed and served.          *)
(***************************************************************************)
EXTENDS Integers, FiniteSets

CONSTANTS
    MAX_ZONE_CONTRIBUTIONS,   \* dynamic contributions per zone
    MAX_ZONE_RRSETS,          \* base and dynamic RRsets per zone
    MAX_RRSET_CONTRIBUTIONS,  \* contributions per dynamic RRset
    BaseRecords               \* governed records of a zone: [owner, type, data, ttl]

ASSUME CapacityAssumption ==
    /\ MAX_ZONE_CONTRIBUTIONS \in Nat
    /\ MAX_ZONE_RRSETS \in Nat
    /\ MAX_RRSET_CONTRIBUTIONS \in Nat

ASSUME BaseAssumption == IsFiniteSet(BaseRecords)

RrsetKey(c) == <<c.owner, c.type>>
RrsetKeys(S) == {RrsetKey(c) : c \in S}

\* What a contribution puts into the zone, whoever owns it.
RecordOf(c) == [owner |-> c.owner, type |-> c.type, data |-> c.data, ttl |-> c.ttl]

---------------------------------------------------------------------------
\* CNAME exclusivity across all owners and contributors (add_contribution):
\* a CNAME shares its owner name with nothing but copies of itself.
CnameConflict(S, c) ==
    \E e \in S : /\ e.owner = c.owner
                 /\ "CNAME" \in {e.type, c.type}
                 /\ e.type # c.type \/ e.data # c.data

\* Usage counters of a zone: usage.rrsets and usage.contributions.  The byte
\* budget, a third counter kept the same way, is left out.
Usage == [rrsets : Nat, contributions : Nat]
NoUsage == [rrsets |-> 0, contributions |-> 0]

UsageOf(S) == [rrsets |-> Cardinality(RrsetKeys(S)), contributions |-> Cardinality(S)]

\* add_contribution, for each member of new in turn: it is skipped when the
\* same contributor already owns the same record, and refused when the RRset,
\* the number of RRsets or the number of contributions would pass its bound.
HasCapacity(S, u, new) ==
    LET fresh == new \ S
        created == RrsetKeys(fresh) \ RrsetKeys(S)
    IN  /\ fresh # {} => u.contributions + Cardinality(fresh) <= MAX_ZONE_CONTRIBUTIONS
        /\ created # {} =>
              u.rrsets + Cardinality(RrsetKeys(BaseRecords)) + Cardinality(created)
                 <= MAX_ZONE_RRSETS
        /\ \A k \in RrsetKeys(fresh) :
              Cardinality({c \in S \cup new : RrsetKey(c) = k}) <= MAX_RRSET_CONTRIBUTIONS

CanAdd(S, u, new) ==
    /\ \A c \in new : ~ CnameConflict(S \cup new, c)
    /\ HasCapacity(S, u, new)

UsageAfterAdd(S, u, new) ==
    LET fresh == new \ S
    IN  [rrsets |-> u.rrsets + Cardinality(RrsetKeys(fresh) \ RrsetKeys(S)),
         contributions |-> u.contributions + Cardinality(fresh)]

\* remove_matching_contributions: every matching contribution goes, and an
\* RRset that loses its last contribution goes with it.  A counter that would
\* fall below zero is an error that discards the transaction.
CanRemove(S, u, gone) ==
    /\ Cardinality(gone) <= u.contributions
    /\ Cardinality(RrsetKeys(S) \ RrsetKeys(S \ gone)) <= u.rrsets

\* Faulty variant: an RRset that goes is not taken off the count.
UsageAfterRemove_KeepsRrsets(S, u, gone) ==
    [u EXCEPT !.contributions = @ - Cardinality(gone)]

UsageAfterRemove(S, u, gone) ==
    [rrsets |-> u.rrsets - Cardinality(RrsetKeys(S) \ RrsetKeys(S \ gone)),
     contributions |-> u.contributions - Cardinality(gone)]

\* The counters after any series of additions and removals from S to T.
UsageShift(u, S, T) ==
    [rrsets |-> u.rrsets + Cardinality(RrsetKeys(T)) - Cardinality(RrsetKeys(S)),
     contributions |-> u.contributions + Cardinality(T) - Cardinality(S)]

---------------------------------------------------------------------------
\* normalize_rrsets over the governed base and the owned records: one copy of
\* each record, with the smallest TTL any source gives its RRset.  Source TTLs
\* stay in the contributions, so a withdrawal restores the remaining ones'.
Published(S) ==
    LET all == BaseRecords \cup {RecordOf(c) : c \in S}
        ttls(r) == {q.ttl : q \in {q \in all : RrsetKey(q) = RrsetKey(r)}}
    IN  {[r EXCEPT !.ttl = CHOOSE t \in ttls(r) : \A u \in ttls(r) : t <= u] : r \in all}

\* The signer's own check on the merged zone (sign_with_keysets): a CNAME is
\* the only type at its owner and has one value.  It sees the base records,
\* which add_contribution does not.
Signable(S) ==
    LET all == BaseRecords \cup {RecordOf(c) : c \in S}
    IN  \A q, r \in all :
           (q.owner = r.owner /\ q.type = "CNAME") => (r.type = "CNAME" /\ r.data = q.data)
============================================================================

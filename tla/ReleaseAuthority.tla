-------------------------- MODULE ReleaseAuthority --------------------------
(***************************************************************************)
(* The release authority D and what its signature admits: the node join    *)
(* policy and the appraisal policies.  D signs a payload together with a   *)
(* security version number (svn); the signed change travels inside a       *)
(* proposal that may be accepted much later, after other changes and after *)
(* the authority itself was replaced.  The actions are the apply functions *)
(* of the constitution: one that throws leaves everything as it was.       *)
(***************************************************************************)
EXTENDS Naturals, FiniteSets

CONSTANTS
    Dids,       \* identities the authority may have
    Releases,   \* what nodes may run; a join policy lists some of them
    PolicyIds,  \* policy_id of an appraisal policy
    Bodies,     \* canonical contents of an appraisal policy
    MaxSvn,     \* bound on svn
    NoDid, NoBody

ASSUME SvnAssumption == MaxSvn \in Nat /\ NoDid \notin Dids /\ NoBody \notin Bodies

Svns == 0 .. MaxSvn

VARIABLES
    authority,   \* the governed release authority: did and svn
    join_policy, \* the node join policy: svn and the releases it lists
    join_tables, \* CCF's own tables of what may join
    policies,    \* immutable identities of the appraisal policies
    newest       \* ghost: the newest svn of a signed change that was applied

releaseVars == <<authority, join_policy, join_tables, policies, newest>>

NoAuthority == [did |-> NoDid, svn |-> 0]
NoPolicy == [svn |-> 0, releases |-> {}]

ReleaseTypeOK ==
    /\ authority \in [did : Dids \cup {NoDid}, svn : Svns]
    /\ join_policy \in [svn : Svns, releases : SUBSET Releases]
    /\ join_tables \subseteq Releases
    /\ policies \in [PolicyIds -> Bodies \cup {NoBody}]
    /\ newest \in Svns

ReleaseInit ==
    /\ authority = NoAuthority
    /\ join_policy = NoPolicy
    /\ join_tables = {}
    /\ policies = [p \in PolicyIds |-> NoBody]
    /\ newest = 0

-----------------------------------------------------------------------------

\* adnsRequireAuthoritySignature: the authority's own svn or the next one.
Admits(s) ==
    /\ authority.did # NoDid
    /\ s.did = authority.did
    /\ s.svn \in {authority.svn, authority.svn + 1}

\* The authority's svn is the high-water mark of everything it has signed.
Ratcheted(s) == [authority EXCEPT !.svn = s.svn]

Newest(s) == IF s.svn > newest THEN s.svn ELSE newest

\* Faulty variant: a new authority brings its own svn.
MayReplace_Any(svn) == TRUE

\* Rotation never lowers the svn floor.
MayReplace(svn) == authority.did = NoDid \/ svn >= authority.svn

SetReleaseAuthority(did, svn) ==
    /\ MayReplace(svn)
    /\ authority' = [did |-> did, svn |-> svn]
    /\ UNCHANGED <<join_policy, join_tables, policies, newest>>

Advances(svn) == join_policy = NoPolicy \/ svn > join_policy.svn

\* adns_set_node_join_policy: SETS the join tables to what the policy lists.
SetNodeJoinPolicy(s, releases) ==
    /\ releases # {} /\ s.svn >= 1
    /\ Advances(s.svn)
    /\ Admits(s)
    /\ authority' = Ratcheted(s)
    /\ join_policy' = [svn |-> s.svn, releases |-> releases]
    /\ join_tables' = releases
    /\ newest' = Newest(s)
    /\ UNCHANGED policies

SameIdentity(p, body) == policies[p] \in {NoBody, body}

\* adns_set_appraisal_policy once an authority is governed.
SetSignedPolicy(s, p, body) ==
    /\ SameIdentity(p, body)
    /\ Admits(s)
    /\ authority' = Ratcheted(s)
    /\ policies' = [policies EXCEPT ![p] = body]
    /\ newest' = Newest(s)
    /\ UNCHANGED <<join_policy, join_tables>>

\* The same before one is: the bootstrap path.
SetUnsignedPolicy(p, body) ==
    /\ SameIdentity(p, body)
    /\ authority.did = NoDid
    /\ policies' = [policies EXCEPT ![p] = body]
    /\ UNCHANGED <<authority, join_policy, join_tables, newest>>

\* CCF's add_snp_measurement, add_snp_host_data and add_snp_uvm_endorsement,
\* and their remove_ counterparts, are still actions of the constitution.
AdjustJoinTables(release) ==
    /\ join_tables' \in {join_tables \cup {release}, join_tables \ {release}}
    /\ UNCHANGED <<authority, join_policy, policies, newest>>

Signatures == [did : Dids, svn : Svns]

ReleaseNext ==
    \/ \E did \in Dids, svn \in Svns : SetReleaseAuthority(did, svn)
    \/ \E s \in Signatures, releases \in SUBSET Releases : SetNodeJoinPolicy(s, releases)
    \/ \E s \in Signatures, p \in PolicyIds, body \in Bodies : SetSignedPolicy(s, p, body)
    \/ \E p \in PolicyIds, body \in Bodies : SetUnsignedPolicy(p, body)
    \/ \E release \in Releases : AdjustJoinTables(release)

ReleaseSpec == ReleaseInit /\ [][ReleaseNext]_releaseVars

-----------------------------------------------------------------------------
(* Properties.                                                             *)

\* A change signed under an svn that was already passed is never applied, no
\* matter how long its proposal was open and how often the authority was replaced
\* in between: the floor is at least everything applied so far.
FloorHolds == newest <= authority.svn /\ join_policy.svn <= newest

\* An older join policy never replaces a newer one, and the same svn never stands
\* for two policies.
JoinPolicyAdvances == [][join_policy' # join_policy => join_policy'.svn > join_policy.svn]_releaseVars

\* What a policy_id stands for never changes once it was accepted, signed or not,
\* so registrations that rest on it keep their meaning.
PolicyImmutable ==
    [][\A p \in PolicyIds : policies[p] # NoBody => policies'[p] = policies[p]]_releaseVars

=============================================================================

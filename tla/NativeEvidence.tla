--------------------------- MODULE NativeEvidence ---------------------------
(***************************************************************************)
(* Native SEV-SNP evidence and the programs that judge it: the appraiser   *)
(* of the service (crates/adns-attest) and the offline verifiers beside it *)
(* (tools/verify_native_aci.py, verify_native_ccf.py, attestation.py,      *)
(* check_native_appraisal.py).  The offline ones are written apart from    *)
(* the appraiser, to be compared with it.                                  *)
(*                                                                         *)
(* A hash or a signature is what it covers.  A report names the key it     *)
(* binds, the guest image (measurement), the container policy (host data)  *)
(* and a TCB, where one component stands for four; "sound" is the report's *)
(* layout, guest policy and VMPL.  The host supplies the AMD certificates  *)
(* (whether they certify the key that signed the report, under which root, *)
(* whether they are valid now) and the endorsement of the image.           *)
(***************************************************************************)
EXTENDS Naturals, Sequences, FiniteSetsExt

CONSTANTS Keys, Images, Policies   \* container policies: what host data is a hash of

Reports == [key : Keys, image : Images, cce : Policies, tcb : {0, 1}, sound : BOOLEAN]
AmdChains == [vcek : BOOLEAN, root : {"genoa", "milan", "other"}, current : BOOLEAN]
Endorsements == [image : Images, did : {"ours", "other"}, svn : {0, 1}, current : BOOLEAN]

\* A governed policy.  Minima are the values of the captured platform.
GovernedPolicy(image, cce) ==
    [active |-> TRUE, valid |-> TRUE, images |-> {image}, cces |-> {cce}, min_tcb |-> 1,
     dids |-> {"ours"}, min_svn |-> 1, approved_release |-> TRUE]

\* The floor the negative cases write: above every captured value.
Unreachable == 2

\* A check, by its error.
Check(error, passes) == IF passes THEN "ok" ELSE error

\* The first check that fails names the error.
Verdict(checks) ==
    LET failed == {i \in DOMAIN checks : checks[i] # "ok"}
    IN  IF failed = {} THEN "ok" ELSE checks[Min(failed)]

-----------------------------------------------------------------------------
(* The appraiser.                                                          *)

\* validate_policy.
PolicyChecks(p) == << Check("PROFILE_NOT_ACTIVE", p.active), Check("POLICY_NOT_VALID", p.valid) >>

\* verify_native and uvm::verify, in their order.
NativeChecks(report, eds, uvm, p) ==
    << Check("REPORT_POLICY_REJECTED", report.sound),
       Check("UNTRUSTED_ROOT", eds.root # "other"),
       Check("CERTIFICATE_INVALID", eds.current),
       Check("SIGNATURE_INVALID", eds.vcek),
       Check("TCB_BELOW_MINIMUM", eds.root = "genoa" /\ report.tcb >= p.min_tcb),
       Check("MEASUREMENT_REJECTED", report.image \in p.images),
       Check("CCE_HOST_DATA_REJECTED", report.cce \in p.cces),
       Check("UVM_IDENTITY_REJECTED", uvm.did \in p.dids),
       Check("UVM_SVN_BELOW_MINIMUM", uvm.svn >= p.min_svn),
       Check("CERTIFICATE_INVALID", p.approved_release \/ uvm.current),
       Check("MEASUREMENT_REJECTED", uvm.image = report.image) >>

\* appraise: of an envelope and the key it is to be bound to.
AppraiseChecks(profile, e, spki, p) ==
    << Check("UNSUPPORTED_PROFILE", profile = "azure-aci-snp") >>
    \o PolicyChecks(p)
    \o << Check("SIGNATURE_INVALID", e.intact /\ e.signer = spki) >>
    \o NativeChecks(e.report, e.eds, e.uvm, p)
    \o << Check("KEY_BINDING_MISMATCH", e.report.key = spki) >>

Appraise(profile, e, spki, p) == Verdict(AppraiseChecks(profile, e, spki, p))

\* node_audit::audit: of a node's quote and the certificate its TLS peer showed.
AuditChecks(q, peer, p) ==
    PolicyChecks(p)
    \o << Check("KEY_BINDING_MISMATCH", q.node_id = peer) >>
    \o NativeChecks(q.report, q.eds, q.uvm, p)
    \o << Check("KEY_BINDING_MISMATCH", q.report.key = peer),
          Check("MEASUREMENT_REJECTED", q.measurement = q.report.image) >>

AuditNode(q, peer, p) == Verdict(AuditChecks(q, peer, p))

-----------------------------------------------------------------------------
(* The offline verifiers.                                                  *)

\* verify_sign1: the envelope is as its signer made it.
VerifySign1(e, spki) == e.intact /\ e.signer = spki

\* check_amd_chain, the pinned ARK, the VCEK's signature and extensions.
AmdVerified(eds) == eds.root = "genoa" /\ eds.current /\ eds.vcek

\* The UVM endorsement: publisher, release and measurement.
UvmVerified(uvm, image, p) ==
    /\ uvm.did \in p.dids /\ uvm.svn >= p.min_svn
    /\ uvm.image = image
    /\ p.approved_release \/ uvm.current

\* Faulty variant: the measurement alone approves a report.
ReportApproved_AnyPolicy(report, p) ==
    report.sound /\ report.image \in p.images /\ report.tcb >= p.min_tcb

ReportApproved(report, p) ==
    /\ report.sound
    /\ report.image \in p.images /\ report.cce \in p.cces
    /\ report.tcb >= p.min_tcb

\* verify_native_aci.main: the saved files belong together, the key in them is
\* the one the envelope and the report are bound to, and the policy approves.
\* The negative case of an expired publisher needs one that has expired.
VerifyNativeAci(b, p) ==
    /\ p.valid /\ p.approved_release
    /\ b.capture = [evidence |-> b.evidence, spki |-> b.spki, peer |-> b.peer]
    /\ b.peer = b.spki
    /\ VerifySign1(b.evidence, b.spki)
    /\ b.evidence.report.key = b.spki
    /\ ReportApproved(b.evidence.report, p)
    /\ AmdVerified(b.evidence.eds)
    /\ UvmVerified(b.evidence.uvm, b.evidence.report.image, p)
    /\ ~b.evidence.uvm.current

\* policy_and_binding.
PolicyAndBinding(report, spki, p) ==
    p.active /\ p.valid /\ report.key = spki /\ ReportApproved(report, p)

\* The negative variants verify_native_ccf itself must see rejected.
CcfNegatives(q, peer, p) ==
    /\ \A k \in Keys \ {peer} : ~PolicyAndBinding(q.report, k, p)
    /\ \A altered \in {[p EXCEPT !.cces = {}], [p EXCEPT !.images = {}], [p EXCEPT !.active = FALSE],
                       [p EXCEPT !.valid = FALSE], [p EXCEPT !.min_tcb = Unreachable]} :
          ~PolicyAndBinding(q.report, peer, altered)
    /\ ~UvmVerified(q.uvm, q.report.image, [p EXCEPT !.min_svn = Unreachable])
    /\ ~q.uvm.current => ~UvmVerified(q.uvm, q.report.image, [p EXCEPT !.approved_release = FALSE])

\* verify_native_ccf.verify.
VerifyNativeCcf(q, peer, p) ==
    /\ q.node_id = peer /\ q.measurement = q.report.image
    /\ PolicyAndBinding(q.report, peer, p)
    /\ AmdVerified(q.eds)
    /\ UvmVerified(q.uvm, q.report.image, p)
    /\ CcfNegatives(q, peer, p)

\* attestation.verify_snp_attestation, which knows no policy.
VerifySnp(report, eds, uvm) ==
    eds.vcek /\ eds.root \in {"genoa", "milan"} /\ uvm.did = "ours" /\ uvm.image = report.image

\* A case of check_native_appraisal: an input to the appraiser and its verdict.
Cases(b, p) ==
    LET case(profile, e, spki, q, verdict) ==
            [profile |-> profile, e |-> e, spki |-> spki, p |-> q, verdict |-> verdict]
        policy(q, verdict) == case("azure-aci-snp", b.evidence, b.spki, q, verdict)
    IN  {policy(p, "ok"),
         case("azure-aci-snp", [b.evidence EXCEPT !.intact = FALSE], b.spki, p, "SIGNATURE_INVALID"),
         case("host-amd-sev-snp", b.evidence, b.spki, p, "UNSUPPORTED_PROFILE"),
         policy([p EXCEPT !.active = FALSE], "PROFILE_NOT_ACTIVE"),
         policy([p EXCEPT !.cces = {}], "CCE_HOST_DATA_REJECTED"),
         policy([p EXCEPT !.images = {}], "MEASUREMENT_REJECTED"),
         policy([p EXCEPT !.min_tcb = @ + 1], "TCB_BELOW_MINIMUM"),
         policy([p EXCEPT !.min_svn = Unreachable], "UVM_SVN_BELOW_MINIMUM"),
         policy([p EXCEPT !.valid = FALSE], "POLICY_NOT_VALID"),
         policy([p EXCEPT !.approved_release = FALSE], "CERTIFICATE_INVALID"),
         policy([p EXCEPT !.dids = {}], "UVM_IDENTITY_REJECTED")}
        \cup {case("azure-aci-snp", b.evidence, k, p, "SIGNATURE_INVALID") : k \in Keys \ {b.spki}}

\* check_native_appraisal.main.
CheckNativeAppraisal(b, p) ==
    \A c \in Cases(b, p) : Appraise(c.profile, c.e, c.spki, c.p) = c.verdict

=============================================================================

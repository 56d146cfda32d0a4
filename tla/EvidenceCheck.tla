--------------------------- MODULE EvidenceCheck ----------------------------
(***************************************************************************)
(* The offline procedure on saved evidence: an independent verifier is run *)
(* on a worker's capture or a node's quote, and after it, on what it       *)
(* accepts, the appraiser of the service with every altered input of       *)
(* check_native_appraisal.py (or the node auditor).  The saved evidence is *)
(* any combination of parts a host can supply.                             *)
(***************************************************************************)
EXTENDS NativeEvidence

CONSTANTS Spki, ApprovedImage, ApprovedPolicy

VARIABLES saved,   \* the evidence on disk
          stage

checkVars == <<saved, stage>>

policy == GovernedPolicy(ApprovedImage, ApprovedPolicy)

Evidence == {[intact |-> TRUE, signer |-> k, report |-> r, eds |-> c, uvm |-> u] :
                k \in Keys, r \in Reports, c \in AmdChains, u \in Endorsements}

\* A worker's capture directory: the key is one, the peer's may be another.
Captures == {[kind |-> "worker", evidence |-> e, spki |-> Spki, peer |-> k,
              capture |-> [evidence |-> e, spki |-> Spki, peer |-> k]] : e \in Evidence, k \in Keys}

\* A node's quote and its TLS peer.
Quotes == {[kind |-> "node", node_id |-> Spki, peer |-> k, measurement |-> i,
            report |-> r, eds |-> c, uvm |-> u] :
              k \in Keys, i \in Images, r \in Reports, c \in AmdChains, u \in Endorsements}

CheckInit == saved = [kind |-> "none"] /\ stage = "none"

\* fetch_capture.py and audit_ccf_node.py leave what they got.
Save(evidence) ==
    /\ stage = "none"
    /\ saved' = evidence /\ stage' = "saved"

Accepted == IF saved.kind = "worker" THEN VerifyNativeAci(saved, policy)
                                     ELSE VerifyNativeCcf(saved, saved.peer, policy)

Verifier ==
    /\ stage = "saved"
    /\ stage' = IF Accepted THEN "verified" ELSE "refused"
    /\ UNCHANGED saved

Confirmed == IF saved.kind = "worker" THEN CheckNativeAppraisal(saved, policy)
                                      ELSE AuditNode(saved, saved.peer, policy) = "ok"

Appraiser ==
    /\ stage = "verified"
    /\ stage' = IF Confirmed THEN "confirmed" ELSE "failed"
    /\ UNCHANGED saved

CheckNext ==
    \/ stage = "none" /\ \E evidence \in Captures \cup Quotes : Save(evidence)
    \/ Verifier \/ Appraiser

CheckSpec == CheckInit /\ [][CheckNext]_checkVars

-----------------------------------------------------------------------------

\* Appraised, whatever the offline verifier said.
Appraised == IF saved.kind = "worker"
             THEN saved.peer = saved.spki /\ ~saved.evidence.uvm.current
                  /\ Appraise("azure-aci-snp", saved.evidence, saved.spki, policy) = "ok"
             ELSE AuditNode(saved, saved.peer, policy) = "ok"

\* Two programs written apart give one verdict.  What verify_native_aci.py
\* accepts, the appraiser accepts too, and every altered input of
\* check_native_appraisal.py fails in the appraiser with the error that case
\* names, whichever check comes first there; what verify_native_ccf.py accepts
\* the node auditor accepts.  What they refuse the service refuses as well (an
\* unexpired publisher aside, which verify_native_aci.py cannot use), and the
\* policy-free attestation.py agrees with every appraisal.
OfflineAgrees ==
    /\ stage # "failed"
    /\ stage = "refused" => ~Appraised
    /\ stage = "confirmed" =>
          LET e == IF saved.kind = "worker" THEN saved.evidence ELSE saved
          IN  VerifySnp(e.report, e.eds, e.uvm)

=============================================================================

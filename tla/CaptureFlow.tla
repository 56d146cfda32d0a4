---------------------------- MODULE CaptureFlow -----------------------------
(***************************************************************************)
(* How the operator comes to trust a guest: tools/fetch_capture.py saves   *)
(* what a capture worker shows, verify_native_aci.py and                   *)
(* sign_capture_request.py judge the saved files, and the latter hands the *)
(* capture token to the worker; audit_ccf_node.py bootstraps trust in a    *)
(* CCF node and in the service certificate it reports.  The programs are   *)
(* processes of their own around one directory, each may die between two   *)
(* steps, and guests start and stop meanwhile.  A guest makes its key when *)
(* it starts, so a key stands for the guest, its certificate, its quote    *)
(* and its evidence; only the guests in Approved run a governed release.   *)
(***************************************************************************)
EXTENDS EvidenceCheck

CONSTANTS Guests, Approved, Good, Bad, NoGuest   \* Good and Bad: an image and a container policy

ASSUME CaptureFlowAssumption ==
    Approved \subseteq Guests /\ NoGuest \notin Guests /\ Guests \subseteq Keys /\ Good # Bad

VARIABLES running,   \* the guests that answer
          started,   \* the guests there have been
          dir,       \* the capture directory: by whom each file is about
          fetch,     \* fetch_capture.py: the guest it read and the files it has yet to write
          verified,  \* the last bundle verify_native_aci.py accepted
          sign,      \* sign_capture_request.py: where it is and the two files it holds
          tokens,    \* the guests that were handed the capture token
          audit,     \* audit_ccf_node.py: where it is and the peer it holds
          service    \* the node that reported the service certificate on disk

flowVars == <<running, started, dir, fetch, verified, sign, tokens, audit, service>>

Files == <<"capture", "evidence", "spki", "peer">>   \* in the order fetch_capture.py writes them

\* security_context: the container policy a guest was started under.
PolicyOf(g) == IF g \in Approved THEN Good ELSE Bad

\* collect_report: the report binds the key; a debuggable guest has none.
ReportOf(g) == [key |-> g, image |-> Good, cce |-> PolicyOf(g), tcb |-> 1, sound |-> TRUE]

\* CaptureState.__init__: report and endorsements, signed with the key.
EvidenceOf(g) ==
    [intact |-> TRUE, signer |-> g, report |-> ReportOf(g),
     eds    |-> [vcek |-> TRUE, root |-> "genoa", current |-> TRUE],
     uvm    |-> [image |-> Good, did |-> "ours", svn |-> 1, current |-> FALSE]]

\* inventory: the answer to /capture.
CaptureOf(g) == [evidence |-> EvidenceOf(g), spki |-> g, peer |-> g]

\* The quote of a CCF node: what its evidence attests, without the worker's envelope.
QuoteOf(g) == [node_id |-> g, measurement |-> Good, report |-> EvidenceOf(g).report,
               eds |-> EvidenceOf(g).eds, uvm |-> EvidenceOf(g).uvm]

Governed == GovernedPolicy(Good, Good)

\* The directory as the verifiers read it.
Bundle(d) == [capture |-> CaptureOf(d["capture"]), evidence |-> EvidenceOf(d["evidence"]),
              spki |-> d["spki"], peer |-> d["peer"]]

Complete == \A f \in DOMAIN dir : dir[f] # NoGuest

FlowInit ==
    /\ running = {} /\ started = {}
    /\ dir = [f \in {"capture", "evidence", "spki", "peer"} |-> NoGuest]
    /\ fetch = [guest |-> NoGuest, left |-> <<>>]
    /\ verified = NoGuest
    /\ sign = [pc |-> "idle", spki |-> NoGuest, peer |-> NoGuest]
    /\ tokens = {}
    /\ audit = [pc |-> "idle", peer |-> NoGuest]
    /\ service = NoGuest

GuestStarts(g) ==
    /\ g \notin started
    /\ started' = started \cup {g} /\ running' = running \cup {g}
    /\ UNCHANGED <<dir, fetch, verified, sign, tokens, audit, service>>

GuestStops(g) ==
    /\ g \in running /\ running' = running \ {g}
    /\ UNCHANGED <<started, dir, fetch, verified, sign, tokens, audit, service>>

-----------------------------------------------------------------------------

\* fetch_capture.main: capture and certificate come over one connection and
\* are compared before anything is written.
Fetch(g) ==
    /\ fetch.left = <<>> /\ g \in running
    /\ fetch' = [guest |-> g, left |-> Files]
    /\ UNCHANGED <<running, started, dir, verified, sign, tokens, audit, service>>

WriteFile ==
    /\ fetch.left # <<>>
    /\ dir' = [dir EXCEPT ![Head(fetch.left)] = fetch.guest]
    /\ fetch' = IF Len(fetch.left) = 1 THEN [guest |-> NoGuest, left |-> <<>>]
                                       ELSE [fetch EXCEPT !.left = Tail(@)]
    /\ UNCHANGED <<running, started, verified, sign, tokens, audit, service>>

FetchDies ==
    /\ fetch.left # <<>>
    /\ fetch' = [guest |-> NoGuest, left |-> <<>>]
    /\ UNCHANGED <<running, started, dir, verified, sign, tokens, audit, service>>

\* verify_native_aci.main on the directory as it is.
VerifyBundle ==
    /\ Complete /\ VerifyNativeAci(Bundle(dir), Governed)
    /\ verified' = dir
    /\ UNCHANGED <<running, started, dir, fetch, sign, tokens, audit, service>>

-----------------------------------------------------------------------------
(* sign_capture_request.main.                                              *)

SignEnds == [pc |-> "idle", spki |-> NoGuest, peer |-> NoGuest]

ReadKey ==
    /\ sign.pc = "idle" /\ Complete
    /\ sign' = [sign EXCEPT !.pc = "key", !.spki = dir["spki"]]
    /\ UNCHANGED <<running, started, dir, fetch, verified, tokens, audit, service>>

ReadPeer ==
    /\ sign.pc = "key"
    /\ sign' = IF dir["peer"] = sign.spki THEN [sign EXCEPT !.pc = "read", !.peer = dir["peer"]] ELSE SignEnds
    /\ UNCHANGED <<running, started, dir, fetch, verified, tokens, audit, service>>

\* Faulty variant: the identity in the appraisal is not compared.
AppraiseCapture_AnyKey ==
    /\ sign.pc = "read"
    /\ sign' = IF Appraise("azure-aci-snp", EvidenceOf(dir["evidence"]), dir["spki"], Governed) = "ok"
               THEN [sign EXCEPT !.pc = "appraised"] ELSE SignEnds
    /\ UNCHANGED <<running, started, dir, fetch, verified, tokens, audit, service>>

\* The appraiser is a process that opens the evidence and the key again.
AppraiseCapture ==
    /\ sign.pc = "read"
    /\ sign' = IF /\ Appraise("azure-aci-snp", EvidenceOf(dir["evidence"]), dir["spki"], Governed) = "ok"
                  /\ dir["spki"] = sign.spki
               THEN [sign EXCEPT !.pc = "appraised"] ELSE SignEnds
    /\ UNCHANGED <<running, started, dir, fetch, verified, tokens, audit, service>>

\* The token follows the handshake, to whoever showed the saved certificate.
SendToken(g) ==
    /\ sign.pc = "appraised" /\ g \in running
    /\ tokens' = IF g = sign.peer THEN tokens \cup {g} ELSE tokens
    /\ sign' = SignEnds
    /\ UNCHANGED <<running, started, dir, fetch, verified, audit, service>>

SignDies ==
    /\ sign.pc # "idle" /\ sign' = SignEnds
    /\ UNCHANGED <<running, started, dir, fetch, verified, tokens, audit, service>>

-----------------------------------------------------------------------------
(* audit_ccf_node.main: two connections with an audit between them.        *)

AuditEnds == [pc |-> "idle", peer |-> NoGuest]

GetQuote(g) ==
    /\ audit.pc = "idle" /\ g \in running
    /\ audit' = IF AuditNode(QuoteOf(g), g, Governed) = "ok" THEN [pc |-> "audited", peer |-> g] ELSE audit
    /\ UNCHANGED <<running, started, dir, fetch, verified, sign, tokens, service>>

\* public_get with expected_peer: a changed peer ends the program.
GetNetwork(g) ==
    /\ audit.pc = "audited" /\ g \in running
    /\ service' = IF g = audit.peer THEN g ELSE service
    /\ audit' = AuditEnds
    /\ UNCHANGED <<running, started, dir, fetch, verified, sign, tokens>>

AuditDies ==
    /\ audit.pc # "idle" /\ audit' = AuditEnds
    /\ UNCHANGED <<running, started, dir, fetch, verified, sign, tokens, service>>

FlowNext ==
    \/ \E g \in Guests : GuestStarts(g) \/ GuestStops(g)
    \/ \E g \in Guests : Fetch(g) \/ SendToken(g) \/ GetQuote(g) \/ GetNetwork(g)
    \/ WriteFile \/ FetchDies \/ VerifyBundle
    \/ ReadKey \/ ReadPeer \/ AppraiseCapture \/ SignDies \/ AuditDies

FlowSpec == FlowInit /\ [][FlowNext]_flowVars

-----------------------------------------------------------------------------

\* Trust reaches only guests of the governed release.  The capture token goes
\* to a worker whose own evidence was appraised, although the files are
\* rewritten between the reads of sign_capture_request.py and its appraiser's;
\* the service certificate on disk comes from the node whose quote was audited,
\* although another answers at its address by the second connection; and a
\* bundle verify_native_aci.py accepted is one guest's, although
\* fetch_capture.py replaces an older capture file by file and may die halfway.
OnlyAttestedTrusted ==
    /\ tokens \subseteq Approved
    /\ service # NoGuest => service \in Approved
    /\ verified # NoGuest => \E g \in Approved : \A f \in DOMAIN verified : verified[f] = g

\* The two appraisals of a worker's evidence agree with the policy: the offline
\* check of a saved capture accepts what the node would (verify_native_aci), and
\* the operator's flow trusts only a key that was appraised (capture_flow).
AppraisalSound == OfflineAgrees /\ OnlyAttestedTrusted

=============================================================================

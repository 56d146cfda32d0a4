----------------------------- MODULE ReleaseTool -----------------------------
(***************************************************************************)
(* The operator's side of the release authority: tools/release_authority.py*)
(* mints a key with its certificate, signs payloads under a security       *)
(* version number and writes the proposal that installs the authority; the *)
(* constitution, which has code of its own for the canonical bytes, checks *)
(* the signatures.  The operator runs one command at a time.  Each may die *)
(* between two files or within one, and minting again goes over the files  *)
(* of the authority before.                                                *)
(*                                                                         *)
(* A certificate is the key pair it is of, and so is the DID, which is a   *)
(* hash of the certificate.                                                *)
(***************************************************************************)
EXTENDS Naturals

CONSTANTS KeyPairs, NoKey,
          Payloads,    \* policies to be signed
          NonAscii,    \* those with a character beyond ASCII in a string
          TopSvn       \* bound on svn

ASSUME ReleaseToolAssumption ==
    NoKey \notin KeyPairs /\ "torn" \notin KeyPairs /\ NonAscii \subseteq Payloads /\ TopSvn \in Nat

VARIABLES disk,        \* the key and the certificate file, and a mint under way
          minted,      \* the key pairs there have been
          proposal,    \* the proposal file written last
          signature,   \* the signature file written last, and what was signed
          governed     \* the release authority in force

releaseToolVars == <<disk, minted, proposal, signature, governed>>

ToolSvns == 0 .. TopSvn
NoAuthorityFile == [did |-> NoKey, key |-> NoKey, svn |-> 0]
NoSignature == [did |-> NoKey, svn |-> 0, by |-> NoKey, over |-> <<>>, payload |-> NoKey]

ReleaseToolInit ==
    /\ disk = [priv |-> NoKey, cert |-> NoKey, minting |-> NoKey]
    /\ minted = {}
    /\ proposal = NoAuthorityFile /\ governed = NoAuthorityFile
    /\ signature = NoSignature

Ready == disk.minting = NoKey

-----------------------------------------------------------------------------
(* release_authority.py.                                                   *)

\* mint_d: the key file is truncated and written,
WriteKey(k) ==
    /\ Ready /\ k \notin minted
    /\ minted' = minted \cup {k}
    /\ disk' \in {[disk EXCEPT !.priv = k, !.minting = k], [disk EXCEPT !.priv = "torn"]}
    /\ UNCHANGED <<proposal, signature, governed>>

\* then the certificate file,
WriteCertificate ==
    /\ ~Ready
    /\ \E written \in {disk.minting, "torn"} : disk' = [disk EXCEPT !.cert = written, !.minting = NoKey]
    /\ UNCHANGED <<minted, proposal, signature, governed>>

\* unless the command dies in between.
MintDies ==
    /\ ~Ready
    /\ disk' = [disk EXCEPT !.minting = NoKey]
    /\ UNCHANGED <<minted, proposal, signature, governed>>

\* Faulty variant: the payload is signed without its svn.
CanonicalJson_NoSvn(svn, payload) == [payload |-> payload, escaped |-> payload \in NonAscii]

\* canonical_json of the envelope: json.dumps escapes what is beyond ASCII.
CanonicalJson(svn, payload) ==
    [svn |-> svn, payload |-> payload, escaped |-> payload \in NonAscii]

\* get_did: of a certificate file that parses.
GetDid == disk.cert

\* sign_payload: under the DID of the one file, with the key of the other.
SignPayload(svn, payload) ==
    /\ Ready /\ {GetDid, disk.priv} \subseteq KeyPairs
    /\ signature' = [did |-> GetDid, svn |-> svn, by |-> disk.priv,
                     over |-> CanonicalJson(svn, payload), payload |-> payload]
    /\ UNCHANGED <<disk, minted, proposal, governed>>

\* main, "proposal": DID and public key are those of the certificate.
WriteProposal(svn) ==
    /\ Ready /\ GetDid \in KeyPairs
    /\ proposal' = [did |-> GetDid, key |-> disk.cert, svn |-> svn]
    /\ UNCHANGED <<disk, minted, signature, governed>>

-----------------------------------------------------------------------------
(* The constitution.                                                       *)

\* adnsCanonical: JSON.stringify escapes no such character.
AdnsCanonical(svn, payload) == [svn |-> svn, payload |-> payload, escaped |-> FALSE]

\* adnsRequireAuthoritySignature.
RequireAuthoritySignature(s, payload) ==
    /\ governed # NoAuthorityFile /\ s.did = governed.did
    /\ s.svn \in {governed.svn, governed.svn + 1}
    /\ s.by = governed.key /\ s.over = AdnsCanonical(s.svn, payload)

\* adns_set_release_authority, for the proposal file at hand.
InstallAuthority ==
    /\ proposal # NoAuthorityFile
    /\ governed = NoAuthorityFile \/ proposal.svn >= governed.svn
    /\ governed' = proposal
    /\ UNCHANGED <<disk, minted, proposal, signature>>

\* A signed change: the proposal may carry any payload beside the signature.
ApplySigned(payload) ==
    /\ RequireAuthoritySignature(signature, payload)
    /\ governed' = [governed EXCEPT !.svn = signature.svn]
    /\ UNCHANGED <<disk, minted, proposal, signature>>

ReleaseToolNext ==
    \/ \E k \in KeyPairs : WriteKey(k)
    \/ WriteCertificate \/ MintDies
    \/ \E svn \in ToolSvns : WriteProposal(svn) \/ \E payload \in Payloads : SignPayload(svn, payload)
    \/ InstallAuthority
    \/ \E payload \in Payloads : ApplySigned(payload)

ReleaseToolSpec == ReleaseToolInit /\ [][ReleaseToolNext]_releaseToolVars

-----------------------------------------------------------------------------

\* Tool and constitution agree about which signatures count, although they
\* compute the signed bytes apart and an interrupted mint leaves a key and a
\* certificate that do not belong together.  The authority in force is identified
\* by the key that is checked.  A signature made with it is accepted for the
\* payload it was made for and for no other, at the authority's svn or the next;
\* one made with the key of another mint never is.  A payload beyond ASCII is
\* refused whoever signed it, since the two escape it differently.
ReleaseSigned ==
    /\ governed.key = governed.did
    /\ signature # NoSignature => \A payload \in Payloads :
          RequireAuthoritySignature(signature, payload)
             <=> /\ signature.payload = payload /\ payload \notin NonAscii
                 /\ signature.by = governed.did /\ signature.did = governed.did
                 /\ signature.svn \in {governed.svn, governed.svn + 1}

=============================================================================

------------------------------ MODULE Receipts ------------------------------
(***************************************************************************)
(* CCF receipts and the two programs that check them offline,              *)
(* tools/verify_ksk_receipt.py and tools/verify_claims_receipt.py.  A      *)
(* service writes claims into its ledger and its node signs the Merkle     *)
(* root of what has been written.  A receipt names a claim and a           *)
(* transaction, and carries a leaf, a path, a signature and the            *)
(* certificates up to the service; its parts may come from different       *)
(* receipts, transactions, prefixes or services.  A hash is the tuple it   *)
(* is of.                                                                  *)
(***************************************************************************)
EXTENDS Naturals, Sequences, Functions

CONSTANTS Services, Trusted,   \* the service certificate given to the verifier
          Previous,            \* its identity before a recovery, endorsed by Trusted
          Zones, Values,       \* owner names, and keys or documents
          MaxLedger            \* the transactions of all services together

ASSUME ReceiptsAssumption == {Trusted, Previous} \subseteq Services

VARIABLES ledgers,   \* the claims each service has written
          signed,    \* the length of each prefix whose root a service's node signed
          accepted   \* what a verifier returned

receiptVars == <<ledgers, signed, accepted>>

Claims == [type : {"ksk", "policy"}, owner : Zones, value : Values]

-----------------------------------------------------------------------------
(* CCF (external): leaves, roots, paths and identities.                    *)

LeafOf(s, i) == [write_set |-> <<s, i>>, evidence |-> [tx |-> i, nonce |-> <<s, i>>], claims |-> ledgers[s][i]]

Hash(leaf) == <<leaf.write_set, leaf.evidence, leaf.claims>>

\* The hashes beside the way from a leaf, or from the tree before it, to the root.
Siblings(s, i, n) == [j \in 1..n - i |-> [side |-> "right", hash |-> Hash(LeafOf(s, i + j))]]

\* One step of a path: the hash above two.
Above(acc, step) == IF step.side = "left" THEN <<step.hash, acc>> ELSE <<acc, step.hash>>

\* The loop over a path, from the hash it starts at.
Accumulated(start, path) ==
    LET acc[k \in 0..Len(path)] == IF k = 0 THEN start ELSE Above(acc[k - 1], path[k])
    IN  acc[Len(path)]

Root(s, n) == Accumulated(Hash(LeafOf(s, 1)), Siblings(s, 1, n))

PathOf(s, i, n) ==
    (IF i = 1 THEN <<>> ELSE <<[side |-> "left", hash |-> Root(s, i - 1)]>>) \o Siblings(s, i, n)

\* A node is certified by its service; the recovered service by its successor.
NodeCertificate(s) == [key |-> <<"node", s>>, issuer |-> s]
EndorsementsOf(s) == IF s = Previous THEN <<[key |-> s, issuer |-> Trusted]>> ELSE <<>>

-----------------------------------------------------------------------------
(* The verifiers.                                                          *)

\* endorse: each certificate is issued by the next, the last by the trusted one.
Endorsed(node, endorsements) ==
    LET chain == <<node>> \o endorsements \o <<[key |-> Trusted, issuer |-> Trusted]>>
    IN  \A i \in 1..Len(chain) - 1 : chain[i].issuer = chain[i + 1].key

\* Faulty variant: the transaction ID on display is taken as it is.
Authenticated_AnyTx(proof, tx_id, claim) ==
    /\ proof.leaf.claims = claim
    /\ Endorsed(proof.node, proof.endorsements)
    /\ proof.signature = [key |-> proof.node.key, root |-> Accumulated(Hash(proof.leaf), proof.path)]

\* What both verify functions do with a claim they computed themselves.
Authenticated(proof, tx_id, claim) ==
    /\ proof.leaf.claims = claim
    /\ proof.leaf.evidence.tx = tx_id
    /\ Endorsed(proof.node, proof.endorsements)
    /\ proof.signature = [key |-> proof.node.key, root |-> Accumulated(Hash(proof.leaf), proof.path)]

\* claims_digest of verify_ksk_receipt: owner and key under a label of their own.
KskClaim(owner, dnskey) == [type |-> "ksk", owner |-> owner, value |-> dnskey]

\* verify_ksk_receipt.verify, of the zone the verifier was asked about; the key
\* tag and the DS in the receipt are those of this owner and key.
VerifyKsk(body, proof, zone) ==
    /\ body.claim.owner = zone
    /\ body.identity = Trusted
    /\ Authenticated(proof, body.tx_id, KskClaim(zone, body.claim.value))

\* verify_claims_receipt.verify: the claims themselves say of which type they are.
VerifyClaims(body, proof) ==
    /\ body.claim.type # "ksk"
    /\ body.identity = Trusted
    /\ Authenticated(proof, body.tx_id, body.claim)

-----------------------------------------------------------------------------

ReceiptsInit == ledgers = [s \in Services |-> <<>>] /\ signed = [s \in Services |-> {}] /\ accepted = <<>>

WriteClaim(s, claim) ==
    /\ SumFunction([t \in Services |-> Len(ledgers[t])]) < MaxLedger
    /\ ledgers' = [ledgers EXCEPT ![s] = Append(@, claim)]
    /\ UNCHANGED <<signed, accepted>>

SignRoot(s) ==
    /\ ledgers[s] # <<>>
    /\ signed' = [signed EXCEPT ![s] = @ \cup {Len(ledgers[s])}]
    /\ UNCHANGED <<ledgers, accepted>>

\* A proof put together from the leaf and a path of one service, the signature of
\* a root of another, and the certificates of a third.
Proof(leafOf, i, m, sigOf, n, certOf) ==
    [leaf |-> LeafOf(leafOf, i), path |-> PathOf(leafOf, i, m),
     signature |-> [key |-> <<"node", sigOf>>, root |-> Root(sigOf, n)],
     node |-> NodeCertificate(certOf), endorsements |-> EndorsementsOf(certOf)]

\* A verifier on such a receipt; a refusal changes nothing.  It keeps no state, so
\* one acceptance is followed in a behaviour.
Verify(body, proof) ==
    /\ IF body.ksk THEN VerifyKsk(body, proof, body.claim.owner) ELSE VerifyClaims(body, proof)
    /\ accepted' = [claim |-> [body.claim EXCEPT !.type = IF body.ksk THEN "ksk" ELSE @], tx |-> body.tx_id]
    /\ UNCHANGED <<ledgers, signed>>

\* What a receipt says beside its proof; the KSK verifier reads no type.
ReceiptBodies ==
    {body \in [ksk : BOOLEAN, claim : Claims, tx_id : 1..MaxLedger, identity : {Trusted, Previous}] :
        body.ksk => body.claim.type = "ksk"}

ReceiptsNext ==
    \/ \E s \in Services, claim \in Claims : WriteClaim(s, claim)
    \/ \E s \in Services : SignRoot(s)
    \/ accepted = <<>> /\ \E leafOf, sigOf, certOf \in Services :
          \E m \in 1..Len(ledgers[leafOf]), n \in signed[sigOf] : \E i \in 1..m :
             LET proof == Proof(leafOf, i, m, sigOf, n, certOf) IN
               \E body \in ReceiptBodies : Verify(body, proof)

ReceiptsSpec == ReceiptsInit /\ [][ReceiptsNext]_receiptVars

-----------------------------------------------------------------------------

\* What a verifier returns is in the trusted service's history.  The claim it
\* accepted was written, at the very transaction the receipt names, by the
\* trusted service or by the identity it recovered from, never by another
\* service and never as another type of claim.
ReceiptSound ==
    accepted # <<>> =>
       \E s \in {Trusted, Previous} :
          accepted.tx <= Len(ledgers[s]) /\ ledgers[s][accepted.tx] = accepted.claim

=============================================================================

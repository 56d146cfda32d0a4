------------------------------- MODULE Anchors -------------------------------
(***************************************************************************)
(* Anchored digests (anchors.rs): the holder of an active registration     *)
(* binds a digest to a sequence number of a subject, and whoever asks gets *)
(* a receipt over what is stored.  The registration ends or is suspended   *)
(* and restored meanwhile; requests repeat, skip sequence numbers and      *)
(* arrive out of order.                                                    *)
(***************************************************************************)
EXTENDS Naturals, FiniteSets

CONSTANTS Registered,   \* registration ids
          Subjects,
          Digests,
          LastSequence, \* bound: the sequence numbers requests use
          LastMoment,   \* bound: the clock
          MaxAnchors,   \* MAX_ANCHORS_PER_REGISTRATION
          NoDigest

ASSUME AnchorsAssumption ==
    /\ NoDigest \notin Digests
    /\ LastSequence \in Nat /\ LastMoment \in Nat /\ MaxAnchors \in Nat \ {0}

VARIABLES standing,  \* each registration: admitted, suspended, ended
          anchors,   \* the anchor rows
          heads,     \* the anchor-head rows
          receipts,  \* every claim a response has carried
          moment     \* the time of the transactions, which never goes back

anchorVars == <<standing, anchors, heads, receipts, moment>>

Numbers == 1..LastSequence
Chains == Registered \X Subjects

NoAnchor == [digest |-> NoDigest, at |-> 0]
NoHead == [sequence |-> 0, digest |-> NoDigest, at |-> 0, count |-> 0]

AnchorsInit ==
    /\ standing = [r \in Registered |-> "none"]
    /\ anchors = [c \in Chains |-> [n \in Numbers |-> NoAnchor]]
    /\ heads = [c \in Chains |-> NoHead]
    /\ receipts = {}
    /\ moment = 0

\* anchor_claims: what the receipt's claims digest covers.
AnchorClaims(c, n, a) == [chain |-> c, sequence |-> n, digest |-> a.digest, at |-> a.at]

\* Registration, governance (a grant or policy withdrawn and restored) and the
\* end of a lease or a deregistration, as active_registration sees them.
Stand(r, from, to) ==
    /\ standing[r] \in from
    /\ standing' = [standing EXCEPT ![r] = to]
    /\ UNCHANGED <<anchors, heads, receipts, moment>>

Admitted(r) == Stand(r, {"none"}, "active")
Suspend(r) == Stand(r, {"active"}, "suspended")
Restore(r) == Stand(r, {"suspended"}, "active")
Lapse(r) == Stand(r, {"active", "suspended"}, "ended")

TimePasses ==
    /\ moment < LastMoment
    /\ moment' = moment + 1
    /\ UNCHANGED <<standing, anchors, heads, receipts>>

-----------------------------------------------------------------------------
(* anchor                                                                  *)

\* Faulty variant: the capacity is checked, the head's sequence is not.
Extends_AnyOrder(c, n) == heads[c].count < MaxAnchors

\* A head refuses what does not advance past it, and more than the cap.
Extends(c, n) ==
    heads[c] # NoHead => n > heads[c].sequence /\ heads[c].count < MaxAnchors

\* A new row, the new head and the receipt, in one transaction.
StoreAnchor(c, n, d) ==
    /\ standing[c[1]] = "active"
    /\ anchors[c][n] = NoAnchor
    /\ Extends(c, n)
    /\ LET row == [digest |-> d, at |-> moment]
       IN /\ anchors' = [anchors EXCEPT ![c] = [anchors[c] EXCEPT ![n] = row]]
          /\ heads' = [heads EXCEPT ![c] = [sequence |-> n, digest |-> d, at |-> moment,
                                           count |-> heads[c].count + 1]]
          /\ receipts' = receipts \cup {AnchorClaims(c, n, row)}
    /\ UNCHANGED <<standing, moment>>

\* The digest already bound to this sequence: the stored claims, receipted again.
\* Another digest is a conflict and changes nothing.
DuplicateAnchor(c, n, d) ==
    /\ standing[c[1]] = "active"
    /\ anchors[c][n].digest = d
    /\ receipts' = receipts \cup {AnchorClaims(c, n, anchors[c][n])}
    /\ UNCHANGED <<standing, anchors, heads, moment>>

\* read_anchor with head=1: the row the head names, whoever asks and whether or
\* not the registration still stands.
ReadHead(c) ==
    /\ heads[c] # NoHead
    /\ receipts' = receipts \cup {AnchorClaims(c, heads[c].sequence, anchors[c][heads[c].sequence])}
    /\ UNCHANGED <<standing, anchors, heads, moment>>

AnchorsNext ==
    \/ TimePasses
    \/ \E r \in Registered : Admitted(r) \/ Suspend(r) \/ Restore(r) \/ Lapse(r)
    \/ \E c \in Chains, n \in Numbers, d \in Digests :
          StoreAnchor(c, n, d) \/ DuplicateAnchor(c, n, d)
    \/ \E c \in Chains : ReadHead(c)

AnchorsSpec == AnchorsInit /\ [][AnchorsNext]_anchorVars

-----------------------------------------------------------------------------
Bound(c) == {n \in Numbers : anchors[c][n] # NoAnchor}

\* Every receipt ever given still agrees with the stored row, so no sequence
\* number has two digests (anchor refuses to bind one again).
ReceiptsStand == \A x \in receipts : x = AnchorClaims(x.chain, x.sequence, anchors[x.chain][x.sequence])

\* The head is the last row of its chain, and counts it; it is never over the cap.
HeadsLast ==
    \A c \in Chains :
       IF Bound(c) = {} THEN heads[c] = NoHead
       ELSE /\ heads[c].sequence \in Bound(c)
            /\ \A n \in Bound(c) : n <= heads[c].sequence
            /\ anchors[c][heads[c].sequence] = [digest |-> heads[c].digest, at |-> heads[c].at]
            /\ heads[c].count = Cardinality(Bound(c)) /\ heads[c].count <= MaxAnchors

\* A chain is anchored in its own order: a later sequence number is never
\* anchored before an earlier one.
ChainOrdered ==
    \A c \in Chains : \A m, n \in Bound(c) : m <= n => anchors[c][m].at <= anchors[c][n].at

\* What a receipt over an anchor promises its holder (anchors.rs).
AnchorsSound == ReceiptsStand /\ HeadsLast /\ ChainOrdered

=============================================================================

---------------------------- MODULE CaptureSigner ----------------------------
(***************************************************************************)
(* The signing state of a capture worker (CaptureState in                  *)
(* tools/capture_aci.py).  The worker's key exists only in the worker.     *)
(* For a controller it signs one fixed registration and, after that,       *)
(* lifecycle actions the controller first has prepared, each with a nonce  *)
(* of the CCF service.  Prepared actions, signatures and the challenges    *)
(* the worker owns are kept for a while and then pruned.                   *)
(*                                                                         *)
(* Every duration is what is left of it, in units all of them are          *)
(* multiples of; the worker's clocks and the service's advance together.   *)
(* An action is its request ID, its operation and, for a deletion, the     *)
(* request that creates the challenge.  "plain" operations (renew,         *)
(* deregister) leave nothing else behind in the worker.                    *)
(***************************************************************************)
EXTENDS Naturals, FiniteSets, Functions

CONSTANTS
    RequestIds,   \* request IDs of lifecycle actions
    FixedId,      \* the configured request ID of the registration
    Window,       \* the longest a nonce is valid: 300 s
    Retention,    \* LIFECYCLE_RETENTION_SECONDS
    Lifetime,     \* lifetime_seconds of a challenge
    MaxActions    \* MAX_LIFECYCLE_ACTIONS

ASSUME CaptureSignerAssumption ==
    /\ FixedId \notin RequestIds
    /\ {Window, Lifetime, MaxActions} \subseteq Nat \ {0}
    /\ Retention \in Nat /\ Retention >= Window

VARIABLES
    worker,      \* what CaptureState keeps
    holder,      \* what the holder of _lock is doing, if it is held across time
    envelopes,   \* signed and unexpired, with the controller
    ledger,      \* the request IDs the service has committed an action under
    live         \* the service's challenges, by the request that created them

signerVars == <<worker, holder, envelopes, ledger, live>>

Registration == [rid |-> FixedId, op |-> "register", on |-> FixedId]
Plain(q) == [rid |-> q, op |-> "plain", on |-> FixedId]
Create(q) == [rid |-> q, op |-> "create", on |-> FixedId]
Delete(q, c) == [rid |-> q, op |-> "delete", on |-> c]

Lifecycle == {Plain(q) : q \in RequestIds} \cup {Create(q) : q \in RequestIds}
                \cup {Delete(q, c) : q \in RequestIds, c \in RequestIds}
Actions == {Registration} \cup Lifecycle

Partial(f, D, R) == DOMAIN f \subseteq D /\ \A x \in DOMAIN f : f[x] \in R

Holders == [stage : {"free", "nonce", "post"}, act : {Registration}, left : {0}]
              \cup [stage : {"sign"}, act : Lifecycle, left : 0 .. Window]
Free == [stage |-> "free", act |-> Registration, left |-> 0]

SignerTypeOK ==
    /\ Partial(worker.prepared, Lifecycle, 0 .. Retention)
    /\ \A q \in DOMAIN worker.request_ids : worker.request_ids[q].rid = q
    /\ worker.signed \subseteq Actions
    /\ Partial(worker.challenges, RequestIds, 0 .. Window + Lifetime)
    /\ worker.registration_id \in BOOLEAN
    /\ worker.result \in BOOLEAN
    /\ holder \in Holders
    /\ envelopes \subseteq [act : Actions, left : 1 .. Window]
    /\ ledger \subseteq {FixedId} \cup RequestIds
    /\ Partial(live, RequestIds, 1 .. Lifetime)

NoEntries == [x \in {} |-> 0]

\* CaptureState.__init__: a new key, and its registration action fixed.
SignerInit ==
    /\ worker = [prepared |-> NoEntries,
                 request_ids |-> [q \in {FixedId} |-> Registration],
                 signed |-> {}, challenges |-> NoEntries,
                 registration_id |-> FALSE, result |-> FALSE]
    /\ holder = Free
    /\ envelopes = {}
    /\ ledger = {}
    /\ live = NoEntries

With(f, x, y) == [z \in DOMAIN f \cup {x} |-> IF z = x THEN y ELSE f[z]]

-----------------------------------------------------------------------------
(* The worker.                                                             *)

\* _prune_lifecycle: what has outlived its deadline goes.  The registration has
\* no deadline.
Pruned(w) ==
    LET kept == {a \in DOMAIN w.prepared : w.prepared[a] > 0}
        gone == DOMAIN w.prepared \ kept
    IN  [w EXCEPT !.prepared = Restrict(@, kept),
                  !.request_ids = Restrict(@, DOMAIN @ \ {a.rid : a \in gone}),
                  !.signed = @ \ gone,
                  !.challenges = Restrict(@, {c \in DOMAIN @ : @[c] > 0})]

\* _prepare_action, after the prune: a request ID belongs to one action, live
\* handles are never evicted, and an unsigned action gets a full window again.
MayPrepare(w, a) ==
    /\ a.rid \in DOMAIN w.request_ids => w.request_ids[a.rid] = a
    /\ a \in DOMAIN w.prepared \/ Cardinality(DOMAIN w.prepared) < MaxActions

Prepared(w, a) ==
    IF a \in DOMAIN w.prepared \cap w.signed THEN w
    ELSE [w EXCEPT !.prepared = With(@, a, Retention), !.request_ids = With(@, a.rid, a)]

\* prepare_lifecycle: only for a signed registration, and a challenge is deleted
\* only by the signer that owns it.
PrepareLifecycle(a) ==
    LET w == Pruned(worker)
    IN  /\ holder = Free
        /\ w.registration_id
        /\ a.op = "delete" => a.on \in DOMAIN w.challenges
        /\ MayPrepare(w, a)
        /\ worker' = Prepared(w, a)
        /\ UNCHANGED <<holder, envelopes, ledger, live>>

\* A request that is refused, or answered from the cache, still prunes.
OnlyPrunes ==
    /\ holder = Free
    /\ worker' = Pruned(worker)
    /\ UNCHANGED <<holder, envelopes, ledger, live>>

\* Faulty variant: a signature does not prolong the action's retention.
Recorded_NoRefresh(w, a) == [w EXCEPT !.signed = @ \cup {a}]

\* The end of _sign_action: the envelope is kept, and the action with it from now.
Recorded(w, a) ==
    [w EXCEPT !.signed = @ \cup {a},
              !.prepared = IF a \in DOMAIN @ THEN [@ EXCEPT ![a] = Retention] ELSE @]

\* The controller has the envelope, for as long as its nonce is valid.
Handed(a, left) == envelopes \cup {[act |-> a, left |-> l] : l \in {left} \ {0}}

\* sign_lifecycle with a valid nonce.  An action that is signed is not signed
\* again: the same message gets the same envelope, another one is refused.  The
\* signature of a new challenge goes on below.
SignLifecycle(a, left) ==
    LET w == Pruned(worker)
    IN  /\ holder = Free
        /\ a \in DOMAIN w.prepared \ w.signed
        /\ IF a.op = "create"
           THEN /\ worker' = w
                /\ holder' = [stage |-> "sign", act |-> a, left |-> left]
                /\ UNCHANGED envelopes
           ELSE /\ worker' = Recorded(w, a)
                /\ envelopes' = Handed(a, left)
                /\ UNCHANGED holder
        /\ UNCHANGED <<ledger, live>>

\* Faulty variant: the challenge is owned for its lifetime after the signature.
Owned_Lifetime(w, c) == [w EXCEPT !.challenges = With(@, c, Lifetime)]

\* The service may accept just before the nonce expires.
Owned(w, c) == [w EXCEPT !.challenges = With(@, c, Window + Lifetime)]

\* _sign_action for a new challenge: it prunes again, and by then the action
\* itself may have run out.
SignChallenge ==
    LET w == Pruned(worker)
        a == holder.act
    IN  /\ holder.stage = "sign"
        /\ IF Cardinality(DOMAIN w.challenges) >= MaxActions
           THEN worker' = w /\ UNCHANGED envelopes
           ELSE /\ worker' = Recorded(Owned(w, a.rid), a)
                /\ envelopes' = Handed(a, holder.left)
        /\ holder' = Free
        /\ UNCHANGED <<ledger, live>>

\* _sign_action for the registration, which fixes the registration's ID.
SignRegistration(left) ==
    IF Registration \in worker.signed
    THEN UNCHANGED <<worker, envelopes>>
    ELSE /\ worker' = [Recorded(worker, Registration) EXCEPT !.registration_id = TRUE]
         /\ envelopes' = Handed(Registration, left)

\* signed_request: the controller brings the nonce and submits the envelope.
SignedRequest(left) ==
    /\ holder = Free
    /\ SignRegistration(left)
    /\ UNCHANGED <<holder, ledger, live>>

\* register: the worker asks for the nonce itself, unless the registration is
\* signed, and holds the lock until the service has answered.
RegisterStart ==
    /\ holder = Free /\ ~worker.result
    /\ holder' = [Free EXCEPT !.stage =
                     IF Registration \in worker.signed THEN "post" ELSE "nonce"]
    /\ UNCHANGED <<worker, envelopes, ledger, live>>

\* The service's answer to /service/nonce; one that is late is refused.
RegisterNonce(left) ==
    /\ holder.stage = "nonce"
    /\ SignRegistration(left)
    /\ holder' = [holder EXCEPT !.stage = "post"]
    /\ UNCHANGED <<ledger, live>>

\* The answer to /service/register is kept; only a committed one is modelled as
\* an answer.
RegisterAnswered ==
    /\ holder.stage = "post" /\ FixedId \in ledger
    /\ worker' = [worker EXCEPT !.result = TRUE]
    /\ holder' = Free
    /\ UNCHANGED <<envelopes, ledger, live>>

\* _post_ccf fails or its deadline passes; what the service did is unknown.
RegisterFails ==
    /\ holder.stage \in {"nonce", "post"}
    /\ holder' = Free
    /\ UNCHANGED <<worker, envelopes, ledger, live>>

-----------------------------------------------------------------------------
(* The service, and time.                                                  *)

\* The service commits an envelope with a live nonce under a new request ID.
\* Actions other than the registration need it; a deletion needs the challenge.
Submit(e) ==
    /\ e.act.rid \notin ledger
    /\ e.act = Registration \/ FixedId \in ledger
    /\ e.act.op = "delete" => e.act.on \in DOMAIN live
    /\ ledger' = ledger \cup {e.act.rid}
    /\ live' = CASE e.act.op = "create" -> With(live, e.act.rid, Lifetime)
                 [] e.act.op = "delete" -> Restrict(live, DOMAIN live \ {e.act.on})
                 [] OTHER -> live
    /\ UNCHANGED <<worker, holder, envelopes>>

Less(f) == [x \in DOMAIN f |-> IF f[x] > 0 THEN f[x] - 1 ELSE 0]

\* The service drops nonces and challenges that end; the worker only when it prunes.
SignerTick ==
    /\ worker' = [worker EXCEPT !.prepared = Less(@), !.challenges = Less(@)]
    /\ holder' = [holder EXCEPT !.left = IF @ > 0 THEN @ - 1 ELSE 0]
    /\ envelopes' = {[e EXCEPT !.left = @ - 1] : e \in {d \in envelopes : d.left > 1}}
    /\ live' = Restrict(Less(live), {c \in DOMAIN live : live[c] > 1})
    /\ UNCHANGED ledger

SignerNext ==
    \/ \E a \in Lifecycle : PrepareLifecycle(a)
    \/ OnlyPrunes
    \/ \E a \in DOMAIN worker.prepared, left \in 1 .. Window : SignLifecycle(a, left)
    \/ SignChallenge
    \/ \E left \in 1 .. Window : SignedRequest(left) \/ RegisterNonce(left)
    \/ RegisterStart \/ RegisterAnswered \/ RegisterFails
    \/ \E e \in envelopes : Submit(e)
    \/ SignerTick

SignerSpec == SignerInit /\ [][SignerNext]_signerVars

-----------------------------------------------------------------------------
(* Properties.                                                             *)

\* While an envelope of an action can still be accepted, the worker signs no
\* other one for it: the cache outlives the nonce it was filled with, whenever
\* the action was prepared, signed, pruned and prepared again.
OneLiveEnvelope ==
    \A d, e \in envelopes : d.act = e.act => d = e

\* The worker owns, and so can delete, every challenge the service serves for
\* it, however late in the nonce's life the service accepted the creation.
OwnedWhileLive ==
    \A c \in DOMAIN live : c \in DOMAIN worker.challenges /\ worker.challenges[c] > 0

\* What the worker forgets, it no longer needs.
SignerSound == SignerTypeOK /\ OneLiveEnvelope /\ OwnedWhileLive

=============================================================================

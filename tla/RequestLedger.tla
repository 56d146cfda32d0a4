--------------------------- MODULE RequestLedger ---------------------------
(***************************************************************************)
(* How a signed request is admitted once: nonces, replay by request id,    *)
(* diagnostics of rejected attempts (crates/adns-server/src/service.rs,    *)
(* attempts.rs; crates/adns-auth/src/lib.rs) and the gate that holds every *)
(* response until its transaction is globally committed (ccf/app.cpp).     *)
(*                                                                         *)
(* A transaction executes on the primary against kv, the tentative state.  *)
(* Consensus later commits what was executed, or a new primary rolls it    *)
(* back to committed and opens a new view.  A response waits in inflight   *)
(* until the fate of its transaction is known; told is what reached the    *)
(* client.  Messages to and from the client may be lost, delayed and       *)
(* repeated: any message the client could sign may be submitted at any     *)
(* time, any number of times.  What the lifecycle makes of an admitted     *)
(* request is an input here: it succeeds, is rejected, or fails inside.    *)
(***************************************************************************)
EXTENDS Integers, Sequences, FiniteSets

CONSTANTS
    Requests,        \* request ids
    Grants,          \* owner grants
    GrantOf,         \* the grant a request id belongs to: [Requests -> Grants]
    Intents,         \* hashes of the actions a client may ask for
    NonceIds,        \* the random nonces
    NONCE_TTL_SECONDS,
    MAX_OUTSTANDING_NONCES,
    MAX_GRANT_NONCES,
    MaxTime, MaxSeqno, MaxView, MaxEpoch, MaxInflight,  \* bounds of the model
    None             \* an absent row

VARIABLES
    kv,         \* state after every executed transaction
    committed,  \* state after every globally committed transaction
    view,       \* the view of the current primary
    inflight,   \* responses held by the commit gate
    told,       \* responses delivered to clients
    generated   \* nonces ever drawn: a random value does not come twice

vars == <<kv, committed, view, inflight, told, generated>>

Times == 0 .. MaxTime

\* A signed message; its digest identifies it, so the message stands for it.
Message == [request : Requests, intent : Intents, nonce : NonceIds]

NonceRecord ==
    [epoch : Nat, request : Requests, intent : Intents,
     issued_at : Nat, expires_at : Nat, version : Nat]

FailedAttempt ==
    [request : Requests, intent : Intents, expires_at : Nat, digest : Message, version : Nat]

RequestResult == [digest : Message, version : Nat]

TxId == [view : Nat, seqno : Nat]

Configuration == [epoch : Nat, last_time : Nat]

\* The tables, what the lifecycle has executed, and the view of every seqno.
Store ==
    [configuration : Configuration, proposed : Configuration \cup {None}, governed_epoch : Nat,
     nonces : [NonceIds -> NonceRecord \cup {None}],
     attempts : [NonceIds -> FailedAttempt \cup {None}],
     results : [Requests -> RequestResult \cup {None}],
     effects : SUBSET [message : Message, version : Nat],
     history : Seq(Nat)]

Response ==
    [kind : {"nonce", "result", "attempt"}, message : Message, tx : TxId,
     original : TxId \cup {None}]

ASSUME LedgerAssumption ==
    /\ GrantOf \in [Requests -> Grants]
    /\ NONCE_TTL_SECONDS \in Nat \ {0}
    /\ MAX_OUTSTANDING_NONCES \in Nat /\ MAX_GRANT_NONCES \in Nat
    /\ {MaxTime, MaxSeqno, MaxEpoch, MaxInflight} \subseteq Nat /\ MaxView \in Nat \ {0}

\* A nonce is a random value of fixed size.
ASSUME NonceAssumption == IsFiniteSet(NonceIds)

ASSUME NoneAssumption ==
    None \notin NonceRecord \cup FailedAttempt \cup RequestResult \cup TxId \cup Configuration
                 \cup [digest : Message, tx : TxId]

---------------------------------------------------------------------------
(* Transactions *)

\* The version that a transaction executed now gives to what it writes.
NextVersion == Len(kv.history) + 1
NextTx == [view |-> view, seqno |-> NextVersion]

\* The transaction id of a version, from the captured view history.
TxOf(version) == [view |-> kv.history[version], seqno |-> version]

\* Execute a transaction that writes.
Write(store) ==
    /\ Len(kv.history) < MaxSeqno
    /\ kv' = [store EXCEPT !.history = Append(@, view)]
    /\ UNCHANGED <<committed, view>>

\* respond: hold the response until the fate of its transaction is known.
Respond(response) ==
    /\ Cardinality(inflight) < MaxInflight
    /\ inflight' = inflight \cup {response}

---------------------------------------------------------------------------
(* Nonces *)

\* Faulty variant: the diagnostic of a collected nonce stays behind.
Collected_KeepsAttempts(store, now) ==
    [store EXCEPT !.nonces = [n \in NonceIds |->
        IF \/ @[n] = None
           \/ @[n].expires_at <= now
           \/ @[n].epoch # store.configuration.epoch
        THEN None ELSE @[n]]]

\* collect_live_nonces: rows that expired or belong to another epoch go, and
\* their diagnostics with them.
Collected(store, now) ==
    LET live(n) == /\ store.nonces[n] # None
                   /\ store.nonces[n].expires_at > now
                   /\ store.nonces[n].epoch = store.configuration.epoch
        gone(n) == store.nonces[n] # None /\ ~ live(n)
    IN  [store EXCEPT
            !.nonces = [n \in NonceIds |-> IF gone(n) THEN None ELSE @[n]],
            !.attempts = [n \in NonceIds |-> IF gone(n) THEN None ELSE @[n]]]

NonceRows(store) == {n \in NonceIds : store.nonces[n] # None}
GrantRows(store, g) == {n \in NonceRows(store) : GrantOf[store.nonces[n].request] = g}

\* Room for one more nonce, overall and for its grant.
HasNonceCapacity(store, g) ==
    /\ Cardinality(NonceRows(store)) < MAX_OUTSTANDING_NONCES
    /\ Cardinality(GrantRows(store, g)) < MAX_GRANT_NONCES

\* POST /service/nonce, for an action the grant authorizes.
IssueNonce(q, intent, n, now) ==
    LET live == Collected(kv, now)
    IN  /\ now >= kv.configuration.last_time
        /\ n \notin generated
        /\ HasNonceCapacity(live, GrantOf[q])
        /\ Write([live EXCEPT
              !.nonces[n] = [epoch |-> kv.configuration.epoch, request |-> q, intent |-> intent,
                             issued_at |-> now, expires_at |-> now + NONCE_TTL_SECONDS,
                             version |-> NextVersion],
              !.configuration.last_time = now])
        /\ Respond([kind |-> "nonce", message |-> [request |-> q, intent |-> intent, nonce |-> n],
                    tx |-> NextTx, original |-> None])
        /\ generated' = generated \cup {n}
        /\ UNCHANGED told

---------------------------------------------------------------------------
(* Signed mutations *)

\* A nonce reaches the client only in a delivered response, and only then can
\* a message that names it be signed.
Signable(m) == \E r \in told : r.kind = "nonce" /\ r.message.nonce = m.nonce

\* Faulty variant: the row is not compared with the action of the message.
ValidNonce_Unbound(m, now) ==
    LET row == kv.nonces[m.nonce]
    IN  /\ row # None
        /\ row.epoch = kv.configuration.epoch
        /\ row.issued_at <= now /\ now < row.expires_at

\* nonce lookup under the current epoch, and validate_nonce
ValidNonce(m, now) ==
    LET row == kv.nonces[m.nonce]
    IN  /\ row # None
        /\ row.epoch = kv.configuration.epoch
        /\ row.issued_at <= now /\ now < row.expires_at
        /\ row.request = m.request
        /\ row.intent = m.intent

\* Faulty variants: a replay names its own transaction, or the view of the day.
ReplayOriginal_Own(m) == None
ReplayOriginal_CurrentView(m) == [view |-> view, seqno |-> kv.results[m.request].version]

\* The transaction id a replay reports, from the view history.
ReplayOriginal(m) == TxOf(kv.results[m.request].version)

\* A request id that has a result: the same message gets that result and its
\* transaction id again, and nothing is written; the response is gated on the
\* snapshot that was read.  Another message under the same id is a conflict.
Replay(m, now) ==
    /\ now >= kv.configuration.last_time
    /\ Signable(m)
    /\ kv.results[m.request] # None
    /\ kv.results[m.request].digest = m
    /\ Respond([kind |-> "result", message |-> m, tx |-> TxOf(Len(kv.history)),
                original |-> ReplayOriginal(m)])
    /\ UNCHANGED <<kv, committed, view, told, generated>>

\* Faulty variant: only an identical message is looked up, so another nonce
\* executes the request again.
Unanswered_ByMessage(m) ==
    kv.results[m.request] # None => kv.results[m.request].digest # m

\* No result is stored under the request id.
Unanswered(m) == kv.results[m.request] = None

\* The lifecycle accepts: its effects, the consumed nonce and the result are
\* one transaction.
Execute(m, now) ==
    /\ now >= kv.configuration.last_time
    /\ Signable(m)
    /\ Unanswered(m)
    /\ ValidNonce(m, now)
    /\ Write([kv EXCEPT
          !.nonces[m.nonce] = None,
          !.attempts[m.nonce] = None,
          !.results[m.request] = [digest |-> m, version |-> NextVersion],
          !.effects = @ \cup {[message |-> m, version |-> NextVersion]},
          !.configuration.last_time = now])
    /\ Respond([kind |-> "result", message |-> m, tx |-> NextTx, original |-> None])
    /\ UNCHANGED <<told, generated>>

\* mutate_observed: the lifecycle rejects with an eligible 4xx.  Its writes are
\* dropped with the overlay; the diagnostic commits and the nonce stays.
Reject(m, now) ==
    /\ now >= kv.configuration.last_time
    /\ Signable(m)
    /\ Unanswered(m)
    /\ ValidNonce(m, now)
    /\ Write([kv EXCEPT
          !.attempts[m.nonce] =
             [request |-> kv.nonces[m.nonce].request, intent |-> kv.nonces[m.nonce].intent,
              expires_at |-> kv.nonces[m.nonce].expires_at, digest |-> m, version |-> NextVersion],
          !.configuration.last_time = now])
    /\ Respond([kind |-> "attempt", message |-> m, tx |-> NextTx, original |-> None])
    /\ UNCHANGED <<told, generated>>

\* Everything else is refused at once and leaves no trace: a clock behind the
\* watermark, a nonce that is not valid for the message, or a message that is
\* not the one its request id was answered with.
Refuse(m, now) ==
    /\ \/ now < kv.configuration.last_time
       \/ kv.results[m.request] # None /\ kv.results[m.request].digest # m
       \/ kv.results[m.request] = None /\ ~ ValidNonce(m, now)
    /\ UNCHANGED vars

\* Live nonces of a request, with the version of the newest observation of each.
Observations(q, now) ==
    {[nonce |-> n,
      failed |-> kv.attempts[n] # None,
      version |-> IF kv.attempts[n] = None THEN kv.nonces[n].version
                                           ELSE kv.attempts[n].version] :
        n \in {n \in NonceRows(kv) : /\ kv.nonces[n].epoch = kv.configuration.epoch
                                     /\ kv.nonces[n].request = q
                                     /\ kv.nonces[n].expires_at > now}}

\* reconcile_uncompleted: the newest observation decides.
Uncompleted(q, now) ==
    LET observations == Observations(q, now)
    IN  IF observations = {} THEN "unknown"
        ELSE IF (CHOOSE o \in observations :
                    \A p \in observations : p.version <= o.version).failed
             THEN "failed" ELSE "pending"

\* Faulty variant: live nonces looked at before the results.
RequestStatus_NoncesFirst(q, now) ==
    IF Uncompleted(q, now) # "unknown" THEN Uncompleted(q, now)
    ELSE IF kv.results[q] # None THEN "committed" ELSE "unknown"

\* GET /service/request
RequestStatus(q, now) ==
    IF kv.results[q] # None THEN "committed" ELSE Uncompleted(q, now)

---------------------------------------------------------------------------
(* Maintenance and governance *)

\* adns_set_configuration: the constitution accepts only an epoch above the
\* last one it wrote, and leaves the row for maintenance to pick up.
ProposeConfiguration(epoch, time) ==
    /\ epoch > kv.governed_epoch
    /\ Write([kv EXCEPT !.proposed = [epoch |-> epoch, last_time |-> time],
                        !.governed_epoch = epoch])
    /\ UNCHANGED <<inflight, told, generated>>

\* Faulty variant: the proposed watermark replaces a later one.
Applied_Unclamped(current, proposed) == IF proposed = None THEN current ELSE proposed

\* The configuration once a proposed one is applied: the watermark that the
\* application reached in the meantime is kept.
Applied(current, proposed) ==
    IF proposed = None THEN current
    ELSE [proposed EXCEPT !.last_time = IF current.last_time > @ THEN current.last_time ELSE @]

\* governed_maintenance and the part of maintenance that concerns requests.  A
\* watermark proposed in the future makes it fail, and wait, as a whole.
Maintain(now) ==
    LET configuration == Applied(kv.configuration, kv.proposed)
    IN  /\ kv.proposed # None => kv.proposed.epoch > kv.configuration.epoch
        /\ now >= configuration.last_time
        /\ Write(Collected([kv EXCEPT !.proposed = None,
                              !.configuration = [configuration EXCEPT !.last_time = now]], now))
        /\ UNCHANGED <<inflight, told, generated>>

---------------------------------------------------------------------------
(* Consensus and the commit gate *)

\* Everything executed so far becomes durable.  Committing a prefix is this
\* step taken earlier: nobody can see when it happens.
Commit ==
    /\ committed # kv
    /\ committed' = kv
    /\ UNCHANGED <<kv, view, inflight, told, generated>>

\* The primary is lost and a new view starts from what was committed.
Rollback ==
    /\ view < MaxView
    /\ view' = view + 1
    /\ kv' = committed
    /\ UNCHANGED <<committed, inflight, told, generated>>

InHistory(tx, history) == tx.seqno <= Len(history) /\ history[tx.seqno] = tx.view

IsCommitted(tx) == InHistory(tx, committed.history)
IsInvalid(tx) == ~ InHistory(tx, kv.history)

\* Faulty variant: the response leaves when the transaction was executed.
MayRelease_Executed(r) == ~ IsInvalid(r.tx)

\* The consensus callback says Committed, and an original transaction is not
\* newer than the one that read it.
MayRelease(r) ==
    /\ IsCommitted(r.tx)
    /\ r.original # None => r.original.seqno <= r.tx.seqno /\ r.original.view <= r.tx.view

Deliver(r) ==
    /\ MayRelease(r)
    /\ inflight' = inflight \ {r}
    /\ told' = told \cup {r}
    /\ UNCHANGED <<kv, committed, view, generated>>

\* TRANSACTION_INVALID is sent instead; the client learns nothing else.
Invalidate(r) ==
    /\ IsInvalid(r.tx)
    /\ inflight' = inflight \ {r}
    /\ UNCHANGED <<kv, committed, view, told, generated>>

\* The connection fails before the response reaches the client.
Lose(r) ==
    /\ inflight' = inflight \ {r}
    /\ UNCHANGED <<kv, committed, view, told, generated>>

---------------------------------------------------------------------------
EmptyStore ==
    [configuration |-> [epoch |-> 1, last_time |-> 0], proposed |-> None, governed_epoch |-> 1,
     nonces |-> [n \in NonceIds |-> None], attempts |-> [n \in NonceIds |-> None],
     results |-> [q \in Requests |-> None], effects |-> {}, history |-> <<>>]

Init ==
    /\ kv = EmptyStore
    /\ committed = EmptyStore
    /\ view = 1
    /\ inflight = {}
    /\ told = {}
    /\ generated = {}

Next ==
    \/ \E q \in Requests, intent \in Intents, n \in NonceIds, now \in Times :
          IssueNonce(q, intent, n, now)
    \/ \E m \in Message, now \in Times :
          Replay(m, now) \/ Execute(m, now) \/ Reject(m, now) \/ Refuse(m, now)
    \/ \E epoch \in 1 .. MaxEpoch, time \in Times : ProposeConfiguration(epoch, time)
    \/ \E now \in Times : Maintain(now)
    \/ Commit
    \/ Rollback
    \/ \E r \in inflight : Deliver(r) \/ Invalidate(r) \/ Lose(r)

Spec == Init /\ [][Next]_vars

---------------------------------------------------------------------------
(* Properties *)

\* Types of the tables and of the messages.
TypeOK ==
    /\ kv \in Store
    /\ committed \in Store
    /\ view \in 1 .. MaxView
    /\ inflight \subseteq Response
    /\ told \subseteq Response
    /\ generated \subseteq NonceIds

\* However a request is retried, under whichever nonces and through whichever
\* rollbacks, it takes effect at most once, a nonce admits one effect, and the
\* effect is the one recorded as its result.
AtMostOnce ==
    /\ \A e, f \in kv.effects :
          (e.message.request = f.message.request \/ e.message.nonce = f.message.nonce) => e = f
    /\ \A q \in Requests :
          {[digest |-> e.message, version |-> e.version] :
              e \in {x \in kv.effects : x.message.request = q}}
             = IF kv.results[q] = None THEN {} ELSE {kv.results[q]}

\* An effect rests on a nonce that was issued, and told, for exactly that
\* request and that action.
EffectsAuthorized ==
    \A e \in kv.effects :
       \E r \in told : r.kind = "nonce" /\ r.message = e.message

\* The transaction id a response names.
Reported(r) == IF r.original = None THEN r.tx ELSE r.original

\* What a client was told is never taken back: the result is stored, under the
\* transaction it was told, in every later state, rollbacks included.
ToldDurable ==
    \A r \in told : r.kind = "result" =>
       LET result == kv.results[r.message.request]
       IN  /\ result # None /\ result.digest = r.message
           /\ TxOf(result.version) = Reported(r)
           /\ IsCommitted(Reported(r))

\* The view history captured when a replay was read stays right until the
\* callback runs: whenever the snapshot commits, so has the original, and the
\* check in the callback never turns a committed result away.
CapturedHistorySound ==
    \A r \in inflight : IsCommitted(r.tx) => (IsCommitted(Reported(r)) /\ MayRelease(r))

\* Diagnostics never outlive their nonce and carry its identity; otherwise a
\* read of the request fails as inconsistent.  The live table keeps its bounds.
NonceTableSound ==
    /\ \A n \in NonceIds : kv.attempts[n] # None =>
          /\ kv.nonces[n] # None
          /\ kv.attempts[n].request = kv.nonces[n].request
          /\ kv.attempts[n].intent = kv.nonces[n].intent
          /\ kv.attempts[n].expires_at = kv.nonces[n].expires_at
    /\ Cardinality(NonceRows(kv)) <= MAX_OUTSTANDING_NONCES
    /\ \A g \in Grants : Cardinality(GrantRows(kv, g)) <= MAX_GRANT_NONCES

\* The trusted watermark and the epoch never move back in the durable state,
\* whatever last_time governance proposes and however views change.
WatermarkMonotone ==
    [][/\ committed'.configuration.last_time >= committed.configuration.last_time
       /\ committed'.configuration.epoch >= committed.configuration.epoch]_vars

\* A read of a request tells the truth about it: committed exactly when it took
\* effect, whatever other nonces of the same request are still alive; and a
\* request that was told its result never reads as anything else.
ReconcileSound ==
    \A q \in Requests, now \in Times :
       /\ RequestStatus(q, now) = "committed" <=> \E e \in kv.effects : e.message.request = q
       /\ (\E r \in told : r.kind = "result" /\ r.message.request = q)
             => RequestStatus(q, now) = "committed"

\* What clients hear is sound, whichever way they hear it: in a response, in a
\* replay, or by reading the request's status.
ToldSound == ToldDurable /\ CapturedHistorySound /\ ReconcileSound

\* The nonce tables have their types and bounds, and effects rest on them.
NoncesSound == TypeOK /\ NonceTableSound /\ EffectsAuthorized

\* The refinement mapping to RequestOutcome: decided is what committed results
\* say, announced is what clients were told.
Outcome(digest, tx) == [digest |-> digest, tx |-> tx]

Decided ==
    [q \in Requests |->
       IF committed.results[q] = None THEN None
       ELSE Outcome(committed.results[q].digest,
                    [view |-> committed.history[committed.results[q].version],
                     seqno |-> committed.results[q].version])]

Answers(q) == {r \in told : r.kind = "result" /\ r.message.request = q}

Announced ==
    [q \in Requests |->
       IF Answers(q) = {} THEN None
       ELSE LET r == CHOOSE r \in Answers(q) : TRUE IN Outcome(r.message, Reported(r))]

Abstract ==
    INSTANCE RequestOutcome WITH
       Outcomes <- [digest : Message, tx : TxId], decided <- Decided, announced <- Announced

\* The ledger implements RequestOutcome: nothing is decided twice or revised by
\* a rollback, and a client hears nothing that is not decided.
ImplementsOutcome == Abstract!Spec
============================================================================

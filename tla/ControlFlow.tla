---------------------------- MODULE ControlFlow -----------------------------
(***************************************************************************)
(* The operator's controller against a running service: a phase of         *)
(* native_flow.py under run_phase.py, one reconcile_ccf_inside.py, one     *)
(* measure_ccf_request.py or one command of tools/ccf_control.py, whose    *)
(* client the flow and the reconciliation use as well.  The service is a   *)
(* CCF ledger: a request executes at its head, commits some time later,    *)
(* and is rolled back when an election comes first.  An application        *)
(* response is held back until commit; a governance response is not, and   *)
(* the controller polls the transaction's status.  A phase with owner-     *)
(* scope negatives, and a reconciliation, narrows the grant by a           *)
(* governance proposal, expects the request to be refused, and puts the    *)
(* grant back.                                                             *)
(***************************************************************************)
EXTENDS Naturals, Sequences, FiniteSetsExt

CONSTANT MaxTail   \* the transactions that may await commit

ASSUME ControlAssumption == MaxTail \in Nat

VARIABLES tail,       \* the transactions not committed yet
          committed,  \* the owner's grant, the registration and its renewal, as committed
          sources,    \* the files of the manifest are the ones it pins
          context,    \* run_phase.py wrote the registration into the context
          phase       \* the running phase: where it is, and what of its transaction it knows

controlVars == <<tail, committed, sources, context, phase>>

Modes == {"scopes", "plain", "conflict", "lifecycle", "reconcile", "measure", "propose"}

Idle == [pc |-> "idle", mode |-> "plain", tx |-> "none", failing |-> FALSE]

\* What a step sends, and the steps that may follow its confirmation.

\* Governance.propose: a proposal is open until the ballot passes it.  "restore"
\* is the finally clause, after which the next narrowed grant has its turn.
ProposalSteps ==
    [grant          |-> [sends |-> "proposal",   then |-> {"grantBallot"}],
     grantBallot    |-> [sends |-> "full",       then |-> {"nonce", "summary"}],
     restrict       |-> [sends |-> "proposal",   then |-> {"restrictBallot"}],
     restrictBallot |-> [sends |-> "restricted", then |-> {"reject"}],
     restore        |-> [sends |-> "proposal",   then |-> {"restoreBallot"}],
     restoreBallot  |-> [sends |-> "full",       then |-> {"restrict", "register"}]]

\* Run.registration: the same envelope is refused and, in the end, accepted.
RegistrationSteps ==
    [nonce    |-> [sends |-> "nonce",    then |-> {"observe", "sign"}],
     reject   |-> [sends |-> "register", then |-> {"observeFailed"}],
     register |-> [sends |-> "register", then |-> {"history"}],
     retry    |-> [sends |-> "register", then |-> {"summary"}]]

\* Run.lifecycle: a renewal stands for the four operations.
LifecycleSteps == [operate |-> [sends |-> "renew", then |-> {"history"}],
                   again   |-> [sends |-> "renew", then |-> {"summary"}]]

\* Run.conflict: another action under the request ID of a committed one.
ConflictSteps == [conflict |-> [sends |-> "conflict", then |-> {"history"}]]

Script ==
    [pc \in DOMAIN ProposalSteps \cup DOMAIN RegistrationSteps \cup DOMAIN LifecycleSteps \cup DOMAIN ConflictSteps |->
        CASE pc \in DOMAIN ProposalSteps     -> ProposalSteps[pc]
          [] pc \in DOMAIN RegistrationSteps -> RegistrationSteps[pc]
          [] pc \in DOMAIN LifecycleSteps    -> LifecycleSteps[pc]
          [] pc \in DOMAIN ConflictSteps     -> ConflictSteps[pc]]

\* The try block of the owner-scope negatives; a reconciliation has none.
GuardedByFinally == phase.mode = "scopes" /\ phase.pc \in {"reject", "observeFailed"}

ControlInit ==
    /\ tail = <<>> /\ committed = [grant |-> "full", registered |-> "no", renewed |-> FALSE]
    /\ sources = TRUE /\ context = FALSE
    /\ phase = Idle

-----------------------------------------------------------------------------
(* The service (external).                                                 *)

Applied(state, effect) ==
    CASE effect \in {"full", "restricted"} -> [state EXCEPT !.grant = effect]
      [] effect \in {"asked", "unasked"}   -> [state EXCEPT !.registered = effect]
      [] effect = "renewed"                -> [state EXCEPT !.renewed = TRUE]
      [] OTHER                             -> state

\* The state requests execute on: the committed one and all that awaits commit.
\* The last grant counts; a registration is made once.
HeadState ==
    LET grants == {i \in DOMAIN tail : tail[i].effect \in {"full", "restricted"}}
        made   == {i \in DOMAIN tail : tail[i].effect \in {"asked", "unasked"}}
    IN  [grant      |-> IF grants = {} THEN committed.grant ELSE tail[Max(grants)].effect,
         registered |-> IF made = {} THEN committed.registered ELSE tail[CHOOSE i \in made : TRUE].effect,
         renewed    |-> committed.renewed \/ \E i \in DOMAIN tail : tail[i].effect = "renewed"]

\* A request that was executed is answered from its record; otherwise the grant
\* decides.  "unasked" is a registration the phase meant to see refused.
Effect(request, pc) ==
    LET executed == [register |-> HeadState.registered # "no", renew |-> HeadState.renewed]
    IN  IF request \notin DOMAIN executed THEN request
        ELSE IF executed[request] THEN "replay"
        ELSE IF HeadState.grant = "restricted" \/ (request = "renew" /\ ~executed.register) THEN "refusal"
        ELSE IF request = "renew" THEN "renewed"
        ELSE IF pc = "reject" THEN "unasked" ELSE "asked"

Commit ==
    /\ tail # <<>>
    /\ committed' = Applied(committed, Head(tail).effect)
    /\ phase' = IF Head(tail).awaited THEN [phase EXCEPT !.tx = "committed"] ELSE phase
    /\ tail' = Tail(tail)
    /\ UNCHANGED <<sources, context>>

Election(n) ==
    /\ n < Len(tail)
    /\ phase' = IF \E i \in n + 1..Len(tail) : tail[i].awaited THEN [phase EXCEPT !.tx = "invalid"] ELSE phase
    /\ tail' = SubSeq(tail, 1, n)
    /\ UNCHANGED <<committed, sources, context>>

-----------------------------------------------------------------------------
(* native_flow.py and ccf_control.py.                                      *)

Forgotten(t) == [i \in DOMAIN t |-> [t[i] EXCEPT !.awaited = FALSE]]

\* A failed assertion, a timeout, a lost connection: what is guarded by the
\* finally clause puts the grant back first, the rest ends the phase.
Failed ==
    phase' = IF GuardedByFinally THEN [phase EXCEPT !.pc = "restore", !.tx = "none", !.failing = TRUE]
                                              ELSE Idle

\* The phases of run_phase.py, which knows the sources they are made of.
Inspected == {"scopes", "plain", "conflict", "lifecycle"}

Starts(mode, pc) ==
    /\ phase.pc = "idle" /\ phase' = [Idle EXCEPT !.mode = mode, !.pc = pc]
    /\ UNCHANGED <<tail, committed, sources, context>>

\* run_phase.main: the sources are inspected before the flow starts.
StartPhase(mode) ==
    sources /\ mode \in Inspected /\ Starts(mode, IF mode = "lifecycle" THEN "prepare" ELSE "nonce")

\* reconcile_ccf_inside.main: it brings its own grant.
StartReconciliation == Starts("reconcile", "grant")

\* measure_ccf_request.main: one saved envelope.
StartMeasurement == Starts("measure", "register")

\* ccf_control.main, "propose": one proposal with the proposer's ballot.
StartProposal == Starts("propose", "grant")

\* The answers a step goes on with.  A new registration is named after this
\* phase's nonce, so only a measurement, which sends a saved envelope, may meet
\* a registration made before it.
Expected ==
    CASE phase.pc = "reject"   -> {"refusal"}
      [] phase.pc = "register" -> IF phase.mode = "measure" THEN {"asked", "replay"} ELSE {"asked"}
      [] phase.pc = "operate"  -> {"renewed", "replay"}
      [] phase.pc \in {"retry", "again"} -> {"replay"}
      [] OTHER                 -> {Script[phase.pc].sends}

\* It executes and the phase waits.
Submits ==
    /\ phase.pc \in DOMAIN Script /\ phase.tx = "none"
    /\ Len(tail) < MaxTail
    /\ LET effect == Effect(Script[phase.pc].sends, phase.pc) IN
         /\ tail' = Append(tail, [effect |-> effect, awaited |-> TRUE])
         /\ phase' = [phase EXCEPT !.tx = "pending", !.failing = @ \/ effect \notin Expected]
    /\ UNCHANGED <<committed, sources, context>>

\* Client.request.
Send == phase.mode # "measure" /\ Submits

\* exchange of measure_ccf_request.py, which has a client of its own.
Exchange == phase.mode = "measure" /\ Submits

\* Faulty variant: a pending transaction passes for a committed one.
Settled_Pending(tx) == tx \in {"pending", "committed"}

\* Client.require_committed: Unknown and Pending are polled again.
Settled(tx) == tx = "committed"

\* Only the owner-scope negatives narrow the grant more than once, only a
\* registration looks at its nonce, and a single proposal ends with its ballot.
Follows(pc) == {next \in Script[pc].then :
                  /\ pc = "restoreBallot" /\ next = "restrict" => phase.mode = "scopes"
                  /\ pc = "nonce" => (next = "sign" <=> phase.mode \in {"conflict", "lifecycle"})
                  /\ pc = "grantBallot" => (next = "summary" <=> phase.mode = "propose")}

\* The step is confirmed: the phase moves on, or fails on the answer it got.
Confirm ==
    /\ phase.pc \in DOMAIN Script /\ Settled(phase.tx)
    /\ tail' = Forgotten(tail)
    /\ IF phase.failing /\ phase.pc \notin {"restore"} THEN Failed
       ELSE \E next \in Follows(phase.pc) : phase' = [phase EXCEPT !.tx = "none", !.pc = next]
    /\ UNCHANGED <<committed, sources, context>>

\* The status is Invalid, or thirty seconds pass, or the connection is lost.
GiveUp ==
    /\ phase.pc \in DOMAIN Script /\ phase.tx # "none"
    /\ tail' = Forgotten(tail) /\ Failed
    /\ UNCHANGED <<committed, sources, context>>

Reads(pc, next) ==
    /\ phase.pc = pc /\ phase' = [phase EXCEPT !.pc = next]
    /\ UNCHANGED <<tail, committed, sources, context>>

\* Run.verify_prepared: the worker's action is about the registration of the
\* context.
PrepareAction ==
    context /\ Reads("prepare", "nonce")

\* The reads between two transactions, whose answers are of committed state: the
\* nonce is pending (Run.observe),
ObservePending == Reads("observe", "sign")

\* Run.worker_call: the worker signs with the nonce, and Run.verify has checked
\* its key, intent and evidence.
WorkerSigns ==
    Reads("sign", [scopes |-> "restrict", plain |-> "register", conflict |-> "conflict",
                   lifecycle |-> "operate", reconcile |-> "restrict"][phase.mode])

\* The refused attempt is on record and the zone as it was.
ObserveFailed == Reads("observeFailed", "restore")

\* The history has the result that was returned.
Reconciled == IF phase.mode = "lifecycle" THEN committed.renewed ELSE committed.registered # "no"

ReadHistory ==
    /\ phase.mode # "measure" /\ Reconciled
    /\ Reads("history", CASE phase.mode = "conflict"  -> "summary"
                          [] phase.mode = "lifecycle" -> "again"
                          [] OTHER                    -> "retry")

\* measure_ccf_request.main: the same, and the result is written out.
MeasureHistory ==
    phase.mode = "measure" /\ Reconciled /\ Reads("history", "summary")

\* One of them fails, or shows something else than the phase expects.
ObserveFails ==
    /\ phase.pc \in {"prepare", "observe", "sign", "observeFailed", "history", "summary"} /\ Failed
    /\ UNCHANGED <<tail, committed, sources, context>>

\* run_phase.main: after the flow the sources are inspected again and a
\* registration is written into the context, once.
EndPhase ==
    /\ phase.pc = "summary"
    /\ IF phase.mode \notin Inspected \/ (sources /\ (phase.mode \in {"conflict", "lifecycle"} \/ ~context))
       THEN /\ phase' = [phase EXCEPT !.pc = "passed"]
            /\ context' = (context \/ phase.mode \in {"scopes", "plain"})
       ELSE phase' = Idle /\ UNCHANGED context
    /\ UNCHANGED <<tail, committed, sources>>

NextPhase ==
    /\ phase.pc = "passed" /\ phase' = Idle
    /\ UNCHANGED <<tail, committed, sources, context>>

\* run_phase.main kills a flow after 480 seconds, finally clause and all.
KillFlow ==
    /\ phase.pc \notin {"idle", "passed"} /\ phase' = Idle
    /\ tail' = Forgotten(tail)
    /\ UNCHANGED <<committed, sources, context>>

SourcesChange ==
    /\ sources' = ~sources
    /\ UNCHANGED <<tail, committed, context, phase>>

ControlNext ==
    \/ Commit \/ \E n \in 0..MaxTail : Election(n)
    \/ \E mode \in Modes : StartPhase(mode)
    \/ StartReconciliation \/ StartMeasurement \/ StartProposal
    \/ Send \/ Exchange \/ Confirm \/ GiveUp
    \/ PrepareAction \/ ObservePending \/ WorkerSigns \/ ObserveFailed
    \/ ReadHistory \/ MeasureHistory \/ ObserveFails
    \/ EndPhase \/ NextPhase \/ KillFlow \/ SourcesChange

ControlSpec == ControlInit /\ [][ControlNext]_controlVars

-----------------------------------------------------------------------------

\* A phase that says it passed is right about the ledger, whatever was elected
\* away under it: the registration or renewal it reports is committed, and after
\* the owner-scope negatives, a revocation or a proposal of its own the grant in
\* force is the full one.  And no
\* registration was made by a request the phase sent to see refused, which one
\* unconfirmed restriction, rolled back between two requests, would bring about.
PhaseSound ==
    /\ phase.pc = "passed" /\ phase.mode \notin {"conflict", "propose"} => committed.registered # "no"
    /\ phase.pc = "passed" /\ phase.mode = "lifecycle" => committed.renewed
    /\ phase.pc = "passed" /\ phase.mode \in {"scopes", "reconcile", "propose"} => HeadState.grant = "full"
    /\ HeadState.registered # "unasked"

=============================================================================

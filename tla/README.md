# Verification of the aDNS authority

aDNS is an authoritative DNS primary that runs inside a CCF service. Owners are
granted scope by governance, prove with attestation evidence what they run, and
register hosts and ports; the service publishes their records in a DNSSEC-signed
zone for as long as their lease, their appraisal and their authority last. This
directory holds TLA+ models of the service, the TLC runs that check them on
small instances, and TLAPS proofs about them for every instance.

## 1. The system

| Part | Source | What it does | Modelled in |
|---|---|---|---|
| Lifecycle of registrations, challenges and operator records; maintenance | `crates/adns-server/src/service.rs`, `limits.rs` | one transaction per request; maintenance ends what lapsed | `Lifecycle` |
| Zone records, counters, signing | `crates/adns-server/src/state.rs`, `zone.rs` | owned contributions, capacity, snapshot and serial | `ZoneRecords`, `Lifecycle` |
| Grants and authorization | `crates/adns-auth/src/grants.rs`, `schema.rs` | scope, validity and lease bounds | `Lifecycle` |
| Appraisal | `crates/adns-attest/src/*.rs` | evidence against a zone's policy | `Lifecycle` (window and end of an appraisal) |
| Nonces, replay, reconciliation | `crates/adns-auth/src/lib.rs`, `service.rs`, `attempts.rs` | a signed request is admitted once | `RequestLedger` |
| Commit gate | `ccf/app.cpp` | a response waits for global commit | `RequestLedger` |
| Governed maintenance | `crates/adns-ccf/src/lib.rs` | applies configuration, zones, rollover commands | `RequestLedger` (configuration), `KskRollover` (zones and commands), `Lifecycle` |
| KSK rollover | `zone.rs`, `adns-ccf/src/lib.rs`, `constitution.js` | start, complete, abort with a hold | `KskRollover`, `RolloverValidation`, `RolloverRecovery` |
| Secondary peering | `adns-ccf/src/lib.rs` | NOTIFY and SOA work, pending rows, cursor | `SecondaryPeering` |
| Anchors | `crates/adns-server/src/anchors.rs` | digests bound to sequence numbers, heads, receipts | `Anchors` |
| Constitution: votes | `ccf/governance/constitution.js` | weighted vote, trap door, verdicts, reputation | `GovernanceVote` |
| Constitution: releases | `ccf/governance/constitution.js` | release authority, join policy, appraisal policies | `ReleaseAuthority` |
| Constitution: other rows | `ccf/governance/constitution.js` | grants, configuration, transfer keys | `Lifecycle`, `RequestLedger`, `SecondaryPeering` |
| Development server, storage | `bin/adns-dev.rs`, `crates/adns-storage/src/lib.rs` | the same service over a sealed local store | `DevServer` |
| Node supervisor | `ccf/run.py` | one node and one driver per state directory | `Supervisor`, `Deployment` (pinned configuration), `TraceExport` (environment) |
| Host driver | `ccf/host_driver.py` | moves datagrams, wakes maintenance | `SecondaryPeering` (loop), `HostDriver` (listeners, exchanges) |
| Telemetry | `ccf/telemetry.py` | trace export, link cache | `TraceExport`, `HostDriver` |
| Capture worker | `tools/capture_aci.py` | a measured guest that signs requests | `CaptureSigner`, `CaptureServer`, `CaptureFlow` |
| Evidence tools | `tools/verify_native_*.py`, `attestation.py`, `check_native_appraisal.py`, `fetch_capture.py`, `sign_capture_request.py`, `audit_ccf_node.py` | verdicts apart from the service's; hand trust to guests | `NativeEvidence`, `EvidenceCheck`, `CaptureFlow` |
| Control tools | `tools/ccf_control.py`, `measure_ccf_request.py`, `docs/evidence/native-api-final-20260913/source/*.py` | proposals and test phases against a live service | `ControlFlow` |
| Receipt tools | `tools/verify_claims_receipt.py`, `verify_ksk_receipt.py` | check receipts offline | `Receipts` |
| Deployment tools | `tools/prepare_aci_control.py`, `build_aci_template.py`, `check_aci_template.py` | from a control directory to a container group | `Deployment`, `TraceExport` |
| Installers | `tools/secondary_vm.py`, `secondary_aci.py`, `docs/evidence/otel-backend-native-20260913/source/*.py` | a secondary, a trace backend | `SecondaryHost`, `BackendHost` |
| Release authority tool | `tools/release_authority.py` | mints the authority, signs payloads | `ReleaseTool` |
| Transfer, DNSSEC, wire, queries | `crates/adns-transfer`, `adns-dnssec`, `adns-wire`, `query.rs` | AXFR and TSIG, signing, codec, answers | the CNAME rule only; section 6 |

How they interact: a client asks for a nonce, signs an action with it and posts
it. `app.cpp` opens one CCF transaction, the Rust code runs in it to the end,
and the response is held until consensus commits the transaction or discards
it. Governance writes grants, policies and configuration into tables that the
application only reads. The host driver wakes maintenance every few seconds;
maintenance applies governed changes, ends registrations and challenges whose
authority is gone, removes their records and signs the zones that changed or
whose signatures are due.

## 2. Modules

### ZoneRecords
The records of one zone as a set of contributions `[contributor, owner, type,
data, ttl]`; an RRset is the set of contributions with one owner and type.
`CanAdd` and `UsageAfterAdd` are `add_contribution` (CNAME exclusivity, skipped
duplicates, three capacities); `CanRemove` and `UsageAfterRemove` are
`remove_matching_contributions` with its checked subtractions; `Published` is
`normalize_rrsets` over base and dynamic records; `Signable` is the signer's own
CNAME check, which sees the base records that `add_contribution` does not.

### Lifecycle
State: the tables `grants`, `policies`, `registrations`, `challenges`, the
active index with its count, and per zone the contributions, the usage counters
and the signed snapshot with serial and expiration; `last_time` is the trusted
watermark. One action is one committed transaction: `Register`,
`RenewWithEvidence`, `RenewWithoutEvidence`, `DeregisterAll`, `DeregisterPorts`,
`AcmeChallengeCreate`, `AcmeChallengeDelete`, `OperatorRecords` (the branches of
`mutate`), `Maintenance`, the three governance writes, and `ObserveTime` for
transactions that only move the watermark. The clock of the node is a parameter
`now`, any value from the watermark on.

What is abstracted: names are labels and hosts; a registration contributes an
address record and one TLSA record per port, standing for the MX, SVCB and
attested records that are written and removed with them; the byte budget (a
third counter, kept like the other two) is left out; digests identify what they
digest; a grant's address ranges are folded into its hosts. The zones exist from
the start.

### RequestLedger and RequestOutcome
`kv` is the state after every executed transaction and `committed` the state
after every globally committed one; `Rollback` is a new view that starts from
`committed`. A response carries the transaction id it waits for, and for a
replay the id of the original, resolved from the view history that `app.cpp`
captures. Any message the client could sign may be submitted at any time and any
number of times; responses may be lost. The verdict of the lifecycle on an
admitted request is an input (`Execute`, `Reject`, `Refuse`). `RequestOutcome`
is what is promised: an outcome is decided once, never revised, and only decided
outcomes are announced. `ImplementsOutcome` is the refinement.

### KskRollover, RolloverValidation, RolloverRecovery
`KskRollover` has two sides that never read each other: the constitution's
`governed` zones and stage `mirror`, and the application's keys, rollover record
and DNSKEY RRset; `zone_rows` and `command` are the rows between them. `Propose`
is the apply function of `adns_ksk_rollover`: it checks and moves the mirror and
overwrites the command row. `Maintenance` is one transaction of
`governed_maintenance`: it creates zones, applies every waiting command or, if
`apply_ksk_rollover` refuses one of them, does nothing at all, and re-signs. A
key stands for its private bytes, its DNSKEY, its tag and its DS.

`RolloverValidation` puts the outside around it: the parent's DS, changed only
by the domain owner, and a resolver that caches DS and DNSKEY for their TTLs.
Stewards and domain owner follow `docs/operations.md`; one thing that guide
leaves open is needed: the domain owner publishes the incoming DS only while
governance, too, has the rollover in progress (otherwise an accepted abort that
is drained later leaves a DS nobody signs for).

`RolloverRecovery` drops all care: stewards propose whatever is accepted, and
from some point on only replace refused commands by what the mirror admits.

### SecondaryPeering
`SecondaryRequests` is `secondary_requests` as one transaction: reap rows that
are old or out of scope, rotate the sorted jobs behind the cursor, issue up to a
batch, persist. `Post` is `secondary_response`. Per driver there is a backlog, a
set of exchanges in their stages, and the age of the batch; `CycleWithRequest`,
`CycleWithLostRequest` and `CycleWithoutRequest` are the paths through one turn
of `lifecycle`. Ages saturate at the limits they are compared with. `heard` is a
ghost: the newest serial committed when the secondary last received a NOTIFY.

### GovernanceVote
Proposals with their ballots, `resolve` (`Outcomes`, with the caps computed as in
the code), `apply` for the kinds that feed back into later decisions, and
`RecordVerdict`, which is accepted on its proposer's word. CCF's part (storing
proposals, one ballot per member, calling `resolve` after each) is external. A
proposal has one action; a text is its content and a note. Parameters have their
defaults except `ReputationMax`.

### ReleaseAuthority
The authority's identity and version (svn), the join policy, CCF's join tables
and the identities of the appraisal policies. A signature is its signer and its
version; whatever was signed may be applied at any later time. `newest` is a
ghost: the highest version of a signed change applied so far.

### Anchors
Rows per registration, subject and sequence number, the head of each chain, and
`receipts`, a ghost: every claim a response has carried. `StoreAnchor` and
`DuplicateAnchor` are the two ways `anchor` succeeds, `ReadHead` is
`read_anchor`. What the rest of the service does to a registration is its
standing: active, suspended (a grant or a policy withdrawn), ended.

### DevServer
A task is an HTTP handler or the maintenance timer, at one of the steps between
which the code awaits or may die: transaction open, committed, saved, lock
released, asked, heard. `Begin` takes the mutation lock and the base revision,
`Commit` is `MemoryWrite::commit` with its comparison of revisions, `Save` and
`SaveFails` are `save_private`, `Publish` the rest of `persist`, and `ReadRow`,
`Exchange`, `StoreRow` are `notify_and_observe`. `Crash` loses everything but
`disk`; `Disconnect` is a handler dropped at an await. One secondary stands for
the configured list; `disk` is what survives a crash of the process.

### Supervisor
Each member of `Supervisors` is one run of `run.py` over the same state
directory; it starts at most one node, which carries its name. The program
counter follows `ccf_pid_guard`, `retire_stale_pid`, `supervise` and its
`finally` block, with the point between looking at a PID file and removing it.
The last comparison and the unlink that follows it are one step. External:
nodes that start, recover with another identity, write their certificate or
exit, PIDs that are reused, an operator who unlinks a file.

### HostDriver
Connections and datagrams with the permit they hold, the time they have used and
the request they are at; exchanges with secondaries; the link cache. Durations
are in units that all limits of the code are multiples of. The instance asks SOA
only, since a NOTIFY differs in where its serial comes from.

### CaptureSigner, CaptureServer
`CaptureSigner` is `CaptureState`: prepared actions, signatures and challenges
with what is left of their retention, the lock that `register` holds while it
talks to the service, and the service's side of a nonce. `CaptureServer` has
the listeners' slots and the threads behind them.

### NativeEvidence, EvidenceCheck, CaptureFlow
`NativeEvidence` has no state: `Appraise`, `AuditNode` and the verifiers of the
tools as lists of checks in the order of the code, the first that fails naming
the error. Evidence is a record of what each check tells apart. `EvidenceCheck`
runs them on every combination; `CaptureFlow` follows the tools around one
capture directory while guests start and stop. `check_native_appraisal.py` raises
the minimum TCB by one and expects a refusal, which presumes a policy whose
minimum is the captured value; the model does too.

### ControlFlow
A ledger with an uncommitted tail that an election cuts off, and one phase: the
request it is at and what it knows of the transaction. One registration and one
renewal stand for the four lifecycle operations. Negative requests that change
nothing whatever the answer (invalid signatures, evidence, consumed nonces) are
left out.

### Receipts, Deployment, SecondaryHost, BackendHost, TraceExport, ReleaseTool
`Receipts` composes a receipt from parts of different receipts, transactions and
services; a hash is what it is of. `Deployment` follows files by the run that
wrote them, through template, measured policy and the reads of
`pinned_configuration`, while the host remounts. `SecondaryHost` and
`BackendHost` are installers that may run twice and die anywhere; an operator
removes a secondary only when no provisioning runs, and the name server the
backend's installer checks is a variable of its own. `TraceExport` passes the
same settings through the validators of builder, checker, supervisor and driver.
`ReleaseTool` runs one command at a time and has the constitution's check beside
it; that installing an authority closes other proposals is in `GovernanceVote`.


## 3. Runs

| Run | Instance | Shows |
|---|---|---|
| `leases` | 2 registrations of one host, 2 ports, 2 policies with different profiles, 2 grant rows, clock 0..3 | leases stay bounded under every renewal; the shared TLSA records of one registration survive the other's deregistration; nothing that ended returns; reads agree with maintenance |
| `records` | 2 registrations, 1 challenge, operator requests (add, replace, delete, CNAME), capacities that are reached, serials mod 3 | index, counters and snapshot are exact (`TablesExact`); every record has a living owner; one run settles everything |
| `liveness` | 1 registration, leases that end and leases that outlive the clock | lapsed leases and revoked authority are eventually withdrawn |
| `retries` | 1 request id with 2 contents, 2 nonces, 4 transactions, 1 view change, 2 epochs, expiry, 2 responses in flight | at most one effect; told results are durable and name their own transaction; effects rest on nonces issued for them, diagnostics and bounds of the nonce table; the watermark never moves back; refinement of `RequestOutcome` |
| `ksk_recovery` | 2 zones, 5 keys, hold 1, clock 0..1, fair | no key is retired before its hold; maintenance always recovers from refused commands |
| `ksk_chain` | 1 zone, 3 keys, holds 2 and 3, DNSKEY TTL 2, DS TTL 2, clock 0..9 | every cached DS matches every cached RRset; nothing is refused |
| `ksk_shorthold` | the same with a hold of 1 | violated: see section 5 |
| `peer_drivers` | 2 drivers with restarts, 1 key granted, provisioned and revoked, serials 1..2 | one row per job; statuses report what happened; answers count only under a grant in force |
| `peer_turns` | 2 keys with their own endpoints, batches of 1, lost batches and datagrams, fair | every peer gets its turn and acknowledges the serial |
| `supervisor` | 2 supervisors, 2 identities, fair | one node per directory, which its PID file names; a driver trusts the certificate on disk and is traced; an exit reaps both children; the driver follows the node's identity |
| `service` | votes: 3 agents, a human, 2 proposals; releases: 2 authorities, versions 0..4; deployment: 2 control directories, 2 archives; development server: 2 requests and the timer, serials to 3 | no open proposal has a decisive ballot, block verdicts hold, reputations are earned; the version floor holds; a guest runs the configuration it is measured with; answers, transfers and rows of the development server survive a crash |
| `tools` | driver: 2 connections, 1 datagram, 1 exchange; signer: 2 actions; server: 4 connections; evidence: 2 keys, images and policies; control: 3 uncommitted transactions; receipts: 3 services, 3 transactions; 2 provisioners, 2 installers; 2 key pairs, 3 payloads; anchors: 2 chains, 3 sequence numbers, cap 2 | one property per component, stated at the end of its module |

`service` and `tools` are sums: the parts share no variable, the first state
chooses one, and only that part moves. They check the parts side by side in one
run, and nothing about their interaction; a state count is the sum over the
parts. Each part's initial state is single, so the sum adds no combinations.

Bounds. Two registrations are enough to share an owner name and to differ in
everything else; no rule of the code relates three. The clock is long enough for
a lease to start, be renewed and lapse. Serial moduli of 1 and 3 make the
wrap-around happen (2^32 in the code; the modulus 1 in `leases` keeps serials,
which that run does not ask about, from multiplying states). Capacities are set
to the number of records the instance can produce or just below. In
`RequestLedger` two nonces let a request hold two at once, and four transactions
cover issue, issue, reject, execute; no rule relates two request ids but the
bounds of the nonce table, which one id with two nonces reaches. Registrations,
challenges, requests, their contents, nonces, drivers and the development
server's posts are interchangeable, so they are symmetric in safety runs; the
liveness runs use no symmetry, nor does `tools`. In the rollover runs the keys
suffice for a zone, a rollover and a second one after it; key and clock bounds
can stop `ksk_recovery`, which is why deadlock is not checked there. In
`SecondaryPeering` an age limit of one turn is enough for a row or a backlog to
be void before, while and after its answer travels; liveness with two peers is
affordable for one serial only, so that a peer is told of a second serial is not
shown. Of the two proposals of the vote one can change the voters of the other
or settle it, and their texts differ (section 5 says why that matters); settling
one proposal twice needs a third and is not reached. Two supervisors are one
that died and one that takes over; a supervisor that stopped stays stopped, and
so does a tool that ended, which is why `supervisor` and `tools` do not check
deadlock. In the timed parts (`HostDriver`, `CaptureSigner`, `CaptureServer`)
the limits keep their order and their ratios are shortened; the signer has as
many action slots as the instance has request ids, so a full table is not
reached. Two tasks of the
development server overlap in every way two can; the timer is a third.

Fairness. `FairSpec` assumes weak fairness of maintenance only. The driver's
`lifecycle` loop posts maintenance in every cycle, before anything else, and
catches its failures. The rollover runs assume the same of the governed
maintenance, and `ksk_recovery` that stewards replace refused commands. The
peering runs assume weak fairness of the driver's loop, of its worker threads
and of the end of each exchange (the socket has a timeout), and strong fairness
only where a delivery property needs that not every datagram and not every batch
is lost. In `peer_turns` rows age only between batches: the driver's constants (a
backlog is dropped at 240 s, an exchange takes at most seconds, a row lives
300 s) are taken to end an exchange before its row expires, which no run shows
yet. `supervisor` assumes that the processes are scheduled, that a node with an
identity writes it out, and strong fairness of a probe that succeeds: `supervise`
repeats it every 250 ms, and a running node answers again and again. That no
client request can make maintenance fail is `MaintenanceNeverBlocked`; governed
commands that are refused can delay it (`ksk_recovery`).

## 4. Proofs

Eight modules hold the proofs. Each theorem is about a specification that a run
checks too, and holds for every value of the constants that meets the named
assumptions of the module (`... Assumption`); TLC evaluates those on each run.
They say that sets without which a count has no meaning are finite, that marks
such as `None` or `NoKey` are not members of the sets they mark the absence of,
and that limits are natural numbers. Two theorems have a hypothesis of their
own, named and explained below. Every property of a passing run that is not a
liveness property is stated by a theorem.

| Module | Theorems, with the property of a run that each states |
|---|---|
| `LifecycleProofs` | `TablesCorrect` (`TablesExact`), `LeaseCorrect` (`LeaseBounded`), `NoResurrectionHolds` (`NoResurrection`), `MaintenanceNeverBlocked`, `SignableSubset` |
| `ContributionProofs` | `ContributionsCorrect` (`ContributionsExact`), `ActiveAlwaysServed` (`ActiveServed`), `MaintenanceAlwaysSettles` (`MaintenanceSettles`), `ReadsMatchMaintenance` (`ReadMatchesMaintenance`) |
| `RequestLedgerProofs` | `RequestsExecuteOnce` (`AtMostOnce`), `ClientsHearTheTruth` (`ToldSound`), `NonceTableCorrect` (`NoncesSound`), `WatermarkNeverFalls` (`WatermarkMonotone`), `LedgerImplementsOutcome` (`ImplementsOutcome`), `ReceiptsCorrect` (`ReceiptSound`) |
| `OperationsProofs` | `OutgoingKeyAlwaysOutlivesHold` (`OutgoingKeyOutlivesHold`), `KeysAlwaysAgree`, `MirrorAlwaysAgrees`, `RetiredKeysNeverReturn`, `ProcedureNeverRefused` (`NeverRefused`), `ChainAlwaysValidates` (`ChainOfTrust`), `HostsStayWhole` (`HostsWhole`), `DevServerCorrect` (`DevServerSound`), `TraceExportConfined` (`TraceConfined`) |
| `SecondaryPeeringProofs` | `OnePendingRowPerJob` (`RowsSound`), `StatusIsTrue` (`StatusTrue`), `OnlyGovernedPeersAreRecorded` (`OnlyGovernedPeersReport`) |
| `ServiceProofs` | `TrapdoorAlwaysDecisive` (`TrapdoorDecisive`), `ReputationAccounted` (`ReputationSound`), `BlockAlwaysHolds` (`BlockHolds`), `AnchorsCorrect` (`AnchorsSound`), `HostDriverCorrect` (`HostDriverSound`) |
| `HostProofs` | `NodesCorrect` (`NodesSound`), `DriversCorrect` (`DriverSound`), `ExitReaps` (`ExitReapsAll`), `ReleaseSignaturesCount` (`ReleaseSigned`), `PhasesCorrect` (`PhaseSound`), `FloorCorrect` (`FloorHolds`), `JoinPolicyOnlyAdvances`, `PolicyNeverChanges`, `DeploymentCorrect` (`DeploymentSound`) |
| `ToolsProofs` | `WorkerCorrect` (`WorkerSound`), `AppraisalCorrect` (`AppraisalSound`) |

Modules gather components that share no state: the last four, `OperationsProofs`,
and `RequestLedgerProofs`, whose last section is about receipts. Each component
has a section with its own invariant.

### Lifecycle
The counters that are updated by difference equal a recount, for any finite set
of contributions (`UsageAddExact`, `UsageRemoveExact`, `UsageShiftExact`). The
inductive invariant `Inv` has three parts:

- `RecordsInv`: types and finiteness of the records, exact counters, current
  snapshots, and `Signable`. Type correctness needs the exactness: a counter
  is a natural number after a subtraction only because it counted what goes.
- `RowsInv`: types of the tables, the exact and finite index, and the bound on
  challenge rows.
- `LeaseInv`: `LeaseBounded` in inductive form. The policy of a zone changes
  under a lease, so the invariant names the policy that the lease was last
  bounded by; with `PolicyIdentity` (governance never reuses a policy id for
  other contents) it is the current one whenever the ids agree. It also says
  that admission was not after the watermark.

The records change only through `StoreAndSign`, so one lemma per half serves
every action; then there is one lemma per action, and `InvStep` combines them.

`ContributionProofs` goes on from `Inv`. `ContributionsExact` is inductive
relative to it, argued by contributor: an operation changes what one contributor
owns, and the contributors of registrations, challenges and operators never
coincide. `ActiveServed` follows with the current snapshot. `MaintenanceSettles`
and `ReadMatchesMaintenance` are about one step: what maintenance ends is a
function of the rows and the time, and applying it twice ends nothing more.

### Requests
The argument is about histories. A rollback raises the view, so a position of
the history that is written again carries another view, and a transaction id
found in a history proves that everything before it is what it was when the id
was taken. The invariant says so of the store, of every response in flight
(`Held`: while the history has the transaction it waits for, it has the result
it reports) and of everything told; that a nonce is drawn once and issued in one
message; and that an effect removed the row of its nonce. `LedgerImplementsOutcome`
is the refinement: initial states map to initial states, and `StepMaps` takes
each action to a step of `RequestOutcome` or to a stutter. `RequestOutcome` has
no fairness, so this is the whole of the implication.

### Receipts
A verifier hashes from the leaf to the root along the path of the receipt. The
root over a service's first n transactions has the hash of the n-th on its right
(`RootEnds`), and so has what a verifier computes from any leaf along a path of
that service (`PathEnds`). A leaf carries what its service alone put there, so
two such hashes that agree are of one service (`EndsUnique`): a leaf and a path
from one service never add up to a root that another signed. With the
certificates (`EndorsedService`) that service is the trusted one or the one it
recovered from. The path is followed by a recursive function over its positions.
There is such a function for every length (`LoopExists`, by the least length
without one), hence the definition computes what it says (`LoopUnfolds`).

### Key rollover
The inductive invariant `IInv` adds to the properties that a zone not yet created
has neither an incoming key nor a rollover record, so a start drained together
with the creation finds nothing, and that the mirror of a zone with a waiting
command is where that command sent it: only then is the mirror right again once
the command is drained. The one action of substance is `Maintenance`;
`MaintenanceOfZone` says what it does to one zone per command.

For `RolloverValidation`, `ProcedureInv` says that every waiting command was, and
still is, what its zone is ready for; nothing is refused, whatever the holds.
`CacheInv` says what a resolver can still have: an RRset with the current key, and
with the incoming one unless the set expires before the hold ends; the parent's
DS, or the one before it until the parent's TTL has passed. The start of a
rollover needs the hypothesis `HoldsCoverTtl` of `ChainAlwaysValidates`: no hold is
shorter than the DNSKEY TTL. The default hold is not; an explicit one may be, and
`ksk_shorthold` shows what happens then.

### Peering
The id of new work is used nowhere. A driver holds at most one id per job, so
there are always generations left; hence an answer under way cannot match a row
that is issued now. The invariant adds that nothing recorded, served or under
way is ahead of the committed serial, and that an answer in a driver's hands is
true of the secondary. That a batch issues one row per job rests on `Ordered`: in a
finite set ordered by distinct places every number of predecessors occurs, which
makes the sorted jobs behind the cursor a sequence without repetition.

### Governance, releases, deployment, development server, anchors, traces
- Votes: settled proposals are closed, so no later ballot changes who was right;
  reputations are compared with the numbers of settled proposals won and lost.
  `BlockAlwaysHolds` has the hypothesis `OwnWordings`, that no two proposals have
  the same text: with two, the code finds the older one (section 5).
- Releases: before an authority is governed its version is 0, so that its first
  appointment cannot lower the floor.
- Deployment: what has been read so far is of the manifest the policy names, and
  a template's parameters are of one validated control directory.
- Development server: an open transaction is the lock holder's and current, a
  saved one is on disk, a released handler's result is on disk, and a copy of
  the secondary's row is true while it waits to be written back. The copy is
  why `RowTrue` holds although rows are overwritten.
- Anchors: the head's count is a cardinality, so the invariant carries that rows
  are finite and were anchored no later than now.
- Traces: the driver's environment is the one given beside the socket, and the
  exporter is on exactly if that environment validates.

### Host driver
Permits and open handlers add up for each listener: the invariant carries that
the holders of a listener are a finite set, and a handler that ends gives back
the permit of its own listener. `Timely` is `PermitBounded` in inductive form:
what a handler still waits for fits into the connection's deadline, or is the
one request to the enclave that may outlast it. The cache is a sequence of rows
that are backed, which every insertion preserves, the one that evicts the
oldest row included; a batch of work inserts a row for each item by a recursive
function, and `PutWorkBacked` follows it by the least item that would break it.

### Supervisors, installers, release tool, test phases
- A supervisor before its start has no node, the PID file names a node that ran,
  and a node seen dead stays dead; that last fact makes the removal of a PID file
  safe after the look at it. The lock is not needed for it: the node itself
  refuses to start over a PID file. Relative to this, `DriverInv` says that
  identities are only ever issued upwards, so what the supervisor remembers was
  read before the driver read its certificate; that a driver finds no socket
  under the name it binds; and what is behind a supervisor at each step of its
  shutdown.
- Installers: a file is only ever created, never overwritten, and stays until
  nobody provisions; so what a step has written is still there when the next one
  relies on it, and a passed marker stands for the steps before it.
- Test phases: the transaction a phase waits for is the last of all, so that once
  it commits nothing is left before or behind it; a renewal was executed on a
  registration; and `Establishes` says what each step of each kind of phase knows.

### Capture worker and appraisal
- Signer: for every envelope the service may still accept, the worker remembers
  that its action was signed and, for a challenge, owns it for the envelope's and
  the challenge's remaining life. The proof needs `Retention >= Window`, which
  the code's constants satisfy.
- Listeners: free slots and serving threads always add up; the operation a mail
  session waits for fits into what was left of the session.
- Appraisal: verdicts name the first check that fails. `LeastNumber`, from the
  well-foundedness of the natural numbers, says that there is a first; then each
  negative case of `check_native_appraisal.py` gets the error it expects, and
  the verifiers accept the same evidence. Along the tools, a peer that was
  appraised, audited or trusted is a guest of the governed release, whatever was
  written to the capture directory meanwhile.

### Only model-checked, only proved
Out of the prover's reach are all liveness properties: `EndedWithdrawn`,
`MaintenanceRecovers`, `PeersServed`, `DriverFollowsIdentity`. They stay with TLC.
So does what a recursive function computes for every input in general: the
library's induction theorems take an operator as a parameter and cannot be used.
For two fixed definitions, the path of a receipt and the rows of a batch, the
proofs argue by a least counterexample instead.

Only proved, and repeated by no run: `MaintenanceCanRun`, `KeysAgree`,
`MirrorAgrees`, and the action properties `RetiredKeysStayRetired`,
`JoinPolicyAdvances` and `PolicyImmutable`.

## 5. Where the code and its comments differ

`ksk_shorthold` states what `state.rs` says of the hold, "at least the DNSKEY TTL
plus propagation", and is violated: an explicit hold is taken as it is, from
600 s up, and one shorter than the DNSKEY TTL leaves a resolver with the old
RRset and the new DS. `ksk_chain` shows that a hold of at least the TTL suffices.

Other sentences that the code, and so the models, do not bear out; no run is kept
for them. In `constitution.js`:

- "abort: allowed while double-signing" (2111). An accepted `complete` that the
  application refuses leaves the mirror idle, and `Propose` then admits no abort
  until a `start` was accepted first.
- "the Open proposal whose recorded ballots match" (2355). `FoundId` is the first
  stored proposal with the same text, in any state, so of two proposals with one
  text a block verdict on the second does not hold it.
- "neither one veteran nor a flood of fresh joiners can carry a decision alone"
  (2278). With reputations 2, 1, 1 `Weights` is 1, 0, 0.
- "agents decide by reputation-weighted vote" (2277). Three agents at the minimum
  reputation have no weight at all, and nothing is decided without a trap door.
- "the accepted set is always what D last signed" (2038). The older actions on
  the join tables remain (`AdjustJoinTables`).

Elsewhere:

- `MAX_ANCHORS_PER_REGISTRATION` and its error "anchors per registration"
  (`anchors.rs` 28, 142): the count is kept per registration and subject.
- "JCS-equivalent canonical JSON" (`release_authority.py` 25): `json.dumps`
  escapes characters beyond ASCII and the constitution does not, so such a
  payload is refused whoever signed it (`ReleaseSigned` says so).
- The exemption of the registration in `_prune_lifecycle` (`capture_aci.py` 553)
  is never taken: only lifecycle actions have a deadline there.

## 6. Not modelled, and why

Cryptography (signatures, MACs, certificate chains, COSE), the byte-level codec,
AXFR packing, the NSEC3 chain and the request schema: each computes over the
bytes of one input and keeps no state; the repository tests them by vectors,
differential runs and fuzzing. Query answering is a read of a snapshot whose
currency `TablesExact` and `DevServerSound` state. Telemetry inside the node
(`telemetry.cpp`, `adns-telemetry`) may fail without effect. Smoke tests,
observers, metric collectors and summaries read and print; no property of
interest depends on them.

Within the modules:

- A configuration with a stale epoch or a watermark in the future fails governed
  maintenance as a whole, as a refused rollover command does; `liveness` assumes
  that governance does not keep it in that state.
- The bounds on the number of governed zones, transfer keys and policy identities
  (32, 512, 512) are left out: they refuse a proposal and change nothing else.
- CCF's rule for resolving a proposal again without a new ballot is unknown from
  this repository and not assumed.
- The components are not composed with one another beyond what a module names:
  `RequestLedger` takes the lifecycle's verdict as an input, and the tools see a
  service of their own.
- A `GET` of the development server reads the store directly and may report as
  `local_committed` what a crash then loses; and overlapping exchanges may write
  an older serial over a newer one. `RowTrue` says only that rows never claim
  what did not happen.
- `packaged_constitution.py`, command lines and temporary files.

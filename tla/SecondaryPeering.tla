-------------------------- MODULE SecondaryPeering --------------------------
(***************************************************************************)
(* Peering with the stock secondaries.  The enclave decides what is to be  *)
(* asked of which secondary (secondary_requests), persists it as pending   *)
(* work before the signed datagrams leave, and accepts an answer only      *)
(* against that row (secondary_response).  The untrusted host driver of    *)
(* each node moves datagrams: it fetches a batch when it has nothing left, *)
(* dispatches it over a bounded window and posts what comes back.          *)
(* Governance grants, re-scopes and revokes transfer identities meanwhile, *)
(* and zones are re-signed under new serials.                              *)
(*                                                                         *)
(* Time is relative: every pending row and every batch carries its age,    *)
(* which saturates at the limit the code compares it with.  A TSIG MAC is  *)
(* the identity of the work it answers.                                    *)
(***************************************************************************)
EXTENDS Naturals, FiniteSets, Sequences

CONSTANTS
    KeyNames, Zones, Endpoints, Drivers,
    EndpointOf,   \* the endpoint a key name is governed for, once and for all
    Scopes,       \* the zone lists proposals carry
    Served,       \* the zones that exist
    Rank,         \* the order of jobs: (key name, zone, kind)
    Freshness,    \* 300 s: age at which pending work is void
    DiscardAfter, \* 240 s: age at which a driver drops its backlog
    BatchLimit,   \* 256 work items per request
    Outstanding,  \* MAX_OUTSTANDING_EXCHANGES of a driver
    Workers,      \* SECONDARY_WORKERS of a driver
    MaxSerial     \* bound on serials; 0 stands for None

Kinds == {"notify", "soa"}
Jobs == KeyNames \X Zones \X Kinds

\* There are finitely many identities, zones and nodes.
ASSUME FiniteAssumption ==
    IsFiniteSet(KeyNames) /\ IsFiniteSet(Zones) /\ IsFiniteSet(Drivers)

ASSUME PeeringAssumption ==
    /\ EndpointOf \in [KeyNames -> Endpoints]
    /\ Scopes \subseteq (SUBSET Zones) \ {{}}
    /\ Served \subseteq Zones
    /\ Rank \in [Jobs -> 1 .. Cardinality(Jobs)]
    /\ \A i, j \in Jobs : i # j => Rank[i] # Rank[j]
    /\ {Freshness, DiscardAfter, BatchLimit, Outstanding, Workers, MaxSerial}
            \subseteq Nat \ {0}

VARIABLES
    transfer,  \* governance/transfer rows
    secret,    \* provisioned TSIG secrets: the zones each was provisioned for
    serial,    \* ZoneMetadata.serial
    pending,   \* secondary/pending rows
    cursor,    \* secondary/cursor, as a rank; 0 stands for absent
    status,    \* SecondaryStatus, per zone and endpoint
    driver,    \* per driver: backlog, futures and the age of the batch
    copy,      \* the serial of a zone each secondary serves
    heard      \* ghost: newest serial committed when a secondary got a NOTIFY

enclaveVars == <<transfer, secret, serial, pending, cursor, status>>
peerVars == <<copy, heard>>
vars == <<enclaveVars, driver, peerVars>>

Generations == 0 .. Cardinality(Drivers) + 1
Ids == Jobs \X Generations
Pendings == [id : Ids, age : 0 .. Freshness, serial : 1 .. MaxSerial]
Stages == {"queued", "sent", "answered"}
Exchanges == [id : Ids, stage : Stages, answer : 0 .. MaxSerial]

JobOf(id) == id[1]
KeyOf(job) == job[1]
ZoneOf(job) == job[2]
KindOf(job) == job[3]

NoTransfer == [zones |-> {}, revoked |-> FALSE]
NoStatus == [notified |-> 0, observed |-> 0]

TypeOK ==
    /\ transfer \in [KeyNames -> [zones : Scopes \cup {{}}, revoked : BOOLEAN]]
    /\ secret \in [KeyNames -> Scopes \cup {{}}]
    /\ serial \in [Zones -> 1 .. MaxSerial]
    /\ pending \subseteq Pendings
    /\ cursor \in 0 .. Cardinality(Jobs)
    /\ status \in [Zones \X Endpoints ->
                     [notified : 0 .. MaxSerial, observed : 0 .. MaxSerial]]
    /\ \A d \in Drivers :
          /\ driver[d].backlog \in Seq(Ids)
          /\ driver[d].futures \subseteq Exchanges
          /\ driver[d].age \in 0 .. DiscardAfter
    /\ copy \in [Zones \X Endpoints -> 0 .. MaxSerial]
    /\ heard \in [Zones \X Endpoints -> 0 .. MaxSerial]

Init ==
    /\ transfer = [k \in KeyNames |-> NoTransfer]
    /\ secret = [k \in KeyNames |-> {}]
    /\ serial = [z \in Zones |-> 1]
    /\ pending = {}
    /\ cursor = 0
    /\ status = [ze \in Zones \X Endpoints |-> NoStatus]
    /\ driver = [d \in Drivers |-> [backlog |-> <<>>, futures |-> {}, age |-> 0]]
    /\ copy = [ze \in Zones \X Endpoints |-> 0]
    /\ heard = [ze \in Zones \X Endpoints |-> 0]

-----------------------------------------------------------------------------
(* Governance and provisioning.                                            *)

\* adns_set_transfer: a revoked identity is refused for good; endpoint and
\* secret digest are those of the key name, the zones may change.
SetTransfer(k, zs) ==
    /\ ~transfer[k].revoked
    /\ transfer' = [transfer EXCEPT ![k].zones = zs]
    /\ UNCHANGED <<secret, serial, pending, cursor, status, driver, peerVars>>

RevokeTransfer(k) ==
    /\ transfer[k].zones # {}
    /\ transfer' = [transfer EXCEPT ![k].revoked = TRUE]
    /\ UNCHANGED <<secret, serial, pending, cursor, status, driver, peerVars>>

Active(k) == transfer[k].zones # {} /\ ~transfer[k].revoked

\* provision_transfer_key: installed once, for the zones governed then; a
\* repetition is acknowledged and changes nothing, a different one refused.
ProvisionTransferKey(k) ==
    /\ Active(k)
    /\ secret[k] = {}
    /\ secret' = [secret EXCEPT ![k] = transfer[k].zones]
    /\ UNCHANGED <<transfer, serial, pending, cursor, status, driver, peerVars>>

\* governed_transfer_key succeeds.
UsableKey(k) == Active(k) /\ secret[k] # {} /\ transfer[k].zones \subseteq secret[k]

\* Any transaction that re-signs the zone.
Resign(z) ==
    /\ z \in Served
    /\ serial[z] < MaxSerial
    /\ serial' = [serial EXCEPT ![z] = @ + 1]
    /\ UNCHANGED <<transfer, secret, pending, cursor, status, driver, peerVars>>

-----------------------------------------------------------------------------
(* secondary_requests.                                                     *)

StatusKey(job) == <<ZoneOf(job), EndpointOf[KeyOf(job)]>>

InScope(job) == Active(KeyOf(job)) /\ ZoneOf(job) \in transfer[KeyOf(job)].zones

\* Rows that are not reaped.
Live == {p \in pending : InScope(JobOf(p.id)) /\ p.age < Freshness}

\* Faulty variant: work still outstanding is issued again.
OutstandingJobs_None == {}

\* Work whose datagram is already out and may still be answered.
OutstandingJobs == {JobOf(p.id) : p \in Live}

CandidateJobs ==
    {j \in Jobs : InScope(j) /\ secret[KeyOf(j)] # {}} \ OutstandingJobs

\* Faulty variant: the cursor is ignored and every batch starts at the front.
Place_NoCursor(j) == Rank[j]

\* Position of a job once the sorted jobs are rotated behind the cursor.
Place(j) == IF Rank[j] > cursor THEN Rank[j] - cursor
                                ELSE Rank[j] + Cardinality(Jobs) - cursor

\* SOA challenges always; a NOTIFY only of a serial not yet acknowledged.
Owed(j) == KindOf(j) = "soa" \/ status[StatusKey(j)].notified # serial[ZoneOf(j)]

\* The jobs the loop looks at before the batch is full, skipped ones included.
Examined ==
    LET candidates == CandidateJobs
    IN  {j \in candidates :
            Cardinality({i \in candidates : Place(i) < Place(j) /\ Owed(i)}) < BatchLimit}

\* The work a driver holds.
HeldIds(d) ==
    {x.id : x \in driver[d].futures} \cup {driver[d].backlog[i] : i \in DOMAIN driver[d].backlog}

IdsInUse == {p.id : p \in pending} \cup UNION {HeldIds(d) : d \in Drivers}

\* Faulty variant: the work id is a function of the job.
FreshId_JobName(j) == <<j, 0>>

\* The random work id: one that is used nowhere.
FreshId(j) == CHOOSE id \in ({j} \X Generations) \ IdsInUse : TRUE

\* The batch, in the order of the loop.
Batch ==
    LET issued == {j \in Examined : Owed(j)}
    IN  [i \in 1 .. Cardinality(issued) |->
            FreshId(CHOOSE j \in issued :
                        Cardinality({h \in issued : Place(h) < Place(j)}) = i - 1)]

\* Every provisioned, unrevoked key must match its governance, and every zone
\* examined must exist, or the whole request fails.
RequestsAccepted ==
    /\ \A k \in KeyNames : (Active(k) /\ secret[k] # {}) => UsableKey(k)
    /\ \A j \in Examined : ZoneOf(j) \in Served

\* Faulty variant: the cursor advances by the number of jobs examined, unwrapped.
SecondaryRequests_CountingCursor(batch) ==
    /\ RequestsAccepted
    /\ pending' = Live \cup {[id |-> batch[i], age |-> 0,
                              serial |-> serial[ZoneOf(JobOf(batch[i]))]] :
                             i \in DOMAIN batch}
    /\ cursor' = cursor + Cardinality(Examined)
    /\ UNCHANGED <<transfer, secret, serial, status>>

SecondaryRequests(batch) ==
    /\ RequestsAccepted
    /\ pending' = Live \cup {[id |-> batch[i], age |-> 0,
                              serial |-> serial[ZoneOf(JobOf(batch[i]))]] :
                             i \in DOMAIN batch}
    /\ LET examined == Examined
       IN  cursor' = IF examined = {} THEN cursor
                     ELSE Rank[CHOOSE j \in examined :
                                  \A i \in examined : Place(i) <= Place(j)]
    /\ UNCHANGED <<transfer, secret, serial, status>>

-----------------------------------------------------------------------------
(* The host driver's loop and its exchanges.                               *)

\* The backlog, unless it is too old.  A future that is done is not kept here:
\* every cycle reaps those first, before it looks at the others.
Kept(d) == IF driver[d].age >= DiscardAfter THEN <<>> ELSE driver[d].backlog

Smaller(a, b) == IF a <= b THEN a ELSE b

\* The driver after its dispatch loop.  The age is that of a backlog: it has
\* none when there is nothing left.
Dispatched(backlog, futures, age) ==
    LET n == Smaller(Len(backlog), Outstanding - Cardinality(futures))
    IN  [backlog |-> SubSeq(backlog, n + 1, Len(backlog)),
         futures |-> futures \cup {[id |-> backlog[i], stage |-> "queued", answer |-> 0] :
                                   i \in 1 .. n},
         age |-> IF n = Len(backlog) THEN 0 ELSE age]

\* A cycle that fetches work: everything fetched before is finished or dropped.
CycleWithRequest(d) ==
    /\ Kept(d) = <<>> /\ driver[d].futures = {}
    /\ \E batch \in {Batch} :
          /\ SecondaryRequests(batch)
          /\ driver' = [driver EXCEPT ![d] = Dispatched(batch, {}, 0)]
    /\ UNCHANGED peerVars

\* The same, but the committed answer does not reach the driver.
CycleWithLostRequest(d) ==
    /\ Kept(d) = <<>> /\ driver[d].futures = {}
    /\ \E batch \in {Batch} : SecondaryRequests(batch)
    /\ driver' = [driver EXCEPT ![d] = [backlog |-> <<>>, futures |-> {}, age |-> 0]]
    /\ UNCHANGED peerVars

\* A cycle with work left, or whose request fails: reaping and dispatch only.
CycleWithoutRequest(d) ==
    /\ (Kept(d) = <<>> /\ driver[d].futures = {}) => ~RequestsAccepted
    /\ driver' = [driver EXCEPT ![d] = Dispatched(Kept(d), driver[d].futures, @.age)]
    /\ UNCHANGED <<enclaveVars, peerVars>>

Restart(d) ==
    /\ driver' = [driver EXCEPT ![d] = [backlog |-> <<>>, futures |-> {}, age |-> 0]]
    /\ UNCHANGED <<enclaveVars, peerVars>>

Advance(d, x, stage, answer) ==
    driver' = [driver EXCEPT ![d].futures =
                 (@ \ {x}) \cup {[x EXCEPT !.stage = stage, !.answer = answer]}]

Finish(d, x) == driver' = [driver EXCEPT ![d].futures = @ \ {x}]

Running(d) == {x \in driver[d].futures : x.stage \in {"sent", "answered"}}

Send(d, x) ==
    /\ x.stage = "queued"
    /\ Cardinality(Running(d)) < Workers
    /\ Advance(d, x, "sent", 0)
    /\ UNCHANGED <<enclaveVars, peerVars>>

\* The secondary receives the datagram and its answer reaches the driver.
Answer(d, x) ==
    LET ze == StatusKey(JobOf(x.id))
    IN  /\ x.stage = "sent"
        /\ Advance(d, x, "answered", copy[ze])
        /\ heard' = IF KindOf(JobOf(x.id)) = "notify"
                    THEN [heard EXCEPT ![ze] = serial[ze[1]]] ELSE heard
        /\ UNCHANGED <<enclaveVars, copy>>

\* Nothing comes back in time.
Lose(d, x) ==
    /\ x.stage = "sent"
    /\ Finish(d, x)
    /\ UNCHANGED <<enclaveVars, peerVars>>

-----------------------------------------------------------------------------
(* secondary_response.                                                     *)

\* Faulty variant: the grant is not looked at again when the answer arrives.
Acceptable_NoGrant(p) == p.age < Freshness

Acceptable(p) ==
    /\ p.age < Freshness
    /\ InScope(JobOf(p.id))
    /\ UsableKey(KeyOf(JobOf(p.id)))

\* Faulty variant: a SOA answer is taken to confirm the serial that was asked for.
StatusAfter_Asked(p, answer) ==
    IF KindOf(JobOf(p.id)) = "notify"
    THEN [status[StatusKey(JobOf(p.id))] EXCEPT !.notified = p.serial]
    ELSE [status[StatusKey(JobOf(p.id))] EXCEPT !.observed = p.serial]

StatusAfter(p, answer) ==
    IF KindOf(JobOf(p.id)) = "notify"
    THEN [status[StatusKey(JobOf(p.id))] EXCEPT !.notified = p.serial]
    ELSE [status[StatusKey(JobOf(p.id))] EXCEPT !.observed = answer]

\* The driver posts the answer.  A SOA answer without a SOA record (a
\* secondary that has no copy yet) is refused, and then the row stays.
Post(d, x) ==
    /\ x.stage = "answered"
    /\ Finish(d, x)
    /\ \/ \E p \in pending :
            /\ p.id = x.id
            /\ Acceptable(p)
            /\ KindOf(JobOf(p.id)) = "soa" => x.answer # 0
            /\ pending' = pending \ {p}
            /\ status' = [status EXCEPT ![StatusKey(JobOf(p.id))] = StatusAfter(p, x.answer)]
       \/ /\ \A p \in pending :
               p.id = x.id => \/ ~Acceptable(p)
                              \/ KindOf(JobOf(p.id)) = "soa" /\ x.answer = 0
          /\ UNCHANGED <<pending, status>>
    /\ UNCHANGED <<transfer, secret, serial, cursor, peerVars>>

-----------------------------------------------------------------------------
(* The secondary, and time.                                                *)

\* A zone transfer: transfer_messages requires an active identity and the zone
\* in both the provisioned and the governed scope.
Axfr(k, z) ==
    /\ Active(k)
    /\ z \in secret[k] \cap transfer[k].zones \cap Served
    /\ copy' = [copy EXCEPT ![<<z, EndpointOf[k]>>] = serial[z]]
    /\ UNCHANGED <<enclaveVars, driver, heard>>

Tick ==
    /\ pending' = {[p EXCEPT !.age = Smaller(@ + 1, Freshness)] : p \in pending}
    /\ driver' = [d \in Drivers |->
                    IF driver[d].backlog = <<>> THEN driver[d]
                    ELSE [driver[d] EXCEPT !.age = Smaller(@ + 1, DiscardAfter)]]
    /\ UNCHANGED <<transfer, secret, serial, cursor, status, peerVars>>

Govern ==
    \/ \E k \in KeyNames, zs \in Scopes : SetTransfer(k, zs)
    \/ \E k \in KeyNames : RevokeTransfer(k)
    \/ \E k \in KeyNames : ProvisionTransferKey(k)

Drive(d) ==
    \/ CycleWithRequest(d)
    \/ CycleWithLostRequest(d)
    \/ CycleWithoutRequest(d)
    \/ Restart(d)
    \/ \E x \in driver[d].futures :
          Send(d, x) \/ Answer(d, x) \/ Lose(d, x) \/ Post(d, x)

Next ==
    \/ Govern
    \/ \E z \in Zones : Resign(z)
    \/ \E d \in Drivers : Drive(d)
    \/ \E k \in KeyNames, z \in Zones : Axfr(k, z)
    \/ Tick

Spec == Init /\ [][Next]_vars

-----------------------------------------------------------------------------
(* Settled peering, for liveness: every identity is governed and           *)
(* provisioned, governance is quiet and the drivers stay up; requests and  *)
(* datagrams are still lost and zones still change.                        *)

SettledInit ==
    /\ transfer = [k \in KeyNames |-> [zones |-> Served, revoked |-> FALSE]]
    /\ secret = [k \in KeyNames |-> Served]
    /\ serial = [z \in Zones |-> 1]
    /\ pending = {}
    /\ cursor = 0
    /\ status = [ze \in Zones \X Endpoints |-> NoStatus]
    /\ driver = [d \in Drivers |-> [backlog |-> <<>>, futures |-> {}, age |-> 0]]
    /\ copy = [ze \in Zones \X Endpoints |-> 0]
    /\ heard = [ze \in Zones \X Endpoints |-> 0]

SettledDrive(d) ==
    \/ CycleWithRequest(d)
    \/ CycleWithLostRequest(d)
    \/ CycleWithoutRequest(d)
    \/ \E x \in driver[d].futures :
          Send(d, x) \/ Answer(d, x) \/ Lose(d, x) \/ Post(d, x)

SettledStep ==
    \/ \E z \in Zones : Resign(z)
    \/ \E d \in Drivers : SettledDrive(d)
    \/ \E k \in KeyNames, z \in Zones : Axfr(k, z)

\* A batch in hand is exchanged in far less than Freshness seconds.
PromptTick ==
    /\ \A d \in Drivers : driver[d].backlog = <<>> /\ driver[d].futures = {}
    /\ Tick

PromptNext == SettledStep \/ PromptTick

\* The driver's loop runs every few seconds, its worker threads are scheduled,
\* and each exchange ends with an answer or the socket's timeout.
LoopFairness ==
    \A d \in Drivers :
        /\ WF_vars(CycleWithRequest(d) \/ CycleWithLostRequest(d) \/ CycleWithoutRequest(d))
        /\ WF_vars(\E x \in driver[d].futures : Send(d, x))
        /\ WF_vars(\E x \in driver[d].futures : Answer(d, x) \/ Lose(d, x))
        /\ WF_vars(\E x \in driver[d].futures : Post(d, x))

\* The network delivers what is retried often enough: for each peer a batch with
\* its NOTIFY reaches some driver, and a NOTIFY sent to it is answered.
NotifyFairness ==
    \A j \in KeyNames \X Served \X {"notify"} :
        /\ SF_vars(\E d \in Drivers : j \in Examined /\ Owed(j) /\ CycleWithRequest(d))
        /\ SF_vars(\E d \in Drivers : \E x \in driver[d].futures :
                      JobOf(x.id) = j /\ Answer(d, x))

DeliverySpec ==
    /\ SettledInit /\ [][PromptNext]_vars /\ SF_vars(PromptTick)
    /\ LoopFairness /\ NotifyFairness

-----------------------------------------------------------------------------
(* Properties.                                                             *)

\* At most one pending row per secondary, zone and kind, however many drivers
\* ask, crash and ask again: an offline secondary never makes the table grow.
OneRowPerJob == \A p, q \in pending : JobOf(p.id) = JobOf(q.id) => p = q

\* A serial recorded as notified was committed before the secondary received
\* the NOTIFY that was acknowledged; so the NOTIFY of a newer serial is never
\* skipped on the strength of an answer to an older one, even when that answer
\* arrives after the row was reaped and the job issued again.
NotifiedWasHeard ==
    \A ze \in Zones \X Endpoints : status[ze].notified <= heard[ze]

\* A zone reported in sync on a secondary is in sync there: an observed serial
\* was served by it, whatever re-signing happened between question and answer.
ObservedWasServed ==
    \A ze \in Zones \X Endpoints : status[ze].observed <= copy[ze]

\* What the status of a zone says about a secondary is true of that secondary.
StatusTrue == NotifiedWasHeard /\ ObservedWasServed

\* The tables have their types, and the pending one keeps one row for each job.
RowsSound == TypeOK /\ OneRowPerJob

\* Whatever was asked earlier, a zone's status for an endpoint changes only
\* while an unrevoked identity of that endpoint is governed and provisioned for
\* that zone: revocation and narrowing take effect on answers in flight.
OnlyGovernedPeersReport ==
    [][\A ze \in Zones \X Endpoints :
        status'[ze] # status[ze] =>
            \E k \in KeyNames : /\ EndpointOf[k] = ze[2]
                                /\ UsableKey(k)
                                /\ ze[1] \in transfer[k].zones]_vars

\* No secondary is starved by those before it: every zone of every secondary is
\* challenged for its SOA again and again, though a batch holds only BatchLimit
\* items and answers may never come.
EveryPeerChallenged ==
    \A j \in KeyNames \X Served \X {"soa"} :
        []<>(\E p \in pending : JobOf(p.id) = j /\ p.age = 0)

\* Every secondary is eventually notified of the newest serial, through lost
\* batches, lost datagrams and expired rows.
NotifyDelivered ==
    \A ze \in Served \X Endpoints : []<>(status[ze].notified = serial[ze[1]])

\* Neither challenges nor notifications starve.
PeersServed == EveryPeerChallenged /\ NotifyDelivered

=============================================================================

----------------------------- MODULE Supervisor -----------------------------
(***************************************************************************)
(* The supervisor of one state directory (ccf/run.py).  A supervisor takes *)
(* the directory's lock, retires a stale PID file, starts the CCF node     *)
(* and, once the node answers under the certificate on disk, the host      *)
(* driver.  A certificate that changes makes it replace the driver; a      *)
(* child that exits, a refused provisioning or a signal makes it stop and  *)
(* reap both.  A supervisor may itself be killed at any point: the lock is *)
(* released then and its children live on, while another one is started.   *)
(*                                                                         *)
(* Each member of Supervisors is one incarnation.  It starts at most one   *)
(* node, so the node and its PID carry the supervisor's name.              *)
(***************************************************************************)
EXTENDS Naturals, FiniteSets

CONSTANTS
    Supervisors,  \* supervisor processes, each started once
    None,         \* no process
    MaxIdentity   \* bound on service identities; 0 stands for no certificate

ASSUME SupervisorAssumption ==
    /\ None \notin Supervisors
    /\ MaxIdentity \in Nat \ {0}

VARIABLES
    sup,         \* per supervisor: where it is, and what supervise() remembers
    lock,        \* holder of .agentdns-supervisor.lock
    pid_file,    \* whose node the PID file names
    reused,      \* PIDs of dead nodes now owned by an unrelated process
    node,        \* the CCF nodes
    served,      \* the identity each node's TLS listener answers with
    cert_file,   \* the identity in service_certificate_file
    issued,      \* the newest service identity
    driver,      \* the host drivers
    port,        \* whose driver listens on the DNS port
    trace_sock,  \* spans.sock in the supervisor's telemetry directory
    installed    \* the enclave has committed the transfer secret

nodeVars == <<pid_file, node, served, cert_file, issued>>
driverVars == <<driver, port, trace_sock>>
vars == <<sup, lock, reused, nodeVars, driverVars, installed>>

Loop == {"loop", "retire", "reap", "probe", "start", "provision", "poll"}
Stopping == {"stop", "wait_driver", "wait_node", "cleanup"}
Running == Loop \cup Stopping
Phases == {"new", "inspect", "unlink", "spawn", "exited", "killed"} \cup Running

NoDriver == [state |-> "none", ca |-> 0, tracing |-> FALSE, told |-> FALSE]

\* A supervisor that remembers nothing of a service.
At(pc) == [pc |-> pc, seen |-> None, identity |-> 0, driver_identity |-> 0,
           provisioned |-> FALSE, stopping |-> FALSE]

TypeOK ==
    /\ sup \in [Supervisors -> [pc : Phases,
                                seen : Supervisors \cup {None},
                                identity : 0 .. MaxIdentity,
                                driver_identity : 0 .. MaxIdentity,
                                provisioned : BOOLEAN,
                                stopping : BOOLEAN]]
    /\ lock \in Supervisors \cup {None}
    /\ pid_file \in Supervisors \cup {None}
    /\ reused \subseteq Supervisors
    /\ node \in [Supervisors -> {"none", "starting", "running", "exited"}]
    /\ served \in [Supervisors -> 0 .. MaxIdentity]
    /\ {cert_file, issued} \subseteq 0 .. MaxIdentity
    /\ driver \in [Supervisors -> [state : {"none", "starting", "opening", "up", "closing", "exited"},
                                   ca : 0 .. MaxIdentity, tracing : BOOLEAN, told : BOOLEAN]]
    /\ port \in Supervisors \cup {None}
    /\ trace_sock \in [Supervisors -> {"absent", "live", "stale"}]
    /\ installed \in BOOLEAN

\* A state directory an earlier service was run in: its certificate may be there.
Init ==
    /\ sup = [s \in Supervisors |-> At("new")]
    /\ lock = None
    /\ pid_file = None
    /\ reused = {}
    /\ node = [s \in Supervisors |-> "none"]
    /\ served = [s \in Supervisors |-> 0]
    /\ issued \in {0, 1}
    /\ cert_file = issued
    /\ driver = [s \in Supervisors |-> NoDriver]
    /\ port = None
    /\ trace_sock = [s \in Supervisors |-> "absent"]
    /\ installed = FALSE

NodeAlive(s) == node[s] \in {"starting", "running"}
DriverAlive(s) == driver[s].state \in {"starting", "opening", "up", "closing"}

Goto(s, pc) == sup' = [sup EXCEPT ![s].pc = pc]

-----------------------------------------------------------------------------
(* ccf_pid_guard and retire_stale_pid.                                     *)

\* Another supervisor that owns the directory makes this one give up.
Acquire(s) ==
    /\ sup[s].pc = "new"
    /\ IF lock = None THEN lock' = s /\ Goto(s, "inspect")
                      ELSE lock' = lock /\ Goto(s, "exited")
    /\ UNCHANGED <<reused, nodeVars, driverVars, installed>>

\* os.kill(pid, 0) succeeds: the node lives, or something else has its PID.
PidInUse(s) == NodeAlive(s) \/ s \in reused

\* Faulty variant: the process is not looked for.
Inspect_AnyPid(s) ==
    /\ sup[s].pc = "inspect"
    /\ sup' = [sup EXCEPT ![s].pc = IF pid_file = None THEN "spawn" ELSE "unlink",
                          ![s].seen = pid_file]
    /\ UNCHANGED <<lock, reused, nodeVars, driverVars, installed>>

Inspect(s) ==
    /\ sup[s].pc = "inspect"
    /\ IF pid_file # None /\ PidInUse(pid_file)
       THEN lock' = None /\ Goto(s, "exited")
       ELSE /\ sup' = [sup EXCEPT ![s].pc = IF pid_file = None THEN "spawn" ELSE "unlink",
                                  ![s].seen = pid_file]
            /\ lock' = lock
    /\ UNCHANGED <<reused, nodeVars, driverVars, installed>>

\* Only the file that was inspected is removed.
UnlinkStale(s) ==
    /\ sup[s].pc = "unlink"
    /\ IF pid_file = sup[s].seen
       THEN pid_file' = None /\ lock' = lock /\ sup' = [sup EXCEPT ![s] = At("spawn")]
       ELSE pid_file' = pid_file /\ lock' = None /\ sup' = [sup EXCEPT ![s] = At("exited")]
    /\ UNCHANGED <<reused, node, served, cert_file, issued, driverVars, installed>>

\* supervise(): the telemetry directory is new, then the node is started.
SpawnNode(s) ==
    /\ sup[s].pc = "spawn"
    /\ node' = [node EXCEPT ![s] = "starting"]
    /\ Goto(s, "loop")
    /\ UNCHANGED <<lock, reused, pid_file, served, cert_file, issued, driverVars, installed>>

-----------------------------------------------------------------------------
(* One pass of supervise()'s loop.                                         *)

\* while node.poll() is None and not stopping
Goes(s) == NodeAlive(s) /\ ~sup[s].stopping

\* Faulty variant: a driver once started is never replaced.
LoopTop_KeepDriver(s) ==
    /\ sup[s].pc = "loop"
    /\ sup' = [sup EXCEPT
         ![s].identity = cert_file,
         ![s].pc = IF ~Goes(s) THEN "stop"
                   ELSE IF cert_file = 0 THEN "poll"
                   ELSE IF driver[s].state = "none" THEN "probe" ELSE "provision"]
    /\ UNCHANGED <<lock, reused, nodeVars, driverVars, installed>>

\* A pass begins: read the certificate, and decide whether the driver fits it.
LoopTop(s) ==
    /\ sup[s].pc = "loop"
    /\ \/ ~Goes(s) /\ Goto(s, "stop")
       \/ Goes(s) /\ cert_file = 0 /\ Goto(s, "poll")
       \/ /\ Goes(s) /\ cert_file # 0
          /\ IF driver[s].state # "none" /\ cert_file = sup[s].driver_identity
             THEN Goto(s, "provision")
             ELSE sup' = [sup EXCEPT ![s].identity = cert_file,
                                     ![s].pc = IF driver[s].state = "none" THEN "probe"
                                                                           ELSE "retire"]
    /\ UNCHANGED <<lock, reused, nodeVars, driverVars, installed>>

Terminate(s) ==
    driver' = [driver EXCEPT ![s].told = @ \/ DriverAlive(s)]

RetireDriver(s) ==
    /\ sup[s].pc = "retire"
    /\ Terminate(s)
    /\ Goto(s, "reap")
    /\ UNCHANGED <<lock, reused, nodeVars, port, trace_sock, installed>>

\* wait(timeout=15) returned, or the driver was killed: its sockets are closed
\* by the kernel, and a trace socket it had bound keeps its name.
Reaped(s) ==
    /\ driver' = [driver EXCEPT ![s] = [NoDriver EXCEPT !.state = "exited"]]
    /\ port' = IF port = s THEN None ELSE port

\* retire_trace_socket: the driver is dead and nobody listens on the name.
TraceSocketRetired(s) == trace_sock' = [trace_sock EXCEPT ![s] = "absent"]

\* Faulty variant: the retired driver's socket name is left behind.
ReapDriver_KeepSocket(s) ==
    /\ sup[s].pc = "reap"
    /\ driver' = [driver EXCEPT ![s] = NoDriver]
    /\ port' = IF port = s THEN None ELSE port
    /\ trace_sock' = [trace_sock EXCEPT ![s] = IF @ = "live" THEN "stale" ELSE @]
    /\ sup' = [sup EXCEPT ![s].pc = "probe", ![s].driver_identity = 0,
                          ![s].provisioned = FALSE]
    /\ UNCHANGED <<lock, reused, nodeVars, installed>>

ReapDriver(s) ==
    /\ sup[s].pc = "reap"
    /\ driver' = [driver EXCEPT ![s] = NoDriver]
    /\ port' = IF port = s THEN None ELSE port
    /\ TraceSocketRetired(s)
    /\ sup' = [sup EXCEPT ![s].pc = "probe", ![s].driver_identity = 0,
                          ![s].provisioned = FALSE]
    /\ UNCHANGED <<lock, reused, nodeVars, installed>>

\* bounded_http verifies the listener against the file as it is by now.
Authenticated(s) == node[s] = "running" /\ cert_file # 0 /\ served[s] = cert_file

\* SocketDeadline ends a request that is not answered in time, however slowly its
\* bytes come; it is tried again in a later pass.
Unanswered(s) == sup' = [sup EXCEPT ![s].pc = "provision", ![s].identity = 0]

\* GET /node/state.
Probe(s) ==
    /\ sup[s].pc = "probe"
    /\ \/ Authenticated(s) /\ Goto(s, "start")
       \/ Unanswered(s)
    /\ UNCHANGED <<lock, reused, nodeVars, driverVars, installed>>

\* The identity remembered is the one read at the top of the pass.
StartDriver(s) ==
    /\ sup[s].pc = "start"
    /\ driver' = [driver EXCEPT ![s] = [NoDriver EXCEPT !.state = "starting"]]
    /\ sup' = [sup EXCEPT ![s].pc = "provision", ![s].identity = 0,
                          ![s].driver_identity = sup[s].identity]
    /\ UNCHANGED <<lock, reused, nodeVars, port, trace_sock, installed>>

\* provision_transfer_secret: a request or an answer that is lost, a governance
\* decision not yet taken or a frontend not yet open leave it to a later pass; a
\* refusal stops the supervisor.
Provision(s) ==
    /\ sup[s].pc = "provision"
    /\ \/ /\ driver[s].state # "none" /\ ~sup[s].provisioned /\ Authenticated(s)
          /\ installed' = TRUE
          /\ \E answered \in BOOLEAN :
                sup' = [sup EXCEPT ![s].pc = "poll", ![s].provisioned = answered]
       \/ /\ driver[s].state # "none" /\ ~sup[s].provisioned /\ Authenticated(s)
          /\ Goto(s, "stop")
          /\ UNCHANGED installed
       \/ Goto(s, "poll") /\ UNCHANGED installed
    /\ UNCHANGED <<lock, reused, nodeVars, driverVars>>

\* Faulty variant: the certificate is hashed again once the driver is started.
Poll_Rehash(s) ==
    /\ sup[s].pc = "poll"
    /\ sup' = [sup EXCEPT
         ![s].pc = IF driver[s].state = "exited" THEN "stop" ELSE "loop",
         ![s].driver_identity = IF driver[s].state = "none" THEN @ ELSE cert_file]
    /\ UNCHANGED <<lock, reused, nodeVars, driverVars, installed>>

\* driver.poll(): a driver that exited by itself ends the supervision.
Poll(s) ==
    /\ sup[s].pc = "poll"
    /\ Goto(s, IF driver[s].state = "exited" THEN "stop" ELSE "loop")
    /\ UNCHANGED <<lock, reused, nodeVars, driverVars, installed>>

-----------------------------------------------------------------------------
(* stop(), the finally blocks, and death.                                  *)

\* SIGTERM or SIGINT: the handler terminates the children there are, and the
\* pass under way goes on to its end: it may still start a driver.
Signal(s) ==
    /\ sup[s].pc \in Loop /\ ~sup[s].stopping
    /\ Terminate(s)
    /\ sup' = [sup EXCEPT ![s].stopping = TRUE]
    /\ UNCHANGED <<lock, reused, nodeVars, port, trace_sock, installed>>

Stop(s) ==
    /\ sup[s].pc = "stop"
    /\ Terminate(s)
    /\ sup' = [sup EXCEPT ![s] = At("wait_driver")]
    /\ UNCHANGED <<lock, reused, nodeVars, port, trace_sock, installed>>

\* Faulty variant: a driver that does not exit in 15 seconds is left running.
WaitDriver_NoKill(s) ==
    /\ sup[s].pc = "wait_driver"
    /\ Goto(s, "wait_node")
    /\ UNCHANGED <<lock, reused, nodeVars, driverVars, installed>>

WaitDriver(s) ==
    /\ sup[s].pc = "wait_driver"
    /\ IF DriverAlive(s)
       THEN /\ Reaped(s)
            /\ trace_sock' = [trace_sock EXCEPT ![s] = IF @ = "live" THEN "stale" ELSE @]
       ELSE UNCHANGED driverVars
    /\ Goto(s, "wait_node")
    /\ UNCHANGED <<lock, reused, nodeVars, installed>>

\* The node exited within 15 seconds and removed its PID file, or was killed.
NodeGone(s) ==
    /\ node' = [node EXCEPT ![s] = "exited"]
    /\ served' = [served EXCEPT ![s] = 0]
    /\ \/ pid_file' = IF pid_file = s THEN None ELSE pid_file
       \/ UNCHANGED pid_file
    /\ UNCHANGED <<cert_file, issued>>

WaitNode(s) ==
    /\ sup[s].pc = "wait_node"
    /\ IF NodeAlive(s) THEN NodeGone(s) ELSE UNCHANGED nodeVars
    /\ Goto(s, "cleanup")
    /\ UNCHANGED <<lock, reused, driverVars, installed>>

\* The end of ccf_pid_guard: the PID file goes if it names nobody, then the lock.
GuardExits ==
    /\ pid_file' = IF pid_file # None /\ ~PidInUse(pid_file) THEN None ELSE pid_file
    /\ lock' = None

\* The trace socket and its directory, then the guard.
Cleanup(s) ==
    /\ sup[s].pc = "cleanup"
    /\ TraceSocketRetired(s)
    /\ GuardExits
    /\ Goto(s, "exited")
    /\ UNCHANGED <<reused, node, served, cert_file, issued, driver, port, installed>>

\* Killed, or a signal before the handlers are installed.
Kill(s) ==
    /\ sup[s].pc \notin {"new", "exited", "killed"}
    /\ lock' = IF lock = s THEN None ELSE lock
    /\ sup' = [sup EXCEPT ![s] = At("killed")]
    /\ UNCHANGED <<reused, nodeVars, driverVars, installed>>

-----------------------------------------------------------------------------
(* The CCF node, as the supervisor relies on it.                           *)

\* It refuses to start over an existing PID file.
NodeStart(s) ==
    /\ node[s] = "starting"
    /\ IF pid_file = None
       THEN pid_file' = s /\ node' = [node EXCEPT ![s] = "running"]
       ELSE pid_file' = pid_file /\ node' = [node EXCEPT ![s] = "exited"]
    /\ UNCHANGED <<sup, lock, reused, served, cert_file, issued, driverVars, installed>>

\* A new service, or a recovered one, has a new identity.
NodeIdentity(s) ==
    /\ node[s] = "running"
    /\ issued < MaxIdentity
    /\ issued' = issued + 1
    /\ served' = [served EXCEPT ![s] = issued + 1]
    /\ UNCHANGED <<sup, lock, reused, pid_file, node, cert_file, driverVars, installed>>

NodeWritesCertificate(s) ==
    /\ node[s] = "running" /\ served[s] # 0
    /\ cert_file # served[s]
    /\ cert_file' = served[s]
    /\ UNCHANGED <<sup, lock, reused, pid_file, node, served, issued, driverVars, installed>>

NodeExit(s) ==
    /\ NodeAlive(s)
    /\ NodeGone(s)
    /\ UNCHANGED <<sup, lock, reused, driverVars, installed>>

\* An unrelated process gets the PID of a dead node, and ends.
ReusePid(s) ==
    /\ node[s] = "exited" /\ sup[s].pc \notin Running
    /\ reused' = IF s \in reused THEN reused \ {s} ELSE reused \cup {s}
    /\ UNCHANGED <<sup, lock, nodeVars, driverVars, installed>>

\* Someone removes a stale PID file by hand.
OperatorUnlinks ==
    /\ pid_file # None /\ ~NodeAlive(pid_file)
    /\ pid_file' = None
    /\ UNCHANGED <<sup, lock, reused, node, served, cert_file, issued, driverVars, installed>>

-----------------------------------------------------------------------------
(* The host driver's main(), as far as the supervisor can see it.          *)

\* initialize_diagnostics: an existing socket name is never taken over, and the
\* driver goes on without tracing.
DriverTraces(s) ==
    /\ driver[s].state = "starting" /\ ~driver[s].told
    /\ driver' = [driver EXCEPT ![s].state = "opening",
                                ![s].tracing = trace_sock[s] = "absent"]
    /\ trace_sock' = [trace_sock EXCEPT ![s] = IF @ = "absent" THEN "live" ELSE @]
    /\ UNCHANGED <<sup, lock, reused, nodeVars, port, installed>>

\* Enclave() loads the certificate; the listener fails when the port is taken.
DriverListens(s) ==
    /\ driver[s].state = "opening" /\ ~driver[s].told
    /\ IF port = None
       THEN port' = s /\ driver' = [driver EXCEPT ![s].state = "up", ![s].ca = cert_file]
       ELSE port' = port /\ driver' = [driver EXCEPT ![s].state = "closing"]
    /\ UNCHANGED <<sup, lock, reused, nodeVars, trace_sock, installed>>

\* SIGTERM: before its handler is there the driver dies, afterwards it shuts
\* its listeners down.
DriverTold(s) ==
    /\ driver[s].told /\ driver[s].state \in {"starting", "opening", "up"}
    /\ IF driver[s].state = "up"
       THEN /\ driver' = [driver EXCEPT ![s].state = "closing"]
            /\ UNCHANGED <<port, trace_sock>>
       ELSE /\ Reaped(s)
            /\ trace_sock' = [trace_sock EXCEPT ![s] = IF @ = "live" THEN "stale" ELSE @]
    /\ UNCHANGED <<sup, lock, reused, nodeVars, installed>>

\* tracing.close() removes the name it had bound, and main() returns.
DriverCloses(s) ==
    /\ driver[s].state = "closing"
    /\ Reaped(s)
    /\ trace_sock' = [trace_sock EXCEPT ![s] = IF driver[s].tracing THEN "absent" ELSE @]
    /\ UNCHANGED <<sup, lock, reused, nodeVars, installed>>

DriverCrash(s) ==
    /\ DriverAlive(s)
    /\ Reaped(s)
    /\ trace_sock' = [trace_sock EXCEPT ![s] = IF @ = "live" THEN "stale" ELSE @]
    /\ UNCHANGED <<sup, lock, reused, nodeVars, installed>>

-----------------------------------------------------------------------------
Guard(s) == Acquire(s) \/ Inspect(s) \/ UnlinkStale(s) \/ SpawnNode(s)

Pass(s) ==
    \/ LoopTop(s) \/ RetireDriver(s) \/ ReapDriver(s)
    \/ Probe(s) \/ StartDriver(s) \/ Provision(s) \/ Poll(s)

Shutdown(s) == Stop(s) \/ WaitDriver(s) \/ WaitNode(s) \/ Cleanup(s)

NodeStep(s) == NodeStart(s) \/ NodeIdentity(s) \/ NodeWritesCertificate(s) \/ NodeExit(s)

DriverStep(s) ==
    \/ DriverTraces(s) \/ DriverListens(s) \/ DriverTold(s)
    \/ DriverCloses(s) \/ DriverCrash(s)

Next ==
    \/ OperatorUnlinks
    \/ \E s \in Supervisors :
         \/ Guard(s) \/ Pass(s) \/ Shutdown(s)
         \/ Signal(s) \/ Kill(s)
         \/ NodeStep(s) \/ ReusePid(s)
         \/ DriverStep(s)

\* The processes are scheduled; a node that has an identity writes it out, and
\* a request to it is not lost for ever.  Nothing is assumed about failures.
Fairness ==
    \A s \in Supervisors :
        /\ WF_vars(Guard(s) \/ Pass(s) \/ Shutdown(s))
        /\ SF_vars(sup[s].pc = "probe" /\ Probe(s) /\ sup'[s].pc = "start")
        /\ WF_vars(NodeStart(s)) /\ WF_vars(NodeWritesCertificate(s))
        /\ WF_vars(DriverTraces(s)) /\ WF_vars(DriverListens(s))
        /\ WF_vars(DriverTold(s)) /\ WF_vars(DriverCloses(s))

Spec == Init /\ [][Next]_vars /\ Fairness

-----------------------------------------------------------------------------
(* Properties.                                                             *)

\* At most one node runs on the ledger of a state directory, though a killed
\* supervisor leaves its node behind, perhaps not even started, and PIDs and
\* PID files come and go.
OneNode == \A s, t \in Supervisors :
              (node[s] = "running" /\ node[t] = "running") => s = t

\* The guarantee behind it: no step of a supervisor takes the PID file away
\* from a node that runs.
RunningNodeNamed == \A s \in Supervisors : node[s] = "running" => pid_file = s

\* A driver the supervisor believes to match the certificate on disk trusts
\* that certificate, though supervise() hashes the file, probes with it and
\* hands it to the driver in three separate reads.
DriverTrustsCertificate ==
    \A s \in Supervisors :
        (/\ driver[s].state = "up"
         /\ sup[s].pc \in Loop
         /\ sup[s].driver_identity = cert_file) => driver[s].ca = cert_file

\* A driver that serves always has its native span receiver, however the
\* driver before it died.
DriverTraced == \A s \in Supervisors : driver[s].state = "up" => driver[s].tracing

\* A supervisor that ends by itself leaves no child and no socket behind.
ExitReapsAll ==
    \A s \in Supervisors :
        sup[s].pc = "exited" =>
            ~NodeAlive(s) /\ ~DriverAlive(s) /\ trace_sock[s] = "absent" /\ port # s

\* While the node stays up and nothing stops the supervisor, the node ends up
\* with a driver that trusts the identity it answers with.
DriverFollowsIdentity ==
    \A s \in Supervisors :
        <>[](sup[s].pc \in Loop /\ ~sup[s].stopping /\ node[s] = "running" /\ served[s] # 0)
            => <>[](driver[s].state = "up" /\ driver[s].ca = served[s])

\* The state directory has one owner: one node at most, which its PID file names.
NodesSound == OneNode /\ RunningNodeNamed

\* A driver that serves can be relied on: it trusts the certificate on disk and
\* it is traced.
DriverSound == TypeOK /\ DriverTrustsCertificate /\ DriverTraced

=============================================================================

----------------------------- MODULE HostProofs -----------------------------
(***************************************************************************)
(* Safety of the programs that operate a service, for every value of their *)
(* constants: the supervisors of a node, the tool that signs releases, the *)
(* controller that takes a running service through its phases, the release *)
(* authority, and the deployment of a node.  They share no state; each has *)
(* a section of its own, with the inductive invariant its properties need. *)
(***************************************************************************)
EXTENDS Supervisor, ReleaseTool, ControlFlow, ReleaseAuthority, Deployment, TLAPS

-----------------------------------------------------------------------------
(* Supervisor: however many supervisors are started on a state directory   *)
(* and killed at whatever point, at most one node runs on its ledger.      *)
(*                                                                         *)
(* That a running node is named by the PID file is not inductive.  A       *)
(* supervisor that is about to unlink the file relies on what it saw a     *)
(* step earlier, so the invariant adds that a node it saw dead stays dead: *)
(* a node is started once, from a supervisor that has not yet started one, *)
(* and the file names only nodes that were started.  The lock of the       *)
(* directory is not needed for any of it.                                  *)

SupRecord == [pc : Phases, seen : Supervisors \cup {None}, identity : 0 .. MaxIdentity,
              driver_identity : 0 .. MaxIdentity, provisioned : BOOLEAN, stopping : BOOLEAN]

\* The types of what the invariant is about, and of what supervisors copy.
Types ==
    /\ sup \in [Supervisors -> SupRecord]
    /\ pid_file \in Supervisors \cup {None}
    /\ node \in [Supervisors -> {"none", "starting", "running", "exited"}]
    /\ served \in [Supervisors -> 0 .. MaxIdentity]
    /\ cert_file \in 0 .. MaxIdentity /\ issued \in 0 .. MaxIdentity

Before == {"new", "inspect", "unlink", "spawn"}

\* Each supervisor starts its node once.
NotYetStarted == \A s \in Supervisors : sup[s].pc \in Before => node[s] = "none"

\* The PID file names a node that ran.
NamesStarted == pid_file # None => node[pid_file] \in {"running", "exited"}

\* The node a supervisor saw dead is dead.
SeenDead == \A s \in Supervisors :
               sup[s].pc = "unlink" => sup[s].seen \in Supervisors /\ node[sup[s].seen] = "exited"

Inv == Types /\ RunningNodeNamed /\ NotYetStarted /\ NamesStarted /\ SeenDead

\* The record a supervisor enters a phase with has the type of its state.
LEMMA AtType == ASSUME NEW pc \in Phases PROVE At(pc) \in SupRecord
  BY SupervisorAssumption DEF At, SupRecord

\* The invariant of the nodes holds before any supervisor has started.
LEMMA InitInv == Init => Inv
  <1> SUFFICES ASSUME Init PROVE Inv
    BY Zenon
  <1>1. Types
    BY AtType, SupervisorAssumption DEF Init, Types, Phases
  <1> QED
    BY <1>1, Zenon DEF Init, Inv, RunningNodeNamed, NotYetStarted, NamesStarted, SeenDead, At, Before

\* A step of one supervisor that leaves nodes and files alone and ends past the
\* start of its node, or where it was.
Later(s) ==
  /\ sup' \in [Supervisors -> SupRecord]
  /\ \A t \in Supervisors \ {s} : sup'[t] = sup[t]
  /\ sup'[s].pc \notin Before \/ (sup'[s].pc = sup[s].pc /\ sup'[s].seen = sup[s].seen)
  /\ UNCHANGED nodeVars

\* A step of a supervisor that leaves the nodes alone and does not return to its start
\* keeps the nodes' invariant.
LEMMA LaterStep == ASSUME Inv, NEW s \in Supervisors, Later(s) PROVE Inv'
  <1>1. Types'
    BY Zenon DEF Inv, Types, Later, nodeVars
  <1> QED
    BY <1>1 DEF Inv, Types, Later, RunningNodeNamed, NotYetStarted, NamesStarted, SeenDead, nodeVars,
                Before

\* The passes of the loop of supervise() are such steps.
LEMMA PassLater == ASSUME Inv, NEW s \in Supervisors, Pass(s) PROVE Later(s)
  <1>0. sup \in [Supervisors -> SupRecord] /\ cert_file \in 0 .. MaxIdentity /\ 0 \in 0 .. MaxIdentity
    BY SupervisorAssumption DEF Inv, Types
  <1>1. CASE LoopTop(s)
    BY <1>0, <1>1 DEF LoopTop, Goto, Later, SupRecord, Phases, Running, Loop, Stopping, Before
  <1>2. CASE RetireDriver(s)
    BY <1>0, <1>2 DEF RetireDriver, Goto, Later, SupRecord, Phases, Running, Loop, Stopping, Before
  <1>3. CASE ReapDriver(s)
    <2>1. sup' = [sup EXCEPT ![s] = [sup[s] EXCEPT !.pc = "probe", !.driver_identity = 0,
                                                   !.provisioned = FALSE]]
      BY <1>3, Zenon DEF ReapDriver
    <2>2. sup'[s] \in SupRecord /\ sup'[s].pc = "probe"
      BY <1>0, <2>1, Zenon DEF SupRecord, Phases, Running, Loop
    <2> QED
      BY <1>0, <1>3, <2>1, <2>2, Zenon DEF ReapDriver, Later, Before
  <1>4. CASE Probe(s)
    BY <1>0, <1>4 DEF Probe, Unanswered, Goto, Later, SupRecord, Phases, Running, Loop, Stopping, Before
  <1>5. CASE StartDriver(s)
    <2>1. sup' = [sup EXCEPT ![s] = [sup[s] EXCEPT !.pc = "provision", !.identity = 0,
                                                   !.driver_identity = sup[s].identity]]
      BY <1>5, Zenon DEF StartDriver
    <2>2. sup'[s] \in SupRecord /\ sup'[s].pc = "provision"
      BY <1>0, <2>1, Zenon DEF SupRecord, Phases, Running, Loop
    <2> QED
      BY <1>0, <1>5, <2>1, <2>2, Zenon DEF StartDriver, Later, Before
  <1>6. CASE Provision(s)
    BY <1>0, <1>6 DEF Provision, Goto, Later, SupRecord, Phases, Running, Loop, Stopping, Before
  <1>7. CASE Poll(s)
    BY <1>0, <1>7 DEF Poll, Goto, Later, SupRecord, Phases, Running, Loop, Stopping, Before
  <1> QED BY <1>1, <1>2, <1>3, <1>4, <1>5, <1>6, <1>7, Zenon DEF Pass

\* A node that leaves removes at most its own PID file.
LEMMA NodeGoneInv ==
  ASSUME Inv, NEW s \in Supervisors, NodeAlive(s), NodeGone(s),
         sup' \in [Supervisors -> SupRecord],
         \A t \in Supervisors : sup'[t].pc \in Before => sup'[t] = sup[t]
  PROVE  Inv'
  <1>1. Types'
    <2>1. 0 \in 0 .. MaxIdentity
      BY SupervisorAssumption
    <2>2. node' \in [Supervisors -> {"none", "starting", "running", "exited"}]
      BY Zenon DEF Inv, Types, NodeGone
    <2>3. served' \in [Supervisors -> 0 .. MaxIdentity]
      BY <2>1, Zenon DEF Inv, Types, NodeGone
    <2> QED
      BY <2>2, <2>3, Zenon DEF Inv, Types, NodeGone
  <1>2. RunningNodeNamed'
    BY SupervisorAssumption, Zenon DEF Inv, Types, NodeGone, RunningNodeNamed
  <1>3. NotYetStarted' /\ NamesStarted' /\ SeenDead'
    BY SupervisorAssumption
       DEF Inv, Types, NodeGone, NodeAlive, NotYetStarted, NamesStarted, SeenDead, Before
  <1> QED BY <1>1, <1>2, <1>3, Zenon DEF Inv

\* ccf_pid_guard and the start of the node.
LEMMA GuardInv == ASSUME Inv, NEW s \in Supervisors, Guard(s) PROVE Inv'
  <1>0. sup \in [Supervisors -> SupRecord] /\ None \notin Supervisors
    BY SupervisorAssumption, Zenon DEF Inv, Types
  <1>1. CASE Acquire(s)
    <2>1. Types'
      BY <1>0, <1>1 DEF Acquire, Goto, nodeVars, Inv, Types, SupRecord, Phases
    <2>2. \A t \in Supervisors : sup'[t].pc \in Before => sup[t].pc \in Before
      BY <1>0, <1>1, Zenon DEF Acquire, Goto, SupRecord, Before
    <2>3. \A t \in Supervisors : sup'[t].pc = "unlink" => sup'[t] = sup[t]
      BY <1>0, <1>1, Zenon DEF Acquire, Goto, SupRecord
    <2> QED
      BY <1>1, <2>1, <2>2, <2>3
      DEF Acquire, nodeVars, Inv, RunningNodeNamed, NotYetStarted, NamesStarted, SeenDead
  <1>2. CASE Inspect(s)
    <2>1. Types'
      BY <1>0, <1>2 DEF Inspect, Goto, nodeVars, Inv, Types, SupRecord, Phases
    <2>2. \A t \in Supervisors : sup'[t].pc \in Before => sup[t].pc \in Before
      BY <1>0, <1>2, Zenon DEF Inspect, Goto, SupRecord, Before
    <2>3. \A t \in Supervisors \ {s} : sup'[t] = sup[t]
      BY <1>0, <1>2, Zenon DEF Inspect, Goto
    <2>4. sup'[s].pc = "unlink" => /\ sup'[s].seen = pid_file /\ pid_file # None
                                   /\ ~NodeAlive(pid_file)
      BY <1>0, <1>2 DEF Inspect, Goto, PidInUse, SupRecord
    <2>5. SeenDead'
      BY <1>2, <2>3, <2>4 DEF Inspect, nodeVars, Inv, Types, NamesStarted, NodeAlive, SeenDead
    <2> QED
      BY <1>2, <2>1, <2>2, <2>5, Zenon
      DEF Inspect, nodeVars, Inv, RunningNodeNamed, NotYetStarted, NamesStarted
  <1>3. CASE UnlinkStale(s)
    <2>1. Types'
      BY <1>0, <1>3, AtType DEF UnlinkStale, Inv, Types, Phases
    <2>2. \A t \in Supervisors : sup'[t].pc \in Before => sup[t].pc \in Before
      BY <1>0, <1>3, Zenon DEF UnlinkStale, At, Before
    <2>3. \A t \in Supervisors : sup'[t].pc = "unlink" => sup'[t] = sup[t]
      BY <1>0, <1>3 DEF UnlinkStale, At
    <2>4. RunningNodeNamed'
      BY <1>0, <1>3, Zenon DEF UnlinkStale, Inv, RunningNodeNamed, SeenDead
    <2> QED
      BY <1>3, <2>1, <2>2, <2>3, <2>4
      DEF UnlinkStale, Inv, NotYetStarted, NamesStarted, SeenDead
  <1>4. CASE SpawnNode(s)
    <2>1. Types'
      BY <1>0, <1>4 DEF SpawnNode, Goto, Inv, Types, SupRecord, Phases, Running, Loop
    <2>2. \A t \in Supervisors : sup'[t].pc \in Before => t # s /\ sup'[t] = sup[t]
      BY <1>0, <1>4, Zenon DEF SpawnNode, Goto, SupRecord, Before
    <2>3. node[s] = "none"
      BY <1>4, Zenon DEF SpawnNode, Inv, NotYetStarted, Before
    <2> QED
      BY <1>0, <1>4, <2>1, <2>2, <2>3
      DEF SpawnNode, Inv, Types, RunningNodeNamed, NotYetStarted, NamesStarted, SeenDead, Before
  <1> QED BY <1>1, <1>2, <1>3, <1>4, Zenon DEF Guard

\* The end of supervise() and of main().
LEMMA ShutdownInv == ASSUME Inv, NEW s \in Supervisors, Shutdown(s) PROVE Inv'
  <1>0. sup \in [Supervisors -> SupRecord] /\ None \notin Supervisors
    BY SupervisorAssumption, Zenon DEF Inv, Types
  <1>1. CASE Stop(s)
    <2>1. Later(s)
      BY <1>0, <1>1, AtType, Zenon DEF Stop, Later, At, Before, Phases, Running, Stopping
    <2> QED BY <2>1, LaterStep, Zenon
  <1>2. CASE WaitDriver(s)
    <2>1. Later(s)
      BY <1>0, <1>2 DEF WaitDriver, Goto, Later, SupRecord, Phases, Running, Stopping, Before
    <2> QED BY <2>1, LaterStep, Zenon
  <1>3. CASE WaitNode(s)
    <2>1. /\ sup' \in [Supervisors -> SupRecord]
          /\ \A t \in Supervisors \ {s} : sup'[t] = sup[t]
          /\ sup'[s].pc \notin Before
      BY <1>0, <1>3 DEF WaitNode, Goto, SupRecord, Phases, Running, Stopping, Before
    <2>2. CASE NodeAlive(s)
      BY <1>3, <2>1, <2>2, NodeGoneInv, Zenon DEF WaitNode
    <2>3. CASE ~NodeAlive(s)
      BY <1>3, <2>1, <2>3, LaterStep, Zenon DEF WaitNode, Later
    <2> QED BY <2>2, <2>3, Zenon
  <1>4. CASE Cleanup(s)
    <2>1. /\ sup' \in [Supervisors -> SupRecord]
          /\ \A t \in Supervisors : sup'[t].pc \in Before => sup'[t] = sup[t]
      BY <1>0, <1>4 DEF Cleanup, GuardExits, Goto, SupRecord, Phases, Before
    <2>2. Types'
      BY <1>4, <2>1, Zenon DEF Cleanup, GuardExits, Inv, Types
    <2>3. RunningNodeNamed'
      BY <1>4, Zenon DEF Cleanup, GuardExits, PidInUse, NodeAlive, Inv, RunningNodeNamed
    <2> QED
      BY <1>4, <2>1, <2>2, <2>3 DEF Cleanup, GuardExits, Inv, NotYetStarted, NamesStarted, SeenDead, Before
  <1> QED BY <1>1, <1>2, <1>3, <1>4, Zenon DEF Shutdown

\* What the node does by itself.
LEMMA NodeStepInv == ASSUME Inv, NEW s \in Supervisors, NodeStep(s) PROVE Inv'
  <1>0. None \notin Supervisors /\ MaxIdentity \in Nat
    BY SupervisorAssumption, Zenon
  <1>1. CASE NodeStart(s)
    <2>1. Types'
      BY <1>1, Zenon DEF NodeStart, Inv, Types
    <2>2. RunningNodeNamed' /\ NamesStarted'
      BY <1>0, <1>1, Zenon DEF NodeStart, Inv, Types, RunningNodeNamed, NamesStarted
    <2>3. NotYetStarted' /\ SeenDead'
      BY <1>1 DEF NodeStart, Inv, Types, NotYetStarted, SeenDead
    <2> QED BY <2>1, <2>2, <2>3, Zenon DEF Inv
  <1>2. CASE NodeIdentity(s)
    <2>1. issued + 1 \in 0 .. MaxIdentity
      BY <1>0, <1>2 DEF NodeIdentity, Inv, Types
    <2>2. Types'
      BY <1>2, <2>1, Zenon DEF NodeIdentity, Inv, Types
    <2> QED
      BY <1>2, <2>2, Zenon DEF NodeIdentity, Inv, RunningNodeNamed, NotYetStarted, NamesStarted, SeenDead
  <1>3. CASE NodeWritesCertificate(s)
    BY <1>3, Zenon DEF NodeWritesCertificate, Inv, Types, RunningNodeNamed, NotYetStarted, NamesStarted,
                SeenDead
  <1>4. CASE NodeExit(s)
    BY <1>4, NodeGoneInv, Zenon DEF NodeExit, Inv, Types
  <1> QED BY <1>1, <1>2, <1>3, <1>4, Zenon DEF NodeStep

\* Every step keeps the nodes' invariant.
LEMMA StepInv == Inv /\ [Next]_vars => Inv'
  <1> SUFFICES ASSUME Inv, [Next]_vars PROVE Inv'
    BY Zenon
  <1>1. CASE UNCHANGED <<sup, nodeVars>>
    BY <1>1, Zenon DEF Inv, Types, RunningNodeNamed, NotYetStarted, NamesStarted, SeenDead, nodeVars
  <1>2. CASE OperatorUnlinks
    BY <1>2, Zenon DEF OperatorUnlinks, NodeAlive, Inv, Types, RunningNodeNamed, NotYetStarted, NamesStarted,
                SeenDead
  <1>3. ASSUME NEW s \in Supervisors, Signal(s) PROVE Inv'
    <2>1. Later(s)
      BY <1>3, ZenonT(40) DEF Signal, Later, Inv, Types, SupRecord
    <2> QED BY <2>1, LaterStep, Zenon
  <1>4. ASSUME NEW s \in Supervisors, Kill(s) PROVE Inv'
    <2>1. Later(s)
      BY <1>4, AtType, Zenon DEF Kill, Later, At, Before, Phases, Inv, Types
    <2> QED BY <2>1, LaterStep, Zenon
  <1>5. ASSUME NEW s \in Supervisors, DriverStep(s) \/ ReusePid(s) PROVE UNCHANGED <<sup, nodeVars>>
    BY <1>5, Zenon DEF DriverStep, ReusePid, DriverTraces, DriverListens, DriverTold, DriverCloses, DriverCrash
  <1>6. ASSUME NEW s \in Supervisors, Guard(s) \/ Pass(s) \/ Shutdown(s) \/ NodeStep(s) PROVE Inv'
    BY <1>6, GuardInv, PassLater, LaterStep, ShutdownInv, NodeStepInv, Zenon
  <1>7. CASE UNCHANGED vars
    BY <1>1, <1>7, Zenon DEF vars
  <1> QED
    BY <1>1, <1>2, <1>3, <1>4, <1>5, <1>6, <1>7, Zenon DEF Next

\* At most one node runs on a state directory, and its PID file names it: for any
\* number of supervisors, killed anywhere, and any number of service identities.
THEOREM NodesCorrect == Spec => []NodesSound
  <1>1. Inv => NodesSound
    BY Zenon DEF Inv, NodesSound, OneNode, RunningNodeNamed
  <1> QED
    BY <1>1, InitInv, StepInv, PTL DEF Spec

-----------------------------------------------------------------------------
(* Drivers.  The second invariant is relative to the first, which gives    *)
(* that one node runs at most.                                             *)

DriverRecord ==
    [state : {"none", "starting", "opening", "up", "closing", "exited"},
     ca : 0 .. MaxIdentity, tracing : BOOLEAN, told : BOOLEAN]

\* The types of what the first invariant leaves out.
DriverTypes ==
    /\ lock \in Supervisors \cup {None} /\ reused \subseteq Supervisors
    /\ driver \in [Supervisors -> DriverRecord]
    /\ port \in Supervisors \cup {None}
    /\ trace_sock \in [Supervisors -> {"absent", "live", "stale"}]
    /\ installed \in BOOLEAN

\* A node answers with the newest identity or with none, so the certificate on
\* disk never goes back.
CertificateOrdered ==
    /\ cert_file <= issued
    /\ \A s \in Supervisors : served[s] # 0 => node[s] = "running" /\ served[s] = issued

\* What the supervisor remembers was read before the driver read its certificate.
Remembers(s) ==
    /\ sup[s].identity <= cert_file /\ sup[s].driver_identity <= cert_file
    /\ driver[s].state = "up" => /\ sup[s].driver_identity <= driver[s].ca
                                 /\ driver[s].ca <= cert_file
    /\ sup[s].pc \in {"probe", "start"} => driver[s].state = "none"

\* A driver finds no socket under the name it is going to bind.
Traces(s) ==
    /\ driver[s].state \in {"none", "starting"} => trace_sock[s] = "absent"
    /\ driver[s].state \in {"opening", "up"} => driver[s].tracing

\* What is behind a supervisor that stops, or that never got to start a node.
Reaps(s) ==
    /\ port = s => DriverAlive(s)
    /\ sup[s].pc \in Before \cup {"exited"} =>
          ~NodeAlive(s) /\ ~DriverAlive(s) /\ trace_sock[s] = "absent"
    /\ sup[s].pc \in {"wait_node", "cleanup"} => ~DriverAlive(s)
    /\ sup[s].pc = "cleanup" => ~NodeAlive(s)

DriverInv ==
    /\ DriverTypes
    /\ CertificateOrdered
    /\ \A s \in Supervisors : Remembers(s) /\ Traces(s) /\ Reaps(s)

\* What a step of s, of its node or of its driver leaves alone.
Frame(s) ==
    /\ \A t \in Supervisors \ {s} :
          /\ sup'[t] = sup[t] /\ driver'[t] = driver[t] /\ trace_sock'[t] = trace_sock[t]
          /\ node'[t] = node[t] /\ (port' = t => port = t)
    /\ cert_file <= cert_file'

\* A step that only concerns supervisor s has to be looked at for s alone.
LEMMA FrameKeeps ==
  ASSUME Inv, Inv', DriverInv, NEW s \in Supervisors, Frame(s),
         DriverTypes', CertificateOrdered', Remembers(s)', Traces(s)', Reaps(s)'
  PROVE  DriverInv'
  <1> SUFFICES ASSUME NEW t \in Supervisors, t # s PROVE Remembers(t)' /\ Traces(t)' /\ Reaps(t)'
    BY Zenon DEF DriverInv
  <1>1. /\ sup'[t] = sup[t] /\ driver'[t] = driver[t] /\ trace_sock'[t] = trace_sock[t]
        /\ node'[t] = node[t] /\ (port' = t => port = t)
        /\ cert_file <= cert_file' /\ cert_file \in Nat /\ cert_file' \in Nat
        /\ sup[t].identity \in Nat /\ sup[t].driver_identity \in Nat /\ driver[t].ca \in Nat
    BY DEF Frame, Inv, Types, DriverInv, DriverTypes, DriverRecord, SupRecord
  <1>2. Remembers(t) /\ Traces(t) /\ Reaps(t)
    BY Zenon DEF DriverInv
  <1>3. Remembers(t)'
    BY <1>1, <1>2 DEF Remembers
  <1>4. Traces(t)' /\ Reaps(t)'
    BY <1>1, <1>2, Zenon DEF Traces, Reaps, DriverAlive, NodeAlive
  <1> QED BY <1>3, <1>4, Zenon

\* A step that leaves the nodes alone keeps the order of the certificates.
LEMMA NodesKept ==
  ASSUME Inv, DriverInv, UNCHANGED <<node, served, cert_file, issued>>
  PROVE  CertificateOrdered' /\ cert_file <= cert_file'
  BY DEF Inv, Types, DriverInv, CertificateOrdered

\* A step of the supervisor alone.
LEMMA ControlStep ==
  ASSUME Inv, Inv', DriverInv, NEW s \in Supervisors, UNCHANGED <<node, served, cert_file, issued, driverVars>>,
         lock' \in Supervisors \cup {None}, installed' \in BOOLEAN, reused' \subseteq Supervisors,
         \A t \in Supervisors \ {s} : sup'[t] = sup[t],
         sup'[s].identity <= cert_file, sup'[s].driver_identity \in {0, sup[s].driver_identity},
         sup'[s].pc \in {"probe", "start"} => driver[s].state = "none",
         sup'[s].pc \in Before \cup {"exited"} => sup[s].pc \in Before,
         sup'[s].pc \notin {"wait_node", "cleanup"}
  PROVE  DriverInv'
  <1>1. DriverTypes'
    BY Zenon DEF DriverInv, DriverTypes, driverVars
  <1>2. Frame(s)
    BY NodesKept, Zenon DEF Frame, driverVars
  <1>3. /\ cert_file \in Nat /\ sup[s].driver_identity \in Nat /\ driver[s].ca \in Nat
        /\ Remembers(s) /\ Traces(s) /\ Reaps(s)
    BY DEF Inv, Types, DriverInv, DriverTypes, DriverRecord, SupRecord
  <1>4. Remembers(s)'
    BY <1>3 DEF Remembers, driverVars
  <1>5. Traces(s)' /\ Reaps(s)'
    BY <1>3, Zenon DEF Traces, Reaps, NodeAlive, DriverAlive, driverVars
  <1> QED BY <1>1, <1>2, <1>4, <1>5, NodesKept, FrameKeeps, Zenon

\* The start guard (inspect, unlink, spawn) keeps the drivers' invariant.
LEMMA GuardDriver == ASSUME Inv, Inv', DriverInv, NEW s \in Supervisors, Guard(s) PROVE DriverInv'
  <1>0. /\ sup \in [Supervisors -> SupRecord] /\ sup[s] \in SupRecord
        /\ lock \in Supervisors \cup {None} /\ installed \in BOOLEAN /\ reused \subseteq Supervisors
        /\ sup[s].identity <= cert_file /\ cert_file \in Nat
    BY DEF Inv, Types, DriverInv, DriverTypes, Remembers
  <1>1. CASE Acquire(s)
    BY <1>0, <1>1, ControlStep DEF Acquire, Goto, SupRecord, nodeVars, Before
  <1>2. CASE Inspect(s)
    BY <1>0, <1>2, ControlStep DEF Inspect, Goto, SupRecord, nodeVars, Before
  <1>3. CASE UnlinkStale(s)
    BY <1>0, <1>3, ControlStep DEF UnlinkStale, At, Before
  <1>4. CASE SpawnNode(s)
    <2>1. /\ \A t \in Supervisors \ {s} : sup'[t] = sup[t]
          /\ sup'[s].pc = "loop" /\ sup'[s].identity = sup[s].identity
          /\ sup'[s].driver_identity = sup[s].driver_identity
          /\ UNCHANGED <<served, cert_file, issued, driver, port, trace_sock>>
          /\ \A t \in Supervisors \ {s} : node'[t] = node[t]
      BY <1>0, <1>4 DEF SpawnNode, Goto, SupRecord, driverVars, Inv, Types
    <2>2. DriverTypes' /\ Frame(s)
      BY <1>0, <1>4, <2>1 DEF SpawnNode, DriverInv, DriverTypes, driverVars, Frame
    <2>3. sup[s].pc \in Before /\ node[s] = "none"
      BY <1>4, Zenon DEF SpawnNode, Before, Inv, NotYetStarted
    <2>4. CertificateOrdered'
      BY <2>1, <2>3, Zenon DEF DriverInv, CertificateOrdered
    <2>5. Remembers(s)' /\ Traces(s)' /\ Reaps(s)'
      BY <2>1, <2>3, Zenon DEF DriverInv, Remembers, Traces, Reaps, DriverAlive, Before
    <2> QED BY <2>2, <2>4, <2>5, FrameKeeps, Zenon
  <1> QED BY <1>1, <1>2, <1>3, <1>4, Zenon DEF Guard

\* A driver that is told to stop is otherwise as it was.
LEMMA TerminateIs ==
  ASSUME DriverInv, NEW s \in Supervisors, Terminate(s)
  PROVE  /\ driver' \in [Supervisors -> DriverRecord]
         /\ \A t \in Supervisors : /\ driver'[t].state = driver[t].state
                                   /\ driver'[t].ca = driver[t].ca
                                   /\ driver'[t].tracing = driver[t].tracing
         /\ \A t \in Supervisors \ {s} : driver'[t] = driver[t]
  BY ZenonT(40) DEF DriverInv, DriverTypes, Terminate, DriverAlive, DriverRecord

\* A step that tells a driver to stop.
LEMMA TerminateStep ==
  ASSUME Inv, Inv', DriverInv, NEW s \in Supervisors, Terminate(s),
         UNCHANGED <<lock, reused, nodeVars, port, trace_sock, installed>>,
         \A t \in Supervisors \ {s} : sup'[t] = sup[t],
         sup'[s].identity \in {0, sup[s].identity},
         sup'[s].driver_identity \in {0, sup[s].driver_identity},
         sup'[s].pc = sup[s].pc \/ sup'[s].pc \in {"reap", "wait_driver"}
  PROVE  DriverInv'
  <1>1. DriverTypes'
    BY TerminateIs, Zenon DEF DriverInv, DriverTypes
  <1>2. Frame(s)
    BY NodesKept, TerminateIs, Zenon DEF Frame, nodeVars
  <1>3. /\ cert_file \in Nat /\ sup[s].driver_identity \in Nat /\ driver[s].ca \in Nat
        /\ sup[s].identity \in Nat /\ Remembers(s) /\ Traces(s) /\ Reaps(s)
    BY DEF Inv, Types, DriverInv, DriverTypes, DriverRecord, SupRecord
  <1>4. Remembers(s)'
    BY <1>3, TerminateIs, SMTT(30) DEF Remembers, nodeVars
  <1>5. Traces(s)' /\ Reaps(s)'
    BY <1>3, TerminateIs, Zenon DEF Traces, Reaps, NodeAlive, DriverAlive, nodeVars, Before
  <1> QED BY <1>1, <1>2, <1>4, <1>5, NodesKept, FrameKeeps, Zenon DEF nodeVars

\* A pass of the supervision loop keeps the drivers' invariant.
LEMMA PassDriver == ASSUME Inv, Inv', DriverInv, NEW s \in Supervisors, Pass(s) PROVE DriverInv'
  <1>0. /\ sup \in [Supervisors -> SupRecord] /\ sup[s] \in SupRecord
        /\ lock \in Supervisors \cup {None} /\ installed \in BOOLEAN /\ reused \subseteq Supervisors
        /\ sup[s].identity <= cert_file /\ cert_file \in Nat
        /\ driver \in [Supervisors -> DriverRecord] /\ 0 \in 0 .. MaxIdentity
        /\ sup[s].pc \in {"probe", "start"} => driver[s].state = "none"
    BY SupervisorAssumption DEF Inv, Types, DriverInv, DriverTypes, Remembers
  <1>1. CASE LoopTop(s)
    BY <1>0, <1>1, ControlStep DEF LoopTop, Goto, SupRecord, nodeVars, Before
  <1>2. CASE RetireDriver(s)
    BY <1>0, <1>2, TerminateStep, Zenon DEF RetireDriver, Goto, SupRecord
  <1>4. CASE Probe(s)
    BY <1>0, <1>4, ControlStep DEF Probe, Unanswered, Goto, SupRecord, nodeVars, Before
  <1>6. CASE Provision(s)
    <2>1. /\ UNCHANGED <<lock, reused, nodeVars, driverVars>> /\ installed' \in BOOLEAN
          /\ sup[s].pc = "provision"
      BY <1>0, <1>6, Zenon DEF Provision
    <2>2. \/ \E answered \in BOOLEAN : sup' = [sup EXCEPT ![s].pc = "poll", ![s].provisioned = answered]
          \/ Goto(s, "stop") \/ Goto(s, "poll")
      BY <1>6, Zenon DEF Provision
    <2>3. /\ \A t \in Supervisors \ {s} : sup'[t] = sup[t]
          /\ sup'[s].identity = sup[s].identity /\ sup'[s].driver_identity = sup[s].driver_identity
          /\ sup'[s].pc \in {"stop", "poll"}
      BY <1>0, <2>2 DEF Goto, SupRecord
    <2> QED BY <1>0, <2>1, <2>3, ControlStep, Zenon DEF nodeVars, Before
  <1>7. CASE Poll(s)
    BY <1>0, <1>7, ControlStep DEF Poll, Goto, SupRecord, nodeVars, Before
  <1>3. CASE ReapDriver(s)
    <2>1. sup' = [sup EXCEPT ![s] = [sup[s] EXCEPT !.pc = "probe", !.driver_identity = 0,
                                                   !.provisioned = FALSE]]
      BY <1>3, Zenon DEF ReapDriver
    <2>2. /\ sup'[s].pc = "probe" /\ sup'[s].driver_identity = 0
          /\ sup'[s].identity = sup[s].identity
          /\ \A t \in Supervisors \ {s} : sup'[t] = sup[t]
      BY <1>0, <2>1, Zenon DEF SupRecord
    <2>3. NoDriver \in DriverRecord /\ NoDriver.state = "none"
      BY <1>0, Zenon DEF NoDriver, DriverRecord
    <2>4. /\ driver' = [driver EXCEPT ![s] = NoDriver]
          /\ port' = IF port = s THEN None ELSE port
          /\ trace_sock' = [trace_sock EXCEPT ![s] = "absent"]
          /\ UNCHANGED <<lock, reused, node, served, cert_file, issued, installed>>
      BY <1>3, Zenon DEF ReapDriver, TraceSocketRetired, nodeVars
    <2>5. DriverTypes' /\ Frame(s)
      BY <1>0, <2>2, <2>3, <2>4, NodesKept, SupervisorAssumption, Zenon DEF DriverInv, DriverTypes, Frame
    <2>6. driver'[s].state = "none" /\ trace_sock'[s] = "absent" /\ port' # s
      BY <1>0, <2>3, <2>4, SupervisorAssumption, Zenon DEF DriverInv, DriverTypes
    <2>7. Remembers(s)' /\ Traces(s)' /\ Reaps(s)'
      BY <1>0, <2>2, <2>4, <2>6 DEF Remembers, Traces, Reaps, Before
    <2> QED BY <2>4, <2>5, <2>7, NodesKept, FrameKeeps, Zenon
  <1>5. CASE StartDriver(s)
    <2>1. sup' = [sup EXCEPT ![s] = [sup[s] EXCEPT !.pc = "provision", !.identity = 0,
                                                   !.driver_identity = sup[s].identity]]
      BY <1>5, Zenon DEF StartDriver
    <2>2. /\ sup'[s].pc = "provision" /\ sup'[s].driver_identity = sup[s].identity
          /\ sup'[s].identity = 0
          /\ \A t \in Supervisors \ {s} : sup'[t] = sup[t]
      BY <1>0, <2>1, Zenon DEF SupRecord
    <2> DEFINE new == [NoDriver EXCEPT !.state = "starting"]
    <2>3. new \in DriverRecord /\ new.state = "starting"
      BY <1>0, Zenon DEF NoDriver, DriverRecord
    <2>4. /\ driver' = [driver EXCEPT ![s] = new]
          /\ UNCHANGED <<lock, reused, node, served, cert_file, issued, installed, port, trace_sock>>
          /\ driver[s].state = "none"
      BY <1>0, <1>5, Zenon DEF StartDriver, nodeVars
    <2> HIDE DEF new
    <2>5. DriverTypes' /\ Frame(s)
      BY <1>0, <2>2, <2>3, <2>4, NodesKept, Zenon DEF DriverInv, DriverTypes, Frame
    <2>6. driver'[s].state = "starting" /\ trace_sock[s] = "absent"
      BY <1>0, <2>3, <2>4, Zenon DEF DriverInv, Traces
    <2>7. Remembers(s)' /\ Traces(s)' /\ Reaps(s)'
      BY <1>0, <2>2, <2>4, <2>6, SMTT(30) DEF Remembers, Traces, Reaps, Before, DriverAlive
    <2> QED BY <2>4, <2>5, <2>7, NodesKept, FrameKeeps, Zenon
  <1> QED BY <1>1, <1>2, <1>3, <1>4, <1>5, <1>6, <1>7, Zenon DEF Pass

\* A driver that ends holds neither the port nor a certificate.
LEMMA ReapedStep ==
  ASSUME Inv, Inv', DriverInv, NEW s \in Supervisors, Reaped(s),
         UNCHANGED <<lock, reused, nodeVars, installed>>,
         NEW name \in {"absent", "live", "stale"},
         trace_sock' = [trace_sock EXCEPT ![s] = name],
         trace_sock[s] = "absent" => name = "absent",
         \A t \in Supervisors \ {s} : sup'[t] = sup[t],
         sup'[s].identity = sup[s].identity,
         sup'[s].driver_identity = sup[s].driver_identity,
         \/ sup'[s].pc = sup[s].pc /\ driver[s].state # "none"
         \/ sup'[s].pc = "wait_node"
  PROVE  DriverInv'
  <1> DEFINE gone == [NoDriver EXCEPT !.state = "exited"]
  <1>0. /\ driver \in [Supervisors -> DriverRecord] /\ Remembers(s) /\ Reaps(s)
        /\ trace_sock \in [Supervisors -> {"absent", "live", "stale"}]
        /\ cert_file \in Nat /\ 0 \in 0 .. MaxIdentity
    BY SupervisorAssumption DEF Inv, Types, DriverInv, DriverTypes
  <1>1. gone \in DriverRecord /\ gone.state = "exited"
    BY <1>0, Zenon DEF NoDriver, DriverRecord
  <1>2. driver' = [driver EXCEPT ![s] = gone] /\ port' = IF port = s THEN None ELSE port
    BY Zenon DEF Reaped
  <1> HIDE DEF gone
  <1>3. DriverTypes' /\ Frame(s)
    BY <1>0, <1>1, <1>2, NodesKept, SupervisorAssumption, ZenonT(40) DEF DriverInv, DriverTypes, Frame, nodeVars
  <1>4. driver'[s].state = "exited" /\ trace_sock'[s] = name /\ port' # s
    BY <1>0, <1>1, <1>2, SupervisorAssumption, Zenon DEF DriverInv, DriverTypes
  <1>5. Remembers(s)'
    BY <1>0, <1>4, Zenon DEF Remembers, nodeVars
  <1>6. Traces(s)' /\ Reaps(s)'
    BY <1>0, <1>4, Zenon DEF Traces, Reaps, DriverAlive, NodeAlive, nodeVars, Before
  <1> QED BY <1>3, <1>5, <1>6, NodesKept, FrameKeeps, Zenon DEF nodeVars

\* A step that only ends a node.
LEMMA NodeGoneOrdered ==
  ASSUME Inv, DriverInv, NEW s \in Supervisors, NodeGone(s)
  PROVE  /\ CertificateOrdered' /\ cert_file <= cert_file'
         /\ node'[s] = "exited" /\ \A t \in Supervisors \ {s} : node'[t] = node[t]
  BY DEF Inv, Types, DriverInv, CertificateOrdered, NodeGone

\* The way down (driver, node, cleanup) keeps the drivers' invariant.
LEMMA ShutdownDriver == ASSUME Inv, Inv', DriverInv, NEW s \in Supervisors, Shutdown(s) PROVE DriverInv'
  <1>0. /\ sup \in [Supervisors -> SupRecord] /\ sup[s] \in SupRecord
        /\ trace_sock \in [Supervisors -> {"absent", "live", "stale"}]
        /\ Remembers(s) /\ Traces(s) /\ Reaps(s) /\ DriverTypes
    BY Zenon DEF Inv, Types, DriverInv, DriverTypes
  <1>1. CASE Stop(s)
    BY <1>0, <1>1, TerminateStep, Zenon DEF Stop, At
  <1>2. CASE WaitDriver(s)
    <2>1. /\ \A t \in Supervisors \ {s} : sup'[t] = sup[t]
          /\ sup'[s].identity = sup[s].identity /\ sup'[s].driver_identity = sup[s].driver_identity
          /\ sup'[s].pc = "wait_node"
          /\ UNCHANGED <<lock, reused, nodeVars, installed>>
      BY <1>0, <1>2, Zenon DEF WaitDriver, Goto, SupRecord
    <2>2. CASE DriverAlive(s)
      BY <1>0, <1>2, <2>1, <2>2, ReapedStep, SMTT(30) DEF WaitDriver
    <2>3. CASE ~DriverAlive(s)
      <3>1. UNCHANGED driverVars
        BY <1>2, <2>3, Zenon DEF WaitDriver
      <3>2. DriverTypes' /\ Frame(s)
        BY <1>0, <2>1, <3>1, NodesKept, Zenon DEF DriverTypes, Frame, driverVars, nodeVars
      <3>3. Remembers(s)' /\ Traces(s)' /\ Reaps(s)'
        BY <1>0, <2>1, <2>3, <3>1, Zenon
           DEF Remembers, Traces, Reaps, driverVars, nodeVars, DriverAlive, NodeAlive, Before
      <3> QED BY <2>1, <3>2, <3>3, NodesKept, FrameKeeps, Zenon DEF nodeVars
    <2> QED BY <2>2, <2>3, Zenon
  <1>3. CASE WaitNode(s)
    <2>1. /\ \A t \in Supervisors \ {s} : sup'[t] = sup[t]
          /\ sup'[s].identity = sup[s].identity /\ sup'[s].driver_identity = sup[s].driver_identity
          /\ sup'[s].pc = "cleanup" /\ sup[s].pc = "wait_node"
          /\ UNCHANGED <<lock, reused, driver, port, trace_sock, installed>>
      BY <1>0, <1>3, Zenon DEF WaitNode, Goto, SupRecord, driverVars
    <2>2. /\ CertificateOrdered' /\ cert_file <= cert_file' /\ cert_file' = cert_file
          /\ ~NodeAlive(s)' /\ \A t \in Supervisors \ {s} : node'[t] = node[t]
      <3>1. CASE NodeAlive(s)
        BY <1>3, <3>1, NodeGoneOrdered, Zenon DEF WaitNode, NodeAlive, NodeGone
      <3>2. CASE ~NodeAlive(s)
        BY <1>3, <3>2, NodesKept, Zenon DEF WaitNode, NodeAlive, nodeVars
      <3> QED BY <3>1, <3>2, Zenon
    <2>3. DriverTypes' /\ Frame(s)
      BY <1>0, <2>1, <2>2, Zenon DEF DriverTypes, Frame
    <2>4. Remembers(s)' /\ Traces(s)' /\ Reaps(s)'
      BY <1>0, <2>1, <2>2, Zenon DEF Remembers, Traces, Reaps, DriverAlive, Before
    <2> QED BY <2>2, <2>3, <2>4, FrameKeeps, Zenon
  <1>4. CASE Cleanup(s)
    <2>1. /\ \A t \in Supervisors \ {s} : sup'[t] = sup[t]
          /\ sup'[s].identity = sup[s].identity /\ sup'[s].driver_identity = sup[s].driver_identity
          /\ sup'[s].pc = "exited" /\ sup[s].pc = "cleanup"
          /\ lock' = None /\ trace_sock' = [trace_sock EXCEPT ![s] = "absent"]
          /\ UNCHANGED <<reused, node, served, cert_file, issued, driver, port, installed>>
      BY <1>0, <1>4, Zenon DEF Cleanup, Goto, SupRecord, GuardExits, TraceSocketRetired
    <2>2. DriverTypes' /\ Frame(s)
      BY <1>0, <2>1, NodesKept, Zenon DEF DriverTypes, Frame
    <2>3. Remembers(s)' /\ Traces(s)' /\ Reaps(s)'
      BY <1>0, <2>1, Zenon DEF Remembers, Traces, Reaps, DriverAlive, NodeAlive, Before
    <2> QED BY <2>1, <2>2, <2>3, NodesKept, FrameKeeps, Zenon
  <1> QED BY <1>1, <1>2, <1>3, <1>4, Zenon DEF Shutdown

\* A step of the node keeps the drivers' invariant.
LEMMA NodeStepDriver == ASSUME Inv, Inv', DriverInv, NEW s \in Supervisors, NodeStep(s) PROVE DriverInv'
  <1>0. /\ Remembers(s) /\ Traces(s) /\ Reaps(s) /\ DriverTypes /\ CertificateOrdered
        /\ cert_file \in Nat /\ issued \in Nat /\ served \in [Supervisors -> 0 .. MaxIdentity]
        /\ sup[s].identity \in Nat /\ sup[s].driver_identity \in Nat /\ driver[s].ca \in Nat
    BY DEF Inv, Types, DriverInv, DriverTypes, DriverRecord, SupRecord
  <1>1. UNCHANGED <<sup, lock, reused, driver, port, trace_sock, installed>>
    BY Zenon DEF NodeStep, NodeStart, NodeIdentity, NodeWritesCertificate, NodeExit, driverVars
  <1>2. /\ CertificateOrdered' /\ cert_file <= cert_file' /\ cert_file' \in Nat
        /\ \A t \in Supervisors \ {s} : node'[t] = node[t]
        /\ NodeAlive(s)' => NodeAlive(s)
    <2>1. CASE NodeStart(s)
      BY <1>0, <2>1 DEF NodeStart, CertificateOrdered, NodeAlive, Inv, Types
    <2>2. CASE NodeIdentity(s)
      <3>1. \A t \in Supervisors \ {s} : served[t] = 0
        BY <1>0, <2>2, SupervisorAssumption, Zenon DEF NodeIdentity, CertificateOrdered, Inv, RunningNodeNamed
      <3> QED BY <1>0, <2>2, <3>1 DEF NodeIdentity, CertificateOrdered, NodeAlive, Inv, Types
    <2>3. CASE NodeWritesCertificate(s)
      BY <1>0, <2>3 DEF NodeWritesCertificate, CertificateOrdered, NodeAlive
    <2>4. CASE NodeExit(s)
      BY <1>0, <2>4, NodeGoneOrdered, Zenon DEF NodeExit, NodeGone, NodeAlive
    <2> QED BY <2>1, <2>2, <2>3, <2>4, Zenon DEF NodeStep
  <1>3. DriverTypes' /\ Frame(s)
    BY <1>0, <1>1, <1>2, Zenon DEF DriverTypes, Frame
  <1>4. Remembers(s)'
    BY <1>0, <1>1, <1>2, SMTT(30) DEF Remembers
  <1>5. Traces(s)' /\ Reaps(s)'
    BY <1>0, <1>1, <1>2, Zenon DEF Traces, Reaps, DriverAlive
  <1> QED BY <1>2, <1>3, <1>4, <1>5, FrameKeeps, Zenon

\* A step of the driver process keeps the drivers' invariant.
LEMMA DriverStepDriver == ASSUME Inv, Inv', DriverInv, NEW s \in Supervisors, DriverStep(s) PROVE DriverInv'
  <1>0. /\ Remembers(s) /\ Traces(s) /\ Reaps(s) /\ DriverTypes
        /\ driver \in [Supervisors -> DriverRecord] /\ driver[s] \in DriverRecord
        /\ trace_sock \in [Supervisors -> {"absent", "live", "stale"}]
        /\ cert_file \in 0 .. MaxIdentity /\ cert_file \in Nat
    BY DEF Inv, Types, DriverInv, DriverTypes
  <1>1. UNCHANGED <<sup, lock, reused, nodeVars, installed>>
    BY Zenon DEF DriverStep, DriverTraces, DriverListens, DriverTold, DriverCloses, DriverCrash
  <1>2. ASSUME Reaped(s), driver[s].state # "none",
               \E name \in {"absent", "live", "stale"} :
                   /\ trace_sock' = [trace_sock EXCEPT ![s] = name]
                   /\ trace_sock[s] = "absent" => name = "absent"
        PROVE  DriverInv'
    BY <1>1, <1>2, ReapedStep, Zenon
  <1>3. CASE DriverTraces(s)
    <2> DEFINE d == [driver[s] EXCEPT !.state = "opening", !.tracing = trace_sock[s] = "absent"]
    <2>1. driver' = [driver EXCEPT ![s] = d] /\ port' = port
      BY <1>0, <1>3, Zenon DEF DriverTraces
    <2>2. trace_sock[s] = "absent" /\ driver[s].state = "starting"
      BY <1>0, <1>3, Zenon DEF DriverTraces, Traces
    <2>3. d \in DriverRecord /\ d.state = "opening" /\ d.tracing
      BY <1>0, <2>2, Zenon DEF DriverRecord
    <2> HIDE DEF d
    <2>4. trace_sock' = [trace_sock EXCEPT ![s] = "live"]
      BY <1>0, <1>3, <2>2, Zenon DEF DriverTraces
    <2>5. DriverTypes' /\ Frame(s)
      BY <1>0, <1>1, <2>1, <2>3, <2>4, NodesKept, Zenon DEF DriverTypes, Frame, nodeVars
    <2>6. driver'[s] = d
      BY <1>0, <2>1, Zenon
    <2>7. Remembers(s)' /\ Traces(s)' /\ Reaps(s)'
      BY <1>0, <1>1, <2>1, <2>2, <2>3, <2>6, Zenon
         DEF Remembers, Traces, Reaps, DriverAlive, NodeAlive, nodeVars
    <2> QED BY <1>1, <2>5, <2>7, NodesKept, FrameKeeps, Zenon DEF nodeVars
  <1>4. CASE DriverListens(s)
    <2> DEFINE d == IF port = None THEN [driver[s] EXCEPT !.state = "up", !.ca = cert_file]
                                   ELSE [driver[s] EXCEPT !.state = "closing"]
    <2>1. driver' = [driver EXCEPT ![s] = d] /\ port' = (IF port = None THEN s ELSE port)
      BY <1>0, <1>4, Zenon DEF DriverListens
    <2>2. driver[s].state = "opening" /\ driver[s].tracing /\ trace_sock' = trace_sock
      BY <1>0, <1>4, Zenon DEF DriverListens, Traces
    <2>3. /\ d \in DriverRecord /\ d.tracing /\ d.state \in {"up", "closing"}
          /\ d.state = "up" => d.ca = cert_file
      BY <1>0, <2>2, Zenon DEF DriverRecord
    <2> HIDE DEF d
    <2>4. DriverTypes' /\ Frame(s)
      BY <1>0, <1>1, <2>1, <2>2, <2>3, NodesKept, Zenon DEF DriverTypes, Frame, nodeVars
    <2>5. driver'[s] = d
      BY <1>0, <2>1, Zenon
    <2>6. sup[s].driver_identity \in Nat
      BY DEF Inv, Types, SupRecord
    <2>7. Remembers(s)'
      BY <1>0, <1>1, <2>2, <2>3, <2>5, <2>6, SMTT(30) DEF Remembers, nodeVars
    <2>8. Traces(s)' /\ Reaps(s)'
      BY <1>0, <1>1, <2>2, <2>3, <2>5, Zenon DEF Traces, Reaps, DriverAlive, NodeAlive, nodeVars
    <2> QED BY <1>1, <2>4, <2>7, <2>8, NodesKept, FrameKeeps, Zenon DEF nodeVars
  <1>5. CASE DriverTold(s)
    <2>1. CASE driver[s].state = "up"
      <3> DEFINE d == [driver[s] EXCEPT !.state = "closing"]
      <3>1. driver' = [driver EXCEPT ![s] = d] /\ UNCHANGED <<port, trace_sock>>
        BY <1>0, <1>5, <2>1, Zenon DEF DriverTold
      <3>2. d \in DriverRecord /\ d.state = "closing"
        BY <1>0, Zenon DEF DriverRecord
      <3> HIDE DEF d
      <3>3. DriverTypes' /\ Frame(s)
        BY <1>0, <1>1, <3>1, <3>2, NodesKept, Zenon DEF DriverTypes, Frame, nodeVars
      <3>4. driver'[s] = d
        BY <1>0, <3>1, Zenon
      <3>5. Remembers(s)' /\ Traces(s)' /\ Reaps(s)'
        BY <1>0, <1>1, <2>1, <3>1, <3>2, <3>4, Zenon
           DEF Remembers, Traces, Reaps, DriverAlive, NodeAlive, nodeVars
      <3> QED BY <1>1, <3>3, <3>5, NodesKept, FrameKeeps, Zenon DEF nodeVars
    <2>2. CASE driver[s].state # "up"
      BY <1>0, <1>2, <1>5, <2>2, Zenon DEF DriverTold
    <2> QED BY <2>1, <2>2, Zenon
  <1>6. CASE DriverCloses(s)
    BY <1>0, <1>2, <1>6, Zenon DEF DriverCloses
  <1>7. CASE DriverCrash(s)
    BY <1>0, <1>2, <1>7, Zenon DEF DriverCrash, DriverAlive
  <1> QED BY <1>3, <1>4, <1>5, <1>6, <1>7, Zenon DEF DriverStep

\* Every step keeps the drivers' invariant.
LEMMA StepDriver == Inv /\ Inv' /\ DriverInv /\ [Next]_vars => DriverInv'
  <1> SUFFICES ASSUME Inv, Inv', DriverInv, [Next]_vars PROVE DriverInv'
    BY Zenon
  <1>1. ASSUME UNCHANGED <<sup, node, served, cert_file, issued, driverVars, lock, installed>>,
               reused' \subseteq Supervisors
        PROVE  DriverInv'
    BY <1>1, Zenon DEF DriverInv, DriverTypes, CertificateOrdered, Remembers, Traces, Reaps, DriverAlive,
                NodeAlive, driverVars
  <1>2. CASE OperatorUnlinks \/ UNCHANGED vars
    BY <1>1, <1>2, Zenon DEF OperatorUnlinks, vars, nodeVars, driverVars, DriverInv, DriverTypes
  <1>3. ASSUME NEW s \in Supervisors, ReusePid(s) PROVE DriverInv'
    BY <1>1, <1>3, Zenon DEF ReusePid, nodeVars, DriverInv, DriverTypes
  <1>4. ASSUME NEW s \in Supervisors, Signal(s) PROVE DriverInv'
    BY <1>4, TerminateStep, SMTT(30) DEF Signal, Inv, Types, SupRecord
  <1>5. ASSUME NEW s \in Supervisors, Kill(s) PROVE DriverInv'
    <2>1. /\ UNCHANGED <<node, served, cert_file, issued, driverVars, installed, reused>>
          /\ lock' \in {lock, None} /\ sup' = [sup EXCEPT ![s] = At("killed")]
        BY <1>5, Zenon DEF Kill, nodeVars
    <2>2. DOMAIN sup = Supervisors /\ cert_file \in 0 .. MaxIdentity
        BY Zenon DEF Inv, Types
    <2>3. /\ \A t \in Supervisors \ {s} : sup'[t] = sup[t]
          /\ sup'[s].identity = 0 /\ sup'[s].driver_identity = 0 /\ sup'[s].pc = "killed"
        BY <2>1, <2>2, Zenon DEF At
    <2>4. lock' \in Supervisors \cup {None} /\ installed' \in BOOLEAN /\ reused' \subseteq Supervisors
        BY <2>1, Zenon DEF DriverInv, DriverTypes
    <2>5. sup'[s].identity <= cert_file
        BY <2>2, <2>3, SupervisorAssumption
    <2> QED BY <2>1, <2>3, <2>4, <2>5, ControlStep, Zenon DEF Before
  <1> QED
    BY <1>2, <1>3, <1>4, <1>5, GuardDriver, PassDriver, ShutdownDriver, NodeStepDriver, DriverStepDriver, Zenon
       DEF Next

\* The drivers' invariant holds before any driver has started.
LEMMA InitDriver == Init => DriverInv
  <1> SUFFICES ASSUME Init PROVE DriverInv
    BY Zenon
  <1>1. 0 \in 0 .. MaxIdentity /\ 0 \in Nat
    BY SupervisorAssumption
  <1>2. NoDriver \in DriverRecord /\ NoDriver.state = "none"
    BY <1>1, Zenon DEF NoDriver, DriverRecord
  <1>3. /\ \A s \in Supervisors : /\ driver[s].state = "none" /\ trace_sock[s] = "absent"
                                 /\ node[s] = "none" /\ served[s] = 0
                                 /\ sup[s].identity = 0 /\ sup[s].driver_identity = 0
        /\ port = None /\ cert_file = issued /\ issued \in {0, 1}
    BY <1>2, Zenon DEF Init, At
  <1>4. DriverTypes
    BY <1>2, Zenon DEF Init, DriverTypes
  <1>5. CertificateOrdered
    BY <1>1, <1>3 DEF CertificateOrdered
  <1>6. ASSUME NEW s \in Supervisors PROVE Remembers(s) /\ Traces(s) /\ Reaps(s)
    BY <1>1, <1>3, SupervisorAssumption DEF Remembers, Traces, Reaps, DriverAlive, NodeAlive
  <1> QED BY <1>4, <1>5, <1>6, Zenon DEF DriverInv

\* Both invariants hold in every reachable state.
LEMMA DriverInvariant == Spec => [](Inv /\ DriverInv)
  BY InitInv, InitDriver, StepInv, StepDriver, PTL DEF Spec

\* A driver that serves can be relied on, however it and the drivers before it
\* were started, told to stop, killed or lost, and whatever the supervisor and the
\* node did meanwhile: if the supervisor takes it to be current, it trusts the
\* certificate on disk, and it has its span receiver.
THEOREM DriversCorrect == Spec => []DriverSound
  <1>1. Inv /\ DriverInv => TypeOK
    BY Zenon DEF Inv, Types, SupRecord, DriverInv, DriverTypes, DriverRecord, TypeOK
  <1>2. Inv /\ DriverInv => DriverTrustsCertificate
    <2> SUFFICES ASSUME Inv, DriverInv, NEW s \in Supervisors, driver[s].state = "up",
                        sup[s].driver_identity = cert_file
                 PROVE  driver[s].ca = cert_file
      BY Zenon DEF DriverTrustsCertificate
    <2>1. cert_file \in Nat /\ driver[s].ca \in Nat /\ Remembers(s)
      BY DEF Inv, Types, DriverInv, DriverTypes, DriverRecord
    <2> QED BY <2>1 DEF Remembers
  <1>3. Inv /\ DriverInv => DriverTraced
    BY Zenon DEF DriverInv, Traces, DriverTraced
  <1> QED BY <1>1, <1>2, <1>3, DriverInvariant, PTL DEF DriverSound

\* A supervisor that ends by itself has reaped its node and its driver, and has
\* removed the trace socket, on every path through the shutdown.
THEOREM ExitReaps == Spec => []ExitReapsAll
  <1>1. DriverInv => ExitReapsAll
    BY Zenon DEF DriverInv, Reaps, ExitReapsAll
  <1> QED BY <1>1, DriverInvariant, PTL

-----------------------------------------------------------------------------
(* ReleaseTool: which signatures of the operator count.                    *)

AuthorityFiles == [did : KeyPairs, key : KeyPairs, svn : ToolSvns]

\* A written file has one key pair in it, and it is about that pair; a written
\* signature is over the canonical bytes of the payload it was made for.
ReleaseToolInv ==
    /\ \A file \in {proposal, governed} :
          file = NoAuthorityFile \/ (file \in AuthorityFiles /\ file.key = file.did)
    /\ \/ signature = NoSignature
       \/ \E did, by \in KeyPairs, svn \in ToolSvns, payload \in Payloads :
             signature = [did |-> did, svn |-> svn, by |-> by,
                          over |-> CanonicalJson(svn, payload), payload |-> payload]

\* Every step of the release tool keeps its invariant.
LEMMA ReleaseToolStep == ReleaseToolInv /\ [ReleaseToolNext]_releaseToolVars => ReleaseToolInv'
<1> SUFFICES ASSUME ReleaseToolInv, [ReleaseToolNext]_releaseToolVars PROVE ReleaseToolInv'
    BY Zenon
<1> USE ReleaseToolAssumption
<1>1. CASE UNCHANGED <<proposal, signature, governed>>
    BY <1>1, Zenon DEF ReleaseToolInv
<1>2. CASE \/ \E k \in KeyPairs : WriteKey(k)
           \/ WriteCertificate \/ MintDies \/ UNCHANGED releaseToolVars
    BY <1>1, <1>2, Zenon DEF WriteKey, WriteCertificate, MintDies, releaseToolVars
<1>3. ASSUME NEW svn \in ToolSvns, WriteProposal(svn) PROVE ReleaseToolInv'
  <2>1. /\ proposal' = [did |-> disk.cert, key |-> disk.cert, svn |-> svn]
        /\ disk.cert \in KeyPairs
        /\ UNCHANGED <<signature, governed>>
      BY <1>3, Zenon DEF WriteProposal, GetDid
  <2>2. proposal' \in AuthorityFiles /\ proposal'.key = proposal'.did
      BY <2>1, Zenon DEF AuthorityFiles
  <2> QED BY <2>1, <2>2, Zenon DEF ReleaseToolInv
<1>4. ASSUME NEW svn \in ToolSvns, NEW payload \in Payloads, SignPayload(svn, payload)
      PROVE  ReleaseToolInv'
  <2>1. /\ signature' = [did |-> disk.cert, svn |-> svn, by |-> disk.priv,
                         over |-> CanonicalJson(svn, payload), payload |-> payload]
        /\ disk.cert \in KeyPairs /\ disk.priv \in KeyPairs
        /\ UNCHANGED <<proposal, governed>>
      BY <1>4, Zenon DEF SignPayload, GetDid
  <2> QED BY <2>1, Zenon DEF ReleaseToolInv
<1>5. CASE InstallAuthority
    BY <1>5, Zenon DEF InstallAuthority, ReleaseToolInv
<1>6. ASSUME NEW payload \in Payloads, ApplySigned(payload) PROVE ReleaseToolInv'
  <2>1. /\ governed' = [governed EXCEPT !.svn = signature.svn]
        /\ governed # NoAuthorityFile /\ signature.did = governed.did
        /\ UNCHANGED <<proposal, signature>>
      BY <1>6, Zenon DEF ApplySigned, RequireAuthoritySignature
  <2>2. governed \in AuthorityFiles /\ governed.key = governed.did
      BY <2>1, Zenon DEF ReleaseToolInv
  <2>3. signature.svn \in ToolSvns
      BY <2>1, <2>2 DEF ReleaseToolInv, NoSignature, AuthorityFiles
  <2>4. governed' \in AuthorityFiles /\ governed'.key = governed'.did
      BY <2>1, <2>2, <2>3, Zenon DEF AuthorityFiles
  <2> QED BY <2>1, <2>4, Zenon DEF ReleaseToolInv
<1> QED BY <1>2, <1>3, <1>4, <1>5, <1>6, Zenon DEF ReleaseToolNext

\* For any key pairs, payloads and security versions, and wherever a command
\* died, the constitution accepts a signature of release_authority.py exactly for
\* the payload it was made for, under the one key in force.
THEOREM ReleaseSignaturesCount == ReleaseToolSpec => []ReleaseSigned
<1>1. ReleaseToolInit => ReleaseToolInv
    BY Zenon DEF ReleaseToolInit, ReleaseToolInv
<1>2. ReleaseToolInv => ReleaseSigned
  <2> SUFFICES ASSUME ReleaseToolInv PROVE ReleaseSigned
      BY Zenon
  <2>1. governed.key = governed.did
      BY DEF ReleaseToolInv, NoAuthorityFile
  <2>2. ASSUME signature # NoSignature, NEW payload \in Payloads
        PROVE  RequireAuthoritySignature(signature, payload)
                  <=> /\ signature.payload = payload /\ payload \notin NonAscii
                      /\ signature.by = governed.did /\ signature.did = governed.did
                      /\ signature.svn \in {governed.svn, governed.svn + 1}
    <3>1. PICK did \in KeyPairs, by \in KeyPairs, svn \in ToolSvns, of \in Payloads :
             signature = [did |-> did, svn |-> svn, by |-> by,
                          over |-> CanonicalJson(svn, of), payload |-> of]
        BY <2>2, Zenon DEF ReleaseToolInv
    <3>2. /\ signature.did = did /\ signature.svn = svn /\ signature.by = by
          /\ signature.over = CanonicalJson(svn, of) /\ signature.payload = of
        BY <3>1, Zenon
    <3>3. CanonicalJson(svn, of) = AdnsCanonical(svn, payload)
             <=> of = payload /\ payload \notin NonAscii
      <4>1. ASSUME CanonicalJson(svn, of) = AdnsCanonical(svn, payload)
            PROVE  of = payload /\ payload \notin NonAscii
        <5>1. /\ CanonicalJson(svn, of).payload = of /\ AdnsCanonical(svn, payload).payload = payload
              /\ CanonicalJson(svn, of).escaped = (of \in NonAscii)
              /\ AdnsCanonical(svn, payload).escaped = FALSE
            BY Zenon DEF CanonicalJson, AdnsCanonical
        <5> QED BY <4>1, <5>1, Zenon
      <4>2. ASSUME of = payload, payload \notin NonAscii
            PROVE  CanonicalJson(svn, of) = AdnsCanonical(svn, payload)
        <5>1. (of \in NonAscii) = FALSE
            BY <4>2
        <5> QED BY <4>2, <5>1, Zenon DEF CanonicalJson, AdnsCanonical
      <4> QED BY <4>1, <4>2, Zenon
    <3>4. signature.did = governed.did => governed # NoAuthorityFile
        BY <3>2, ReleaseToolAssumption DEF NoAuthorityFile
    <3> QED BY <2>1, <3>2, <3>3, <3>4, Zenon DEF RequireAuthoritySignature
  <2> QED BY <2>1, <2>2, Zenon DEF ReleaseSigned
<1> QED BY <1>1, <1>2, ReleaseToolStep, PTL DEF ReleaseToolSpec

-----------------------------------------------------------------------------
(* ControlFlow: a phase that says it passed is right about the ledger.     *)

Effects == {"full", "restricted", "asked", "renewed", "replay", "refusal", "proposal", "nonce", "conflict"}

\* The steps of a phase, by its mode.
Negatives == {"observe", "sign", "restrict", "restrictBallot", "reject", "observeFailed",
              "restore", "restoreBallot", "register", "history", "retry", "summary", "passed"}
StepsOf ==
    [scopes    |-> {"nonce"} \cup Negatives,
     plain     |-> {"idle", "nonce", "observe", "sign", "register", "history", "retry", "summary", "passed"},
     conflict  |-> {"nonce", "sign", "conflict", "history", "summary", "passed"},
     lifecycle |-> {"prepare", "nonce", "sign", "operate", "history", "again", "summary", "passed"},
     reconcile |-> {"grant", "grantBallot", "nonce"} \cup Negatives,
     measure   |-> {"register", "history", "summary", "passed"},
     propose   |-> {"grant", "grantBallot", "summary", "passed"}]

ControlTypes ==
    /\ tail \in Seq([effect : Effects, awaited : BOOLEAN])
    /\ committed \in [grant : {"full", "restricted"}, registered : {"no", "asked"}, renewed : BOOLEAN]
    /\ phase.mode \in Modes /\ phase.pc \in StepsOf[phase.mode]
    /\ phase.tx \in {"none", "pending", "committed", "invalid"} /\ phase.failing \in BOOLEAN
    /\ phase = [pc |-> phase.pc, mode |-> phase.mode, tx |-> phase.tx, failing |-> phase.failing]

\* What the transaction the phase waits for, or has seen committed, does.
Ballots(effect) ==
    /\ phase.pc = "restrictBallot" => effect = "restricted"
    /\ phase.pc \in {"grantBallot", "restoreBallot"} => effect = "full"

\* The transaction a phase waits for is the last of all, so that nothing is
\* left before or behind it once it commits.
Awaiting ==
    /\ \A i \in DOMAIN tail : tail[i].awaited => /\ i = Len(tail) /\ phase.tx = "pending"
                                                 /\ Ballots(tail[i].effect)
    /\ phase.tx = "committed" => tail = <<>> /\ Ballots(committed.grant)
    /\ phase.pc \notin DOMAIN Script => phase.tx = "none"

\* A renewal was executed on a registration.
RenewedAfter ==
    /\ committed.renewed => committed.registered # "no"
    /\ \A i \in DOMAIN tail : tail[i].effect = "renewed" =>
          \/ committed.registered # "no"
          \/ \E j \in DOMAIN tail : j < i /\ tail[j].effect = "asked"

\* No transaction that awaits commit would change the grant in force.
InForce(grant) ==
    /\ committed.grant = grant
    /\ \A i \in DOMAIN tail : tail[i].effect \notin {"full", "restricted"}

\* What a phase of the mode has established at a step.
Establishes(mode, pc, tx) ==
    /\ pc = "reject" /\ tx = "none" => InForce("restricted")
    /\ mode \in {"scopes", "reconcile"} /\ pc \in {"register", "history", "retry", "summary", "passed"}
          => InForce("full")
    /\ mode = "propose" /\ pc \in {"summary", "passed"} => InForce("full")
    /\ pc = "retry" => committed.registered # "no"
    /\ pc = "again" => committed.renewed
    /\ pc \in {"summary", "passed"} => /\ mode \notin {"conflict", "propose"} => committed.registered # "no"
                                       /\ mode = "lifecycle" => committed.renewed

ControlInv == ControlTypes /\ Awaiting /\ RenewedAfter /\ Establishes(phase.mode, phase.pc, phase.tx)

\* The steps of each mode of a phase, written out.
LEMMA StepsFacts ==
    /\ StepsOf["scopes"] = {"nonce"} \cup Negatives
    /\ StepsOf["plain"] = {"idle", "nonce", "observe", "sign", "register", "history", "retry", "summary", "passed"}
    /\ StepsOf["conflict"] = {"nonce", "sign", "conflict", "history", "summary", "passed"}
    /\ StepsOf["lifecycle"] = {"prepare", "nonce", "sign", "operate", "history", "again", "summary", "passed"}
    /\ StepsOf["reconcile"] = {"grant", "grantBallot", "nonce"} \cup Negatives
    /\ StepsOf["measure"] = {"register", "history", "summary", "passed"}
    /\ StepsOf["propose"] = {"grant", "grantBallot", "summary", "passed"}
BY Zenon DEF StepsOf

\* The posts of the phases, written out: what each sends and what may follow.
LEMMA ScriptFacts ==
    /\ DOMAIN Script = {"grant", "grantBallot", "restrict", "restrictBallot", "restore", "restoreBallot",
                        "nonce", "reject", "register", "retry", "operate", "again", "conflict"}
    /\ Script["grant"] = [sends |-> "proposal", then |-> {"grantBallot"}]
    /\ Script["grantBallot"] = [sends |-> "full", then |-> {"nonce", "summary"}]
    /\ Script["restrict"] = [sends |-> "proposal", then |-> {"restrictBallot"}]
    /\ Script["restrictBallot"] = [sends |-> "restricted", then |-> {"reject"}]
    /\ Script["restore"] = [sends |-> "proposal", then |-> {"restoreBallot"}]
    /\ Script["restoreBallot"] = [sends |-> "full", then |-> {"restrict", "register"}]
    /\ Script["nonce"] = [sends |-> "nonce", then |-> {"observe", "sign"}]
    /\ Script["reject"] = [sends |-> "register", then |-> {"observeFailed"}]
    /\ Script["register"] = [sends |-> "register", then |-> {"history"}]
    /\ Script["retry"] = [sends |-> "register", then |-> {"summary"}]
    /\ Script["operate"] = [sends |-> "renew", then |-> {"history"}]
    /\ Script["again"] = [sends |-> "renew", then |-> {"summary"}]
    /\ Script["conflict"] = [sends |-> "conflict", then |-> {"history"}]
<1> DEFINE P == ProposalSteps
           R == RegistrationSteps
           C == ConflictSteps
           Y == LifecycleSteps
<1>1. /\ DOMAIN P = {"grant", "grantBallot", "restrict", "restrictBallot", "restore", "restoreBallot"}
      /\ DOMAIN R = {"nonce", "reject", "register", "retry"}
      /\ DOMAIN Y = {"operate", "again"} /\ DOMAIN C = {"conflict"}
    BY Zenon DEF ProposalSteps, RegistrationSteps, LifecycleSteps, ConflictSteps
<1>2. /\ P["grant"] = [sends |-> "proposal", then |-> {"grantBallot"}]
      /\ P["grantBallot"] = [sends |-> "full", then |-> {"nonce", "summary"}]
      /\ P["restrict"] = [sends |-> "proposal", then |-> {"restrictBallot"}]
      /\ P["restrictBallot"] = [sends |-> "restricted", then |-> {"reject"}]
      /\ P["restore"] = [sends |-> "proposal", then |-> {"restoreBallot"}]
      /\ P["restoreBallot"] = [sends |-> "full", then |-> {"restrict", "register"}]
    BY Zenon DEF ProposalSteps
<1>3. /\ R["nonce"] = [sends |-> "nonce", then |-> {"observe", "sign"}]
      /\ R["reject"] = [sends |-> "register", then |-> {"observeFailed"}]
      /\ R["register"] = [sends |-> "register", then |-> {"history"}]
      /\ R["retry"] = [sends |-> "register", then |-> {"summary"}]
    BY Zenon DEF RegistrationSteps
<1>4. /\ Y["operate"] = [sends |-> "renew", then |-> {"history"}]
      /\ Y["again"] = [sends |-> "renew", then |-> {"summary"}]
      /\ C["conflict"] = [sends |-> "conflict", then |-> {"history"}]
    BY Zenon DEF LifecycleSteps, ConflictSteps
<1>5. DOMAIN Script = DOMAIN P \cup DOMAIN R \cup DOMAIN Y \cup DOMAIN C
    BY Zenon DEF Script
<1>7. /\ \A pc \in DOMAIN P : Script[pc] = P[pc]
      /\ \A pc \in DOMAIN R : Script[pc] = R[pc]
      /\ \A pc \in DOMAIN Y : Script[pc] = Y[pc]
      /\ \A pc \in DOMAIN C : Script[pc] = C[pc]
  <2> DEFINE D == DOMAIN P \cup DOMAIN R \cup DOMAIN Y \cup DOMAIN C
  <2>1. Script = [pc \in D |-> CASE pc \in DOMAIN P -> P[pc] [] pc \in DOMAIN R -> R[pc]
                                [] pc \in DOMAIN Y -> Y[pc] [] pc \in DOMAIN C -> C[pc]]
      BY Zenon DEF Script
  <2> HIDE DEF P, R, Y, C
  <2>2. \A pc : /\ pc \in DOMAIN P => pc \notin DOMAIN R \cup DOMAIN Y \cup DOMAIN C
                /\ pc \in DOMAIN R => pc \notin DOMAIN Y \cup DOMAIN C
                /\ pc \in DOMAIN Y => pc \notin DOMAIN C
      BY <1>1, Zenon
  <2>3. \A pc \in DOMAIN P : Script[pc] = P[pc]
      BY <2>1, <2>2, Zenon
  <2>4. \A pc \in DOMAIN R : Script[pc] = R[pc]
      BY <2>1, <2>2, Zenon
  <2>5. \A pc \in DOMAIN Y : Script[pc] = Y[pc]
      BY <2>1, <2>2, Zenon
  <2>6. \A pc \in DOMAIN C : Script[pc] = C[pc]
      BY <2>1, <2>2, Zenon
  <2> QED BY <2>3, <2>4, <2>5, <2>6, Zenon
<1> HIDE DEF P, R, Y, C
<1> QED BY <1>1, <1>2, <1>3, <1>4, <1>5, <1>7, SMTT(30)

\* What a phase may do after each of its posts (the "then" of Script).
LEMMA ScriptThen ==
    /\ Script["grant"].then = {"grantBallot"}
    /\ Script["grantBallot"].then = {"nonce", "summary"}
    /\ Script["restrict"].then = {"restrictBallot"}
    /\ Script["restrictBallot"].then = {"reject"}
    /\ Script["restore"].then = {"restoreBallot"}
    /\ Script["restoreBallot"].then = {"restrict", "register"}
    /\ Script["nonce"].then = {"observe", "sign"}
    /\ Script["reject"].then = {"observeFailed"}
    /\ Script["register"].then = {"history"}
    /\ Script["retry"].then = {"summary"}
    /\ Script["operate"].then = {"history"}
    /\ Script["again"].then = {"summary"}
    /\ Script["conflict"].then = {"history"}
    BY ScriptFacts

\* Forgetting which transaction is awaited changes nothing else in the tail.
LEMMA ForgottenFacts ==
    ASSUME ControlTypes
    PROVE  /\ Forgotten(tail) \in Seq([effect : Effects, awaited : BOOLEAN])
           /\ DOMAIN Forgotten(tail) = DOMAIN tail
           /\ \A i \in DOMAIN tail : Forgotten(tail)[i].effect = tail[i].effect /\ ~Forgotten(tail)[i].awaited
<1> DEFINE T == [effect : Effects, awaited : BOOLEAN]
           f == Forgotten(tail)
<1>1. tail \in Seq(T) /\ Len(tail) \in Nat /\ DOMAIN tail = 1 .. Len(tail) /\ \A i \in 1 .. Len(tail) : tail[i] \in T
  <2>1. tail \in Seq(T)
      BY Zenon DEF ControlTypes
  <2> HIDE DEF T
  <2> QED BY <2>1
<1>2. f = [i \in 1 .. Len(tail) |-> [tail[i] EXCEPT !.awaited = FALSE]]
    BY <1>1, Zenon DEF Forgotten
<1>3. \A i \in 1 .. Len(tail) : f[i] \in T /\ f[i].effect = tail[i].effect /\ f[i].awaited = FALSE
    BY <1>1, <1>2, ZenonT(40)
<1>4. f \in Seq(T)
  <2> HIDE DEF f, T
  <2>1. f \in [1 .. Len(tail) -> T]
      BY <1>2, <1>3, Zenon
  <2> QED BY <1>1, <2>1
<1> QED BY <1>1, <1>2, <1>3, <1>4, Zenon

\* A phase that only moves on keeps the invariant if what the new step needs is established.
LEMMA Moves ==
    ASSUME ControlInv, NEW m \in Modes, NEW p \in StepsOf[m], NEW f \in BOOLEAN,
           phase' = [pc |-> p, mode |-> m, tx |-> "none", failing |-> f], UNCHANGED committed,
           tail' = Forgotten(tail) \/ (tail' = tail /\ phase.tx # "pending"),
           Establishes(m, p, "none")
    PROVE  ControlInv'
<1>1. phase'.pc = p /\ phase'.mode = m /\ phase'.tx = "none" /\ phase'.failing = f
      /\ phase' = [pc |-> phase'.pc, mode |-> phase'.mode, tx |-> phase'.tx, failing |-> phase'.failing]
    BY Zenon
<1>2. /\ tail' \in Seq([effect : Effects, awaited : BOOLEAN]) /\ DOMAIN tail' = DOMAIN tail
      /\ \A i \in DOMAIN tail : tail'[i].effect = tail[i].effect /\ ~tail'[i].awaited
  <2>1. CASE tail' = Forgotten(tail)
      BY <2>1, ForgottenFacts, Zenon DEF ControlInv
  <2>2. CASE tail' = tail /\ phase.tx # "pending"
      BY <2>2, Zenon DEF ControlInv, ControlTypes, Awaiting
  <2> QED BY <2>1, <2>2, Zenon
<1>3. ControlTypes'
    BY <1>1, <1>2, Zenon DEF ControlInv, ControlTypes
<1>4. Awaiting'
    BY <1>1, <1>2, Zenon DEF Awaiting
<1>5. RenewedAfter'
  <2>1. ASSUME NEW i \in DOMAIN tail', tail'[i].effect = "renewed"
        PROVE  committed.registered # "no" \/ \E j \in DOMAIN tail' : j < i /\ tail'[j].effect = "asked"
      BY <1>2, <2>1, SMTT(30) DEF RenewedAfter, ControlInv
  <2> QED BY <2>1, ZenonT(40) DEF RenewedAfter, ControlInv
<1>6. \A g : InForce(g) => InForce(g)'
    BY <1>2, Zenon DEF InForce
<1>7. Establishes(m, p, "none")'
    BY <1>6, Zenon DEF Establishes
<1> QED BY <1>1, <1>3, <1>4, <1>5, <1>7, Zenon DEF ControlInv, Establishes

\* The uncommitted tail is a sequence of effects.
LEMMA TailFacts ==
    ASSUME ControlTypes
    PROVE  /\ Len(tail) \in Nat /\ DOMAIN tail = 1 .. Len(tail)
           /\ \A i \in DOMAIN tail : tail[i].effect \in Effects /\ tail[i].awaited \in BOOLEAN
<1> DEFINE T == [effect : Effects, awaited : BOOLEAN]
<1>1. tail \in Seq(T)
    BY Zenon DEF ControlTypes
<1> HIDE DEF T
<1>2. Len(tail) \in Nat /\ DOMAIN tail = 1 .. Len(tail) /\ \A i \in DOMAIN tail : tail[i] \in T
    BY <1>1
<1> QED BY <1>2, Zenon DEF T

\* The state requests execute on, as far as the phases depend on it.
LEMMA HeadFacts ==
    ASSUME ControlInv
    PROVE  /\ \A g : InForce(g) => HeadState.grant = g
           /\ HeadState.registered \in {"no", "asked"}
           /\ HeadState.registered # "no" =>
                 committed.registered # "no" \/ \E j \in DOMAIN tail : tail[j].effect = "asked"
<1> DEFINE grants == {i \in DOMAIN tail : tail[i].effect \in {"full", "restricted"}}
           made == {i \in DOMAIN tail : tail[i].effect \in {"asked", "unasked"}}
<1>1. /\ HeadState.grant = IF grants = {} THEN committed.grant ELSE tail[Max(grants)].effect
      /\ HeadState.registered = IF made = {} THEN committed.registered ELSE tail[CHOOSE i \in made : TRUE].effect
    BY Zenon DEF HeadState
<1>2. \A g : InForce(g) => grants = {} /\ committed.grant = g
    BY Zenon DEF InForce
<1>3. made \subseteq Nat /\ \A i \in made : tail[i].effect = "asked" /\ i \in DOMAIN tail
    BY TailFacts DEF ControlInv, Effects
<1>4. made # {} => (CHOOSE i \in made : TRUE) \in made
    BY Zenon
<1>5. committed.registered \in {"no", "asked"}
    BY Zenon DEF ControlInv, ControlTypes
<1> HIDE DEF grants, made
<1> QED BY <1>1, <1>2, <1>3, <1>4, <1>5, ZenonT(40)

\* What a request comes to, by the step that sends it.
LEMMA EffectFacts ==
    ASSUME NEW r, NEW pc
    PROVE  /\ r \notin {"register", "renew"} => Effect(r, pc) = r
           /\ r = "register" => \/ Effect(r, pc) \in {"replay", "refusal"}
                                \/ /\ HeadState.grant # "restricted"
                                   /\ Effect(r, pc) = IF pc = "reject" THEN "unasked" ELSE "asked"
           /\ r = "renew" => \/ Effect(r, pc) \in {"replay", "refusal"}
                             \/ Effect(r, pc) = "renewed" /\ HeadState.registered # "no"
<1> DEFINE x == [register |-> HeadState.registered # "no", renew |-> HeadState.renewed]
<1>1. DOMAIN x = {"register", "renew"}
    BY Zenon
<1>2. x.register <=> HeadState.registered # "no"
    BY Zenon
<1>3. Effect(r, pc) =
        IF r \notin DOMAIN x THEN r
        ELSE IF x[r] THEN "replay"
        ELSE IF HeadState.grant = "restricted" \/ (r = "renew" /\ ~x.register) THEN "refusal"
        ELSE IF r = "renew" THEN "renewed"
        ELSE IF pc = "reject" THEN "unasked" ELSE "asked"
    BY Zenon DEF Effect
<1> HIDE DEF x
<1> QED BY <1>1, <1>2, <1>3, Zenon

\* What a step of a phase brings about at the head of the ledger.
LEMMA StepEffect ==
    ASSUME ControlInv, phase.pc \in DOMAIN Script, phase.tx = "none"
    PROVE  LET e == Effect(Script[phase.pc].sends, phase.pc) IN
           /\ e \in Effects /\ Ballots(e)
           /\ e \in {"full", "restricted"} => phase.pc \in {"restrictBallot", "grantBallot", "restoreBallot"}
           /\ e = "renewed" => committed.registered # "no" \/ \E j \in DOMAIN tail : tail[j].effect = "asked"
<1> DEFINE r == Script[phase.pc].sends
           e == Effect(r, phase.pc)
<1>1. /\ r \in {"proposal", "full", "restricted", "nonce", "register", "renew", "conflict"}
      /\ r = "full" <=> phase.pc \in {"grantBallot", "restoreBallot"}
      /\ r = "restricted" <=> phase.pc = "restrictBallot"
    BY ScriptFacts
<1>2. phase.pc = "reject" => HeadState.grant = "restricted"
    BY HeadFacts, Zenon DEF ControlInv, Establishes
<1> HIDE DEF r
<1>3. r \notin {"register", "renew"} => e = r
    BY EffectFacts, Zenon
<1>4. r = "register" => e \in {"replay", "refusal", "asked"}
    BY <1>2, EffectFacts, Zenon
<1>5. r = "renew" => e \in {"replay", "refusal"} \/ (e = "renewed" /\ HeadState.registered # "no")
    BY EffectFacts, Zenon
<1> HIDE DEF e
<1>6. e \in Effects
    BY <1>1, <1>3, <1>4, <1>5, Zenon DEF Effects
<1>7. Ballots(e) /\ (e \in {"full", "restricted"} => phase.pc \in {"restrictBallot", "grantBallot", "restoreBallot"})
    BY <1>1, <1>3, <1>4, <1>5, Zenon DEF Ballots
<1>8. e = "renewed" => committed.registered # "no" \/ \E j \in DOMAIN tail : tail[j].effect = "asked"
    BY <1>1, <1>3, <1>4, <1>5, HeadFacts, Zenon
<1> QED BY <1>6, <1>7, <1>8, Zenon DEF e, r

\* Posting a request keeps the invariant of the control flow.
LEMMA SubmitsKeeps == ASSUME ControlInv, Submits PROVE ControlInv'
<1> DEFINE e == Effect(Script[phase.pc].sends, phase.pc)
           T == [effect : Effects, awaited : BOOLEAN]
           t == [effect |-> e, awaited |-> TRUE]
           n == Len(tail)
<1>1. /\ phase.pc \in DOMAIN Script /\ phase.tx = "none" /\ UNCHANGED committed
      /\ tail' = Append(tail, t)
      /\ phase' = [phase EXCEPT !.tx = "pending", !.failing = @ \/ e \notin Expected]
    BY Zenon DEF Submits
<1>2. /\ e \in Effects /\ Ballots(e)
      /\ e \in {"full", "restricted"} => phase.pc \in {"restrictBallot", "grantBallot", "restoreBallot"}
      /\ e = "renewed" => committed.registered # "no" \/ \E j \in DOMAIN tail : tail[j].effect = "asked"
    BY <1>1, StepEffect, Zenon
<1> HIDE DEF e
<1>3. t \in T /\ tail \in Seq(T) /\ t.effect = e /\ t.awaited = TRUE
    BY <1>2, Zenon DEF ControlInv, ControlTypes
<1> HIDE DEF t, T
<1>4. /\ tail' \in Seq(T) /\ n \in Nat /\ DOMAIN tail = 1 .. n /\ Len(tail') = n + 1 /\ DOMAIN tail' = 1 .. n + 1
      /\ \A i \in 1 .. n : tail'[i] = tail[i]
      /\ tail'[n + 1] = t
    BY <1>1, <1>3
<1> HIDE DEF n
<1>5. /\ phase'.pc = phase.pc /\ phase'.mode = phase.mode /\ phase'.tx = "pending" /\ phase'.failing \in BOOLEAN
      /\ phase' = [pc |-> phase'.pc, mode |-> phase'.mode, tx |-> phase'.tx, failing |-> phase'.failing]
  <2> DEFINE f == phase.failing \/ e \notin Expected
  <2>1. phase' = [phase EXCEPT !.tx = "pending", !.failing = f] /\ f \in BOOLEAN
      BY <1>1, Zenon
  <2>2. phase = [pc |-> phase.pc, mode |-> phase.mode, tx |-> phase.tx, failing |-> phase.failing]
      BY Zenon DEF ControlInv, ControlTypes
  <2> HIDE DEF f
  <2>3. phase' = [pc |-> phase.pc, mode |-> phase.mode, tx |-> "pending", failing |-> f]
      BY <2>1, <2>2, Zenon
  <2> QED BY <2>1, <2>3, Zenon
<1>6. ControlTypes'
    BY <1>1, <1>4, <1>5, Zenon DEF ControlInv, ControlTypes, T
<1>7. Awaiting'
  <2>1. \A i \in 1 .. n : ~tail[i].awaited
      BY <1>1, <1>4, Zenon DEF ControlInv, Awaiting
  <2>2. \A i \in DOMAIN tail' : tail'[i].awaited => i = n + 1
      BY <1>4, <2>1
  <2> QED BY <1>1, <1>2, <1>3, <1>4, <1>5, <2>2 DEF Awaiting, Ballots
<1>8. RenewedAfter'
  <2>1. ASSUME NEW i \in DOMAIN tail', tail'[i].effect = "renewed"
        PROVE  committed.registered # "no" \/ \E j \in DOMAIN tail' : j < i /\ tail'[j].effect = "asked"
    <3>1. CASE i \in 1 .. n
        BY <1>4, <2>1, <3>1 DEF ControlInv, RenewedAfter
    <3>2. CASE i = n + 1
      <4>1. committed.registered # "no" \/ \E j \in 1 .. n : tail[j].effect = "asked"
          BY <1>2, <1>3, <1>4, <2>1, <3>2, Zenon
      <4> QED BY <1>4, <3>2, <4>1
    <3> QED BY <1>4, <3>1, <3>2
  <2> QED BY <1>1, <2>1, Zenon DEF ControlInv, RenewedAfter
<1>9. ASSUME NEW g, InForce(g), e \notin {"full", "restricted"} PROVE InForce(g)'
    BY <1>1, <1>3, <1>4, <1>9 DEF InForce
<1>10. Establishes(phase.mode, phase.pc, phase.tx)'
  <2>1. phase.pc \notin {"history", "summary", "passed"}
      BY <1>1, ScriptFacts, Zenon
  <2>2. phase.pc \in {"register", "retry"} => e \notin {"full", "restricted"}
      BY <1>2, Zenon
  <2> QED BY <1>1, <1>5, <1>9, <2>1, <2>2, Zenon DEF ControlInv, Establishes
<1> QED BY <1>6, <1>7, <1>8, <1>10, Zenon DEF ControlInv

\* The commit of the oldest transaction keeps the invariant of the control flow.
LEMMA CommitKeeps == ASSUME ControlInv, Commit PROVE ControlInv'
<1> DEFINE h == Head(tail)
           T == [effect : Effects, awaited : BOOLEAN]
           n == Len(tail)
<1>1. /\ tail # <<>> /\ committed' = Applied(committed, h.effect) /\ tail' = Tail(tail)
      /\ phase' = IF h.awaited THEN [phase EXCEPT !.tx = "committed"] ELSE phase
    BY Zenon DEF Commit
<1>2. tail \in Seq(T)
    BY Zenon DEF ControlInv, ControlTypes
<1> HIDE DEF T
<1>3. /\ n \in Nat /\ n > 0 /\ DOMAIN tail = 1 .. n /\ h = tail[1] /\ h \in T /\ tail' \in Seq(T)
      /\ Len(tail') = n - 1 /\ DOMAIN tail' = 1 .. n - 1 /\ \A i \in 1 .. n - 1 : tail'[i] = tail[i + 1]
    BY <1>1, <1>2
<1>4. n = 1 => tail' = <<>>
    BY <1>3
<1> HIDE DEF h, n
<1>5. h.effect \in Effects /\ h.awaited \in BOOLEAN /\ 1 \in 1 .. n
    BY <1>3 DEF T
<1>6. h.awaited => n = 1 /\ phase.tx = "pending" /\ Ballots(h.effect)
    BY <1>3, <1>5, Zenon DEF ControlInv, Awaiting, n
<1>7. /\ phase'.pc = phase.pc /\ phase'.mode = phase.mode /\ phase'.failing = phase.failing
      /\ phase'.tx = IF h.awaited THEN "committed" ELSE phase.tx
      /\ phase' = [pc |-> phase'.pc, mode |-> phase'.mode, tx |-> phase'.tx, failing |-> phase'.failing]
    BY <1>1, Zenon DEF ControlInv, ControlTypes
<1>8. /\ committed' \in [grant : {"full", "restricted"}, registered : {"no", "asked"}, renewed : BOOLEAN]
      /\ committed'.grant = IF h.effect \in {"full", "restricted"} THEN h.effect ELSE committed.grant
      /\ committed'.registered = IF h.effect = "asked" THEN "asked" ELSE committed.registered
      /\ committed'.renewed = IF h.effect = "renewed" THEN TRUE ELSE committed.renewed
  <2>1. committed \in [grant : {"full", "restricted"}, registered : {"no", "asked"}, renewed : BOOLEAN]
      BY Zenon DEF ControlInv, ControlTypes
  <2>2. CASE h.effect \in {"full", "restricted"}
    <3>1. committed' = [committed EXCEPT !.grant = h.effect]
        BY <1>1, <2>2, Zenon DEF Applied
    <3> QED BY <2>1, <2>2, <3>1, Zenon
  <2>3. CASE h.effect = "asked"
    <3>1. committed' = [committed EXCEPT !.registered = h.effect]
        BY <1>1, <2>3, Zenon DEF Applied
    <3> QED BY <2>1, <2>3, <3>1, Zenon
  <2>4. CASE h.effect = "renewed"
    <3>1. committed' = [committed EXCEPT !.renewed = TRUE]
        BY <1>1, <2>4, Zenon DEF Applied
    <3> QED BY <2>1, <2>4, <3>1, Zenon
  <2>5. CASE h.effect \notin {"full", "restricted", "asked", "renewed"}
    <3>1. committed' = committed
        BY <1>1, <1>5, <2>5, Zenon DEF Applied, Effects
    <3> QED BY <2>1, <2>5, <3>1, Zenon
  <2> QED BY <2>2, <2>3, <2>4, <2>5, Zenon
<1>9. ControlTypes'
    BY <1>3, <1>7, <1>8, Zenon DEF ControlInv, ControlTypes, T
<1>10. Awaiting'
  <2>1. ASSUME NEW i \in DOMAIN tail', tail'[i].awaited
        PROVE  i = Len(tail') /\ phase'.tx = "pending" /\ Ballots(tail'[i].effect)
    <3>1. i + 1 \in 1 .. n /\ tail'[i] = tail[i + 1] /\ n # 1
        BY <1>3
    <3>2. i + 1 = n /\ phase.tx = "pending" /\ Ballots(tail[i + 1].effect)
        BY <1>3, <2>1, <3>1, Zenon DEF ControlInv, Awaiting, n
    <3> QED BY <1>3, <1>6, <1>7, <3>1, <3>2
  <2>2. phase'.tx = "committed" => tail' = <<>> /\ Ballots(committed'.grant)
    <3>1. CASE h.awaited
        BY <1>4, <1>6, <1>8, <3>1, Zenon DEF Ballots
    <3>2. CASE ~h.awaited /\ phase.tx = "committed"
        BY <1>1, <3>2, Zenon DEF ControlInv, Awaiting
    <3> QED BY <1>7, <3>1, <3>2, Zenon
  <2>3. phase'.pc \notin DOMAIN Script => phase'.tx = "none"
      BY <1>6, <1>7, Zenon DEF ControlInv, Awaiting
  <2> QED BY <1>7, <2>1, <2>2, <2>3, Zenon DEF Awaiting, Ballots
<1>11. RenewedAfter'
  <2>1. committed'.renewed => committed'.registered # "no"
    <3>1. h.effect = "renewed" => committed.registered # "no"
        BY <1>3, <1>5 DEF ControlInv, RenewedAfter
    <3> QED BY <1>8, <3>1, Zenon DEF ControlInv, RenewedAfter
  <2>2. ASSUME NEW i \in DOMAIN tail', tail'[i].effect = "renewed"
        PROVE  committed'.registered # "no" \/ \E j \in DOMAIN tail' : j < i /\ tail'[j].effect = "asked"
    <3>1. i + 1 \in 1 .. n /\ tail'[i] = tail[i + 1]
        BY <1>3
    <3>2. CASE committed.registered # "no"
        BY <1>8, <3>2, Zenon
    <3>3. ASSUME NEW j \in DOMAIN tail, j < i + 1, tail[j].effect = "asked"
          PROVE  committed'.registered # "no" \/ \E k \in DOMAIN tail' : k < i /\ tail'[k].effect = "asked"
      <4>1. CASE j = 1
          BY <1>3, <1>8, <3>3, <4>1, Zenon
      <4>2. CASE j # 1
        <5>1. j - 1 \in 1 .. n - 1 /\ (j - 1) + 1 = j /\ j - 1 < i
            BY <1>3, <3>3, <4>2
        <5> QED BY <1>3, <3>3, <5>1, Zenon
      <4> QED BY <4>1, <4>2, Zenon
    <3>4. committed.registered # "no" \/ \E j \in DOMAIN tail : j < i + 1 /\ tail[j].effect = "asked"
        BY <1>3, <2>2, <3>1, Zenon DEF ControlInv, RenewedAfter
    <3> QED BY <3>2, <3>3, <3>4, Zenon
  <2> QED BY <2>1, <2>2, Zenon DEF RenewedAfter
<1>12. ASSUME NEW g, InForce(g) PROVE InForce(g)'
  <2>1. \A i \in 1 .. n : tail[i].effect \notin {"full", "restricted"}
      BY <1>3, <1>12, Zenon DEF InForce
  <2>2. h.effect \notin {"full", "restricted"}
      BY <1>3, <1>5, <2>1, Zenon
  <2>3. \A i \in 1 .. n - 1 : i + 1 \in 1 .. n
      BY <1>3
  <2> QED BY <1>3, <1>8, <1>12, <2>1, <2>2, <2>3 DEF InForce
<1>13. Establishes(phase.mode, phase.pc, phase.tx)'
    BY <1>7, <1>8, <1>12, Zenon DEF ControlInv, Establishes
<1> QED BY <1>9, <1>10, <1>11, <1>13, Zenon DEF ControlInv

\* An election that drops the end of the tail keeps the invariant of the control flow.
LEMMA ElectionKeeps == ASSUME ControlInv, NEW n \in 0 .. MaxTail, Election(n) PROVE ControlInv'
<1> USE ControlAssumption
<1> DEFINE T == [effect : Effects, awaited : BOOLEAN]
           lost == \E i \in n + 1 .. Len(tail) : tail[i].awaited
<1>1. /\ n < Len(tail) /\ tail' = SubSeq(tail, 1, n) /\ UNCHANGED committed
      /\ phase' = IF lost THEN [phase EXCEPT !.tx = "invalid"] ELSE phase
    BY Zenon DEF Election
<1>2. tail \in Seq(T)
    BY Zenon DEF ControlInv, ControlTypes
<1> HIDE DEF T
<1>3. /\ n \in Nat /\ Len(tail) \in Nat /\ DOMAIN tail = 1 .. Len(tail) /\ \A i \in 1 .. n : tail[i] \in T
    BY <1>1, <1>2
<1>4. /\ tail' \in Seq(T) /\ Len(tail') = n /\ DOMAIN tail' = 1 .. n /\ \A i \in 1 .. n : tail'[i] = tail[i]
  <2>1. /\ tail' \in Seq(T) /\ Len(tail') = (IF 1 <= n THEN n - 1 + 1 ELSE 0)
        /\ \A i \in 1 .. n - 1 + 1 : tail'[i] = tail[1 + i - 1]
      BY <1>1, <1>3
  <2>2. n - 1 + 1 = n /\ \A i \in 1 .. n : 1 + i - 1 = i
      BY <1>3
  <2>3. Len(tail') = n
      BY <1>3, <2>1, <2>2
  <2> QED BY <2>1, <2>2, <2>3
<1>5. lost => phase.tx = "pending" /\ phase.pc \in DOMAIN Script
    BY <1>3 DEF ControlInv, Awaiting
<1>6. /\ phase'.pc = phase.pc /\ phase'.mode = phase.mode /\ phase'.failing = phase.failing
      /\ phase'.tx = IF lost THEN "invalid" ELSE phase.tx
      /\ phase' = [pc |-> phase'.pc, mode |-> phase'.mode, tx |-> phase'.tx, failing |-> phase'.failing]
    BY <1>1, Zenon DEF ControlInv, ControlTypes
<1> HIDE DEF lost
<1>7. ControlTypes'
    BY <1>1, <1>4, <1>6, Zenon DEF ControlInv, ControlTypes, T
<1>8. Awaiting'
  <2>1. \A i \in DOMAIN tail' : ~tail'[i].awaited
      BY <1>1, <1>3, <1>4 DEF ControlInv, Awaiting
  <2>2. phase.tx # "committed"
    <3>1. tail # <<>>
        BY <1>1, <1>3
    <3> QED BY <3>1, Zenon DEF ControlInv, Awaiting
  <2> QED BY <1>5, <1>6, <2>1, <2>2 DEF ControlInv, Awaiting
<1>9. RenewedAfter'
  <2>1. ASSUME NEW i \in DOMAIN tail', tail'[i].effect = "renewed"
        PROVE  committed.registered # "no" \/ \E j \in DOMAIN tail' : j < i /\ tail'[j].effect = "asked"
    <3>1. i \in DOMAIN tail /\ tail[i].effect = "renewed" /\ i <= n
        BY <1>1, <1>3, <1>4, <2>1
    <3>2. committed.registered # "no" \/ \E j \in DOMAIN tail : j < i /\ tail[j].effect = "asked"
        BY <3>1, Zenon DEF ControlInv, RenewedAfter
    <3> QED BY <1>3, <1>4, <3>1, <3>2
  <2> QED BY <1>1, <2>1, Zenon DEF ControlInv, RenewedAfter
<1>10. ASSUME NEW g, InForce(g) PROVE InForce(g)'
    BY <1>1, <1>3, <1>4, <1>10 DEF InForce
<1>11. Establishes(phase.mode, phase.pc, phase.tx)'
    BY <1>1, <1>6, <1>10, Zenon DEF ControlInv, Establishes
<1> QED BY <1>7, <1>8, <1>9, <1>11, Zenon DEF ControlInv

\* A phase that fails ends, or turns to the grant it has to put back.
LEMMA FailedKeeps ==
    ASSUME ControlInv, Failed, UNCHANGED committed,
           tail' = Forgotten(tail) \/ (tail' = tail /\ phase.tx # "pending")
    PROVE  ControlInv'
<1>1. CASE GuardedByFinally
  <2>1. phase.mode = "scopes" /\ phase' = [phase EXCEPT !.pc = "restore", !.tx = "none", !.failing = TRUE]
      BY <1>1, Zenon DEF Failed, GuardedByFinally
  <2>2. phase = [pc |-> phase.pc, mode |-> phase.mode, tx |-> phase.tx, failing |-> phase.failing]
      BY Zenon DEF ControlInv, ControlTypes
  <2>3. phase' = [pc |-> "restore", mode |-> "scopes", tx |-> "none", failing |-> TRUE]
      BY <2>1, <2>2, Zenon
  <2>4. "restore" \in StepsOf["scopes"] /\ "scopes" \in Modes
      BY StepsFacts, Zenon DEF Negatives, Modes
  <2>5. Establishes("scopes", "restore", "none")
      BY Zenon DEF Establishes
  <2> QED BY <2>3, <2>4, <2>5, Moves, Zenon
<1>2. CASE ~GuardedByFinally
  <2>1. phase' = [pc |-> "idle", mode |-> "plain", tx |-> "none", failing |-> FALSE]
      BY <1>2, Zenon DEF Failed, Idle
  <2>2. "idle" \in StepsOf["plain"] /\ "plain" \in Modes
      BY StepsFacts, Zenon DEF Modes
  <2>3. Establishes("plain", "idle", "none")
      BY Zenon DEF Establishes
  <2> QED BY <2>1, <2>2, <2>3, Moves, Zenon
<1> QED BY <1>1, <1>2, Zenon

\* A phase that is over, or killed.
LEMMA IdleKeeps ==
    ASSUME ControlInv, phase' = Idle, UNCHANGED committed,
           tail' = Forgotten(tail) \/ (tail' = tail /\ phase.tx # "pending")
    PROVE  ControlInv'
<1>1. phase' = [pc |-> "idle", mode |-> "plain", tx |-> "none", failing |-> FALSE]
    BY Zenon DEF Idle
<1>2. "idle" \in StepsOf["plain"] /\ "plain" \in Modes
    BY StepsFacts, Zenon DEF Modes
<1>3. Establishes("plain", "idle", "none")
    BY Zenon DEF Establishes
<1> QED BY <1>1, <1>2, <1>3, Moves, Zenon

\* A step of the phase that reads, and so waits for no transaction.
LEMMA ReadsKeeps ==
    ASSUME ControlInv, NEW pc, NEW next, Reads(pc, next), pc \notin DOMAIN Script,
           next \in StepsOf[phase.mode], Establishes(phase.mode, next, "none")
    PROVE  ControlInv'
<1>1. phase.tx = "none" /\ phase.mode \in Modes /\ phase.failing \in BOOLEAN
    BY Zenon DEF ControlInv, ControlTypes, Awaiting, Reads
<1>2. phase' = [pc |-> next, mode |-> phase.mode, tx |-> "none", failing |-> phase.failing]
  <2>1. phase = [pc |-> phase.pc, mode |-> phase.mode, tx |-> phase.tx, failing |-> phase.failing]
      BY Zenon DEF ControlInv, ControlTypes
  <2>2. phase' = [phase EXCEPT !.pc = next]
      BY Zenon DEF Reads
  <2> QED BY <1>1, <2>1, <2>2, Zenon
<1>3. UNCHANGED <<committed, tail>>
    BY Zenon DEF Reads
<1> QED BY <1>1, <1>2, <1>3, Moves, Zenon

\* A phase that starts at a step of its mode, with what it needs established, keeps the invariant.
LEMMA StartsKeeps ==
    ASSUME ControlInv, NEW m \in Modes, NEW pc, Starts(m, pc), pc \in StepsOf[m], Establishes(m, pc, "none")
    PROVE  ControlInv'
<1>1. phase.tx = "none"
    BY ScriptFacts, Zenon DEF ControlInv, Awaiting, Starts
<1>2. phase' = [pc |-> pc, mode |-> m, tx |-> "none", failing |-> FALSE] /\ UNCHANGED <<committed, tail>>
    BY Zenon DEF Starts, Idle
<1> QED BY <1>1, <1>2, Moves, Zenon

\* The step that follows a confirmed one may rely on what it confirmed.
LEMMA ConfirmKeeps == ASSUME ControlInv, Confirm PROVE ControlInv'
<1>1. /\ phase.pc \in DOMAIN Script /\ phase.tx = "committed" /\ tail' = Forgotten(tail) /\ UNCHANGED committed
    BY Zenon DEF Confirm, Settled
<1>2. CASE phase.failing /\ phase.pc \notin {"restore"}
    BY <1>1, <1>2, FailedKeeps, Zenon DEF Confirm
<1>3. CASE ~(phase.failing /\ phase.pc \notin {"restore"})
  <2>1. PICK next \in Follows(phase.pc) : phase' = [phase EXCEPT !.tx = "none", !.pc = next]
      BY <1>3, Zenon DEF Confirm
  <2>2. /\ phase.mode \in Modes /\ phase.pc \in StepsOf[phase.mode] /\ phase.failing \in BOOLEAN
        /\ phase = [pc |-> phase.pc, mode |-> phase.mode, tx |-> phase.tx, failing |-> phase.failing]
      BY Zenon DEF ControlInv, ControlTypes
  <2>3. phase' = [pc |-> next, mode |-> phase.mode, tx |-> "none", failing |-> phase.failing]
      BY <2>1, <2>2, Zenon
  <2>4. /\ next \in Script[phase.pc].then
        /\ phase.pc = "restoreBallot" /\ next = "restrict" => phase.mode = "scopes"
        /\ phase.pc = "nonce" => (next = "sign" <=> phase.mode \in {"conflict", "lifecycle"})
        /\ phase.pc = "grantBallot" => (next = "summary" <=> phase.mode = "propose")
      BY <2>1, Zenon DEF Follows
  <2>5. tail = <<>> /\ Ballots(committed.grant)
      BY <1>1, Zenon DEF ControlInv, Awaiting
  <2>6. \A g : committed.grant = g => InForce(g)
      BY <2>5 DEF InForce
  <2>7. \/ phase.pc = "grant" /\ next = "grantBallot"
        \/ phase.pc = "grantBallot" /\ next \in {"nonce", "summary"}
        \/ phase.pc = "restrict" /\ next = "restrictBallot"
        \/ phase.pc = "restrictBallot" /\ next = "reject"
        \/ phase.pc = "restore" /\ next = "restoreBallot"
        \/ phase.pc = "restoreBallot" /\ next \in {"restrict", "register"}
        \/ phase.pc = "nonce" /\ next \in {"observe", "sign"}
        \/ phase.pc = "reject" /\ next = "observeFailed"
        \/ phase.pc \in {"register", "operate", "conflict"} /\ next = "history"
        \/ phase.pc \in {"retry", "again"} /\ next = "summary"
    <3> DEFINE th == Script[phase.pc].then
    <3>1. /\ phase.pc = "grant" => th = {"grantBallot"}
          /\ phase.pc = "grantBallot" => th = {"nonce", "summary"}
          /\ phase.pc = "restrict" => th = {"restrictBallot"}
          /\ phase.pc = "restrictBallot" => th = {"reject"}
          /\ phase.pc = "restore" => th = {"restoreBallot"}
          /\ phase.pc = "restoreBallot" => th = {"restrict", "register"}
        BY ScriptThen, ZenonT(40)
    <3>2. /\ phase.pc = "nonce" => th = {"observe", "sign"}
          /\ phase.pc = "reject" => th = {"observeFailed"}
          /\ phase.pc \in {"register", "operate", "conflict"} => th = {"history"}
          /\ phase.pc \in {"retry", "again"} => th = {"summary"}
        BY ScriptThen, ZenonT(40)
    <3>3. phase.pc \in {"grant", "grantBallot", "restrict", "restrictBallot", "restore", "restoreBallot",
                        "nonce", "reject", "register", "retry", "operate", "again", "conflict"}
        BY <1>1, ScriptFacts, ZenonT(40)
    <3> HIDE DEF th
    <3>4. next \in th
        BY <2>4, Zenon DEF th
    <3> QED BY <3>1, <3>2, <3>3, <3>4, SMTT(30)
  <2>8. next \in StepsOf[phase.mode]
      BY <2>2, <2>4, <2>7, StepsFacts, SMTT(30) DEF Modes, Negatives
  <2>9. Establishes(phase.mode, next, "none")
    <3>1. CASE next \in {"reject", "register", "summary"} /\ phase.pc \in {"grantBallot", "restrictBallot", "restoreBallot"}
      <4>1. phase.pc = "restrictBallot" => InForce("restricted")
          BY <2>5, <2>6, Zenon DEF Ballots
      <4>2. phase.pc \in {"grantBallot", "restoreBallot"} => InForce("full")
          BY <2>5, <2>6, Zenon DEF Ballots
      <4> QED BY <2>4, <2>7, <3>1, <4>1, <4>2, ZenonT(40) DEF Establishes
    <3>2. CASE next \in {"history", "summary"} /\ phase.pc \in {"register", "operate", "conflict", "retry", "again"}
      <4>1. phase.pc = "operate" \/ phase.pc = "again" => phase.mode = "lifecycle"
          BY <2>2, StepsFacts DEF Modes, Negatives
      <4>2. phase.pc = "conflict" => phase.mode = "conflict"
          BY <2>2, StepsFacts, Zenon DEF Modes, Negatives
      <4>3. phase.pc = "retry" => phase.mode \in {"scopes", "plain", "reconcile"}
          BY <2>2, StepsFacts, Zenon DEF Modes, Negatives
      <4>4. phase.pc = "again" => committed.renewed /\ committed.registered # "no"
          BY Zenon DEF ControlInv, Establishes, RenewedAfter
      <4>5. phase.pc = "retry" => committed.registered # "no"
          BY Zenon DEF ControlInv, Establishes
      <4>6. phase.mode \in {"scopes", "reconcile"} /\ phase.pc \in {"register", "retry"} => InForce("full")
          BY Zenon DEF ControlInv, Establishes
      <4> QED BY <2>7, <3>2, <4>1, <4>2, <4>3, <4>4, <4>5, <4>6, Zenon DEF Establishes
    <3>3. CASE next \notin {"reject", "register", "summary", "history"}
        BY <2>7, <3>3, Zenon DEF Establishes
    <3> QED BY <2>7, <3>1, <3>2, <3>3, Zenon
  <2> QED BY <1>1, <2>2, <2>3, <2>8, <2>9, Moves, Zenon
<1> QED BY <1>2, <1>3, Zenon

\* The steps that post nothing keep the invariant of the control flow.
LEMMA ReadingKeeps ==
    ASSUME ControlInv, PrepareAction \/ ObservePending \/ WorkerSigns \/ ObserveFailed \/ ReadHistory \/ MeasureHistory
    PROVE  ControlInv'
<1>1. /\ phase.mode \in Modes /\ phase.pc \in StepsOf[phase.mode]
    BY Zenon DEF ControlInv, ControlTypes
<1>2. \A pc \in {"prepare", "observe", "sign", "observeFailed", "history"} : pc \notin DOMAIN Script
    BY ScriptFacts, Zenon
<1>3. CASE PrepareAction
  <2>1. Reads("prepare", "nonce") /\ phase.pc = "prepare"
      BY <1>3, Zenon DEF PrepareAction, Reads
  <2>2. "nonce" \in StepsOf[phase.mode]
      BY <1>1, <2>1, StepsFacts, Zenon DEF Modes, Negatives
  <2> QED BY <1>2, <2>1, <2>2, ReadsKeeps, Zenon DEF Establishes
<1>4. CASE ObservePending
  <2>1. Reads("observe", "sign") /\ phase.pc = "observe"
      BY <1>4, Zenon DEF ObservePending, Reads
  <2>2. "sign" \in StepsOf[phase.mode]
      BY <1>1, <2>1, StepsFacts, Zenon DEF Modes, Negatives
  <2> QED BY <1>2, <2>1, <2>2, ReadsKeeps, Zenon DEF Establishes
<1>5. CASE WorkerSigns
  <2> DEFINE after == [scopes |-> "restrict", plain |-> "register", conflict |-> "conflict",
                       lifecycle |-> "operate", reconcile |-> "restrict"]
             next == after[phase.mode]
  <2>1. Reads("sign", next) /\ phase.pc = "sign"
      BY <1>5, Zenon DEF WorkerSigns, Reads
  <2>2. phase.mode \in {"scopes", "plain", "conflict", "lifecycle", "reconcile"}
      BY <1>1, <2>1, StepsFacts, Zenon DEF Modes
  <2>3. /\ phase.mode \in {"scopes", "reconcile"} => next = "restrict"
        /\ phase.mode = "plain" => next = "register"
        /\ phase.mode = "conflict" => next = "conflict"
        /\ phase.mode = "lifecycle" => next = "operate"
      OBVIOUS
  <2> HIDE DEF next
  <2>4. next \in StepsOf[phase.mode]
      BY <2>2, <2>3, StepsFacts, Zenon DEF Negatives
  <2>5. Establishes(phase.mode, next, "none")
      BY <2>2, <2>3, Zenon DEF Establishes
  <2> QED BY <1>2, <2>1, <2>4, <2>5, ReadsKeeps, Zenon
<1>6. CASE ObserveFailed
  <2>1. Reads("observeFailed", "restore") /\ phase.pc = "observeFailed"
      BY <1>6, Zenon DEF ObserveFailed, Reads
  <2>2. "restore" \in StepsOf[phase.mode]
      BY <1>1, <2>1, StepsFacts, Zenon DEF Modes, Negatives
  <2> QED BY <1>2, <2>1, <2>2, ReadsKeeps, Zenon DEF Establishes
<1>7. CASE ReadHistory
  <2> DEFINE next == CASE phase.mode = "conflict"  -> "summary"
                       [] phase.mode = "lifecycle" -> "again"
                       [] OTHER                    -> "retry"
  <2>1. Reads("history", next) /\ phase.pc = "history" /\ phase.mode # "measure" /\ Reconciled
      BY <1>7, Zenon DEF ReadHistory, Reads
  <2>2. phase.mode \in {"scopes", "plain", "conflict", "lifecycle", "reconcile"}
      BY <1>1, <2>1, StepsFacts, Zenon DEF Modes
  <2>3. /\ phase.mode = "conflict" => next = "summary"
        /\ phase.mode = "lifecycle" => next = "again"
        /\ phase.mode \notin {"conflict", "lifecycle"} => next = "retry"
      BY Zenon
  <2> HIDE DEF next
  <2>4. next \in StepsOf[phase.mode]
      BY <2>2, <2>3, StepsFacts, Zenon DEF Negatives
  <2>5. phase.mode \in {"scopes", "reconcile"} => InForce("full")
      BY <2>1, Zenon DEF ControlInv, Establishes
  <2>6. Establishes(phase.mode, next, "none")
      BY <2>1, <2>2, <2>3, <2>5, Zenon DEF Establishes, Reconciled
  <2> QED BY <1>2, <2>1, <2>4, <2>6, ReadsKeeps, Zenon
<1>8. CASE MeasureHistory
  <2>1. Reads("history", "summary") /\ phase.mode = "measure" /\ committed.registered # "no"
      BY <1>8, Zenon DEF MeasureHistory, Reconciled
  <2>2. "summary" \in StepsOf[phase.mode]
      BY <2>1, StepsFacts, Zenon
  <2> QED BY <1>2, <2>1, <2>2, ReadsKeeps, Zenon DEF Establishes
<1> QED BY <1>3, <1>4, <1>5, <1>6, <1>7, <1>8, Zenon

\* Starting a phase keeps the invariant of the control flow.
LEMMA StartingKeeps ==
    ASSUME ControlInv, \/ \E mode \in Modes : StartPhase(mode)
                       \/ StartReconciliation \/ StartMeasurement \/ StartProposal
    PROVE  ControlInv'
<1>1. ASSUME NEW mode \in Modes, StartPhase(mode) PROVE ControlInv'
  <2> DEFINE pc == IF mode = "lifecycle" THEN "prepare" ELSE "nonce"
  <2>1. mode \in Inspected /\ Starts(mode, pc)
      BY <1>1, Zenon DEF StartPhase
  <2>2. pc \in StepsOf[mode] /\ Establishes(mode, pc, "none")
      BY <2>1, StepsFacts, Zenon DEF Inspected, Establishes
  <2> QED BY <2>1, <2>2, StartsKeeps, Zenon
<1>2. CASE StartReconciliation
    BY <1>2, StepsFacts, StartsKeeps, Zenon DEF StartReconciliation, Establishes, Modes
<1>3. CASE StartMeasurement
    BY <1>3, StepsFacts, StartsKeeps, Zenon DEF StartMeasurement, Establishes, Modes
<1>4. CASE StartProposal
    BY <1>4, StepsFacts, StartsKeeps, Zenon DEF StartProposal, Establishes, Modes
<1> QED BY <1>1, <1>2, <1>3, <1>4, Zenon

\* Ending a phase keeps the invariant of the control flow.
LEMMA EndPhaseKeeps == ASSUME ControlInv, EndPhase PROVE ControlInv'
<1>1. phase.pc = "summary" /\ UNCHANGED <<tail, committed>>
    BY Zenon DEF EndPhase
<1>2. phase.tx = "none" /\ phase.mode \in Modes /\ phase.failing \in BOOLEAN
      /\ phase = [pc |-> phase.pc, mode |-> phase.mode, tx |-> phase.tx, failing |-> phase.failing]
    BY <1>1, ScriptFacts, Zenon DEF ControlInv, ControlTypes, Awaiting
<1>3. CASE phase' = Idle
    BY <1>1, <1>2, <1>3, IdleKeeps, Zenon
<1>4. CASE phase' = [phase EXCEPT !.pc = "passed"]
  <2>1. phase' = [pc |-> "passed", mode |-> phase.mode, tx |-> "none", failing |-> phase.failing]
      BY <1>2, <1>4, Zenon
  <2>2. "passed" \in StepsOf[phase.mode]
      BY <1>2, StepsFacts, Zenon DEF Modes, Negatives
  <2>3. Establishes(phase.mode, "passed", "none")
      BY <1>1, Zenon DEF ControlInv, Establishes
  <2> QED BY <1>1, <1>2, <2>1, <2>2, <2>3, Moves, Zenon
<1> QED BY <1>3, <1>4, Zenon DEF EndPhase

\* Every step keeps the invariant of the control flow.
LEMMA PhaseStep == ControlInv /\ [ControlNext]_controlVars => ControlInv'
<1> SUFFICES ASSUME ControlInv, [ControlNext]_controlVars PROVE ControlInv'
    BY Zenon
<1>1. CASE Commit
    BY <1>1, CommitKeeps, Zenon
<1>2. ASSUME NEW n \in 0 .. MaxTail, Election(n) PROVE ControlInv'
    BY <1>2, ElectionKeeps, Zenon
<1>3. CASE (\E mode \in Modes : StartPhase(mode)) \/ StartReconciliation \/ StartMeasurement \/ StartProposal
    BY <1>3, StartingKeeps, Zenon
<1>4. CASE Send \/ Exchange
    BY <1>4, SubmitsKeeps, Zenon DEF Send, Exchange
<1>5. CASE Confirm
    BY <1>5, ConfirmKeeps, Zenon
<1>6. CASE GiveUp
    BY <1>6, FailedKeeps, Zenon DEF GiveUp
<1>7. CASE PrepareAction \/ ObservePending \/ WorkerSigns \/ ObserveFailed \/ ReadHistory \/ MeasureHistory
    BY <1>7, ReadingKeeps, Zenon
<1>8. CASE ObserveFails
  <2>1. phase.tx = "none"
      BY <1>8, ScriptFacts, Zenon DEF ControlInv, Awaiting, ObserveFails
  <2> QED BY <1>8, <2>1, FailedKeeps, Zenon DEF ObserveFails
<1>9. CASE EndPhase
    BY <1>9, EndPhaseKeeps, Zenon
<1>10. CASE NextPhase
  <2>1. phase.tx = "none"
      BY <1>10, ScriptFacts, Zenon DEF ControlInv, Awaiting, NextPhase
  <2> QED BY <1>10, <2>1, IdleKeeps, Zenon DEF NextPhase
<1>11. CASE KillFlow
    BY <1>11, IdleKeeps, Zenon DEF KillFlow
<1>12. CASE SourcesChange \/ UNCHANGED controlVars
  <2>1. UNCHANGED <<tail, committed, phase>>
      BY <1>12, Zenon DEF SourcesChange, controlVars
  <2> QED BY <2>1, ZenonT(40) DEF ControlInv, ControlTypes, Awaiting, Ballots, RenewedAfter, InForce, Establishes
<1> QED BY <1>1, <1>2, <1>3, <1>4, <1>5, <1>6, <1>7, <1>8, <1>9, <1>10, <1>11, <1>12, Zenon DEF ControlNext

\* For every bound on the transactions that await commit: a phase that says it
\* passed is right about the ledger, and no registration was made by a request
\* the phase sent to see refused (native_flow.py, run_phase.py,
\* reconcile_ccf_inside.py, measure_ccf_request.py, tools/ccf_control.py).
THEOREM PhasesCorrect == ControlSpec => []PhaseSound
<1>1. ControlInit => ControlInv
  <2> SUFFICES ASSUME ControlInit PROVE ControlInv
      BY Zenon
  <2>1. /\ tail = <<>> /\ committed = [grant |-> "full", registered |-> "no", renewed |-> FALSE]
        /\ phase = [pc |-> "idle", mode |-> "plain", tx |-> "none", failing |-> FALSE]
      BY Zenon DEF ControlInit, Idle
  <2>2. ControlTypes
      BY <2>1, StepsFacts DEF ControlTypes, Modes
  <2> QED BY <2>1, <2>2 DEF ControlInv, Awaiting, RenewedAfter, Establishes
<1>2. ControlInv => PhaseSound
  <2> SUFFICES ASSUME ControlInv PROVE PhaseSound
      BY Zenon
  <2>1. phase.pc = "passed" /\ phase.mode \in {"scopes", "reconcile", "propose"} => InForce("full")
      BY Zenon DEF ControlInv, Establishes
  <2>2. HeadState.registered # "unasked"
      BY HeadFacts, Zenon
  <2>3. InForce("full") => HeadState.grant = "full"
      BY HeadFacts, Zenon
  <2> QED BY <2>1, <2>2, <2>3, Zenon DEF ControlInv, Establishes, PhaseSound
<1> QED BY <1>1, <1>2, PhaseStep, PTL DEF ControlSpec

-----------------------------------------------------------------------------
(* The release authority.                                                  *)

\* The floor is inductive once it is known that it starts at zero: the first
\* authority may bring any svn.
ReleaseInv ==
    /\ ReleaseTypeOK
    /\ FloorHolds
    /\ authority.did = NoDid => authority.svn = 0

\* Without an authority and a policy the floor holds.
LEMMA ReleaseInitSound == ReleaseInit => ReleaseInv
  BY SvnAssumption, SMTT(30) DEF ReleaseInit, ReleaseInv, ReleaseTypeOK, FloorHolds, NoAuthority, NoPolicy, Svns

\* What an admitted signature does to the authority and to the newest svn.
LEMMA SignedChange ==
  ASSUME ReleaseInv, NEW s \in Signatures, Admits(s)
  PROVE  /\ Ratcheted(s) \in [did : Dids, svn : Svns]
         /\ Ratcheted(s).svn = s.svn
         /\ Newest(s) = s.svn
         /\ newest <= s.svn
  BY SvnAssumption
     DEF ReleaseInv, ReleaseTypeOK, FloorHolds, Signatures, Admits, Ratcheted, Newest, Svns

\* Every step of the release authority keeps its invariant.
LEMMA ReleaseStepSound == ReleaseInv /\ [ReleaseNext]_releaseVars => ReleaseInv'
  <1> SUFFICES ASSUME ReleaseInv, [ReleaseNext]_releaseVars PROVE ReleaseInv'
    BY Zenon
  <1>1. ASSUME NEW did \in Dids, NEW svn \in Svns, SetReleaseAuthority(did, svn)
        PROVE  ReleaseInv'
    <2>1. newest <= svn
      BY <1>1, SvnAssumption, SMTT(30)
         DEF SetReleaseAuthority, MayReplace, ReleaseInv, ReleaseTypeOK, FloorHolds, Svns
    <2> QED
      BY <1>1, <2>1, SvnAssumption, Zenon DEF SetReleaseAuthority, ReleaseInv, ReleaseTypeOK, FloorHolds, Svns
  <1>2. ASSUME NEW s \in Signatures, NEW releases \in SUBSET Releases,
               SetNodeJoinPolicy(s, releases)
        PROVE  ReleaseInv'
    <2>1. Admits(s)
      BY <1>2, Zenon DEF SetNodeJoinPolicy
    <2>2. s.svn \in Svns
      BY Zenon DEF Signatures
    <2>3. /\ authority' \in [did : Dids, svn : Svns] /\ authority'.svn = s.svn
          /\ newest' = s.svn
      BY <1>2, <2>1, SignedChange, Zenon DEF SetNodeJoinPolicy
    <2>4. /\ join_policy' = [svn |-> s.svn, releases |-> releases]
          /\ join_tables' = releases /\ policies' = policies
      BY <1>2, Zenon DEF SetNodeJoinPolicy
    <2> QED
      BY <2>2, <2>3, <2>4, SvnAssumption, SMTT(30) DEF ReleaseInv, ReleaseTypeOK, FloorHolds, Svns
  <1>3. ASSUME NEW s \in Signatures, NEW p \in PolicyIds, NEW body \in Bodies,
               SetSignedPolicy(s, p, body)
        PROVE  ReleaseInv'
    <2>1. Admits(s)
      BY <1>3, Zenon DEF SetSignedPolicy
    <2>2. s.svn \in Svns
      BY Zenon DEF Signatures
    <2>3. /\ authority' \in [did : Dids, svn : Svns] /\ authority'.svn = s.svn
          /\ newest' = s.svn /\ newest <= s.svn
      BY <1>3, <2>1, SignedChange, ZenonT(40) DEF SetSignedPolicy
    <2>4. /\ UNCHANGED <<join_policy, join_tables>>
          /\ policies' = [policies EXCEPT ![p] = body]
      BY <1>3, Zenon DEF SetSignedPolicy
    <2>5. policies' \in [PolicyIds -> Bodies \cup {NoBody}]
      BY <2>4, Zenon DEF ReleaseInv, ReleaseTypeOK
    <2> QED
      BY <2>2, <2>3, <2>4, <2>5, SvnAssumption, SMTT(30) DEF ReleaseInv, ReleaseTypeOK, FloorHolds, Svns
  <1>4. ASSUME NEW p \in PolicyIds, NEW body \in Bodies, SetUnsignedPolicy(p, body)
        PROVE  ReleaseInv'
    BY <1>4, Zenon DEF SetUnsignedPolicy, ReleaseInv, ReleaseTypeOK, FloorHolds
  <1>5. ASSUME NEW release \in Releases, AdjustJoinTables(release)
        PROVE  ReleaseInv'
    BY <1>5, Zenon DEF AdjustJoinTables, ReleaseInv, ReleaseTypeOK, FloorHolds
  <1>6. CASE UNCHANGED releaseVars
    BY <1>6, Zenon DEF releaseVars, ReleaseInv, ReleaseTypeOK, FloorHolds
  <1> QED
    BY <1>1, <1>2, <1>3, <1>4, <1>5, <1>6, Zenon DEF ReleaseNext

\* Every stored record keeps its type.
THEOREM ReleaseTypeCorrect == ReleaseSpec => []ReleaseTypeOK
  <1>1. ReleaseInv => ReleaseTypeOK
    BY Zenon DEF ReleaseInv
  <1> QED
    BY ReleaseInitSound, ReleaseStepSound, <1>1, PTL DEF ReleaseSpec

\* No change signed under a passed svn is ever applied: the authority's svn is
\* at least that of every signed change applied before, through any number of
\* rotations of the authority, and no join policy is ahead of it.
THEOREM FloorCorrect == ReleaseSpec => []FloorHolds
  <1>1. ReleaseInv => FloorHolds
    BY Zenon DEF ReleaseInv
  <1> QED
    BY ReleaseInitSound, ReleaseStepSound, <1>1, PTL DEF ReleaseSpec

\* adns_set_node_join_policy only ever moves the policy's svn up, and no other
\* action touches it.
THEOREM JoinPolicyOnlyAdvances == ReleaseSpec => JoinPolicyAdvances
  <1>1. ReleaseInv /\ [ReleaseNext]_releaseVars => [join_policy' # join_policy => join_policy'.svn > join_policy.svn]_releaseVars
    <2> SUFFICES ASSUME ReleaseInv, [ReleaseNext]_releaseVars, join_policy' # join_policy
                 PROVE  join_policy'.svn > join_policy.svn
      BY Zenon
    <2>1. PICK s \in Signatures, releases \in SUBSET Releases : SetNodeJoinPolicy(s, releases)
      BY Zenon DEF ReleaseNext, releaseVars, SetReleaseAuthority, SetSignedPolicy, SetUnsignedPolicy,
             AdjustJoinTables
    <2>2. join_policy'.svn = s.svn /\ s.svn \in Nat /\ s.svn >= 1
      BY <2>1, SvnAssumption DEF SetNodeJoinPolicy, Signatures, Svns
    <2>3. join_policy = NoPolicy \/ s.svn > join_policy.svn
      BY <2>1, Zenon DEF SetNodeJoinPolicy, Advances
    <2> QED
      BY <2>2, <2>3 DEF NoPolicy
  <1> QED
    BY ReleaseInitSound, ReleaseStepSound, <1>1, PTL DEF ReleaseSpec, JoinPolicyAdvances

\* The content a policy_id was accepted with is its content for ever.
THEOREM PolicyNeverChanges == ReleaseSpec => PolicyImmutable
  <1>1. ReleaseInv /\ [ReleaseNext]_releaseVars =>
          [\A p \in PolicyIds : policies[p] # NoBody => policies'[p] = policies[p]]_releaseVars
    <2> SUFFICES ASSUME ReleaseInv, [ReleaseNext]_releaseVars, NEW q \in PolicyIds, policies[q] # NoBody
                 PROVE  policies'[q] = policies[q]
      BY Zenon
    <2>1. ASSUME NEW p \in PolicyIds, NEW body \in Bodies, SameIdentity(p, body),
                 policies' = [policies EXCEPT ![p] = body]
          PROVE  policies'[q] = policies[q]
      BY <2>1, Zenon DEF SameIdentity, ReleaseInv, ReleaseTypeOK
    <2>2. ASSUME UNCHANGED policies PROVE policies'[q] = policies[q]
      BY <2>2, Zenon
    <2> QED
      BY <2>1, <2>2, ZenonT(40) DEF ReleaseNext, releaseVars, SetReleaseAuthority, SetNodeJoinPolicy, SetSignedPolicy,
                        SetUnsignedPolicy, AdjustJoinTables
  <1> QED
    BY ReleaseInitSound, ReleaseStepSound, <1>1, PTL DEF ReleaseSpec, PolicyImmutable

-----------------------------------------------------------------------------
(* Deployment.                                                             *)

\* A build goes on from inputs that were validated, and the parameters file is of
\* one such build: both containers' keys are of one control directory.
BuildSound ==
    /\ DOMAIN build = {"read", "image", "otel", "left"}
    /\ build # NoBuild => ValidatedControl(build.read)
    /\ DOMAIN output = {"template", "parameters", "rules"}
    /\ output.parameters # Absent => output.parameters.json = output.parameters.b64

\* What run.py has read so far is of the manifest that the policy names, and what
\* CCF was given is all of what was read.
GuestSound ==
    /\ DOMAIN guest = {"stage", "policy", "primaryKey", "secondaryKey", "mounts", "verified", "node"}
    /\ guest.stage \in {"none", "started", "reading", "running"}
    /\ guest.primaryKey = guest.secondaryKey
    /\ guest.stage = "reading" =>
          /\ "manifest" \in DOMAIN guest.verified
          /\ \A f \in DOMAIN guest.verified : guest.verified[f] = guest.policy
    /\ guest.stage = "running" => \A f \in Mounted : guest.node[f] = guest.policy

\* Before the first build there is nothing to be wrong about.
LEMMA DeployInitSound == DeployInit => BuildSound /\ GuestSound
  BY SMTT(30) DEF DeployInit, BuildSound, GuestSound, NoBuild, NoDeployment

\* Every step keeps what is true of the last build.
LEMMA BuildStep ==
  ASSUME BuildSound, [DeployNext]_deployVars
  PROVE  BuildSound'
  <1>1. ASSUME NEW control, NEW image, NEW otel, Build(control, image, otel) PROVE BuildSound'
    BY <1>1, ZenonT(40) DEF Build, BuildSound
  <1>2. CASE WriteOutput
    <2>1. build # NoBuild
      BY <1>2 DEF WriteOutput, NoBuild
    <2>2. DOMAIN build' = DOMAIN build /\ (build' # NoBuild => ValidatedControl(build'.read))
      BY <1>2, <2>1, Zenon DEF WriteOutput, BuildSound, NoBuild
    <2>3. /\ DOMAIN output' = DOMAIN output
          /\ output'.parameters \in {output.parameters, Written("parameters")}
      BY <1>2, Zenon DEF WriteOutput, BuildSound
    <2>4. Written("parameters").json = Written("parameters").b64
      BY <2>1, Zenon DEF Written, BuildSound, ValidatedControl
    <2> QED BY <2>2, <2>3, <2>4, Zenon DEF BuildSound, ValidatedControl
  <1>3. CASE BuildDies
    BY <1>3, Zenon DEF BuildDies, BuildSound, NoBuild
  <1>4. CASE Confcom
    BY <1>4, Zenon DEF Confcom, BuildSound, ValidatedControl
  <1>5. ASSUME UNCHANGED <<build, output>> PROVE BuildSound'
    BY <1>5, Zenon DEF BuildSound, ValidatedControl
  <1>6. CASE Check \/ Deploy \/ ReadManifest \/ Freeze \/ UNCHANGED deployVars
    BY <1>5, <1>6, Zenon DEF Check, Deploy, ReadManifest, Freeze, deployVars
  <1>7. ASSUME NEW f \in Mounted, ReadFile(f) \/ \E g \in Generations : HostMounts(f, g) PROVE BuildSound'
    BY <1>5, <1>7, Zenon DEF ReadFile, HostMounts
  <1>8. ASSUME NEW i \in Archives, Rebuild(i) PROVE BuildSound'
    BY <1>5, <1>8, Zenon DEF Rebuild
  <1> QED
    BY <1>1, <1>2, <1>3, <1>4, <1>6, <1>7, <1>8, Zenon DEF DeployNext

\* Every step keeps what is true of the guests.
LEMMA GuestStep ==
  ASSUME BuildSound, GuestSound, [DeployNext]_deployVars
  PROVE  GuestSound'
  <1>1. CASE Deploy
    BY <1>1, Zenon DEF Deploy, GuestSound, BuildSound, NoDeployment
  <1>2. ASSUME NEW f \in Mounted, NEW g \in Generations, HostMounts(f, g) PROVE GuestSound'
    BY <1>2, Zenon DEF HostMounts, GuestSound
  <1>3. NoDeployment.stage = "none" /\ (guest' = NoDeployment => GuestSound')
    BY SMTT(30) DEF NoDeployment, GuestSound
  <1>4. CASE ReadManifest
    <2>1. CASE guest.mounts["manifest"] = guest.policy
      <3>1. guest' = [guest EXCEPT !.stage = "reading", !.verified = [f \in {"manifest"} |-> guest.mounts[f]]]
        BY <1>4, <2>1, Zenon DEF ReadManifest
      <3>2. /\ guest'.stage = "reading" /\ guest'.policy = guest.policy
            /\ guest'.primaryKey = guest.primaryKey /\ guest'.secondaryKey = guest.secondaryKey
            /\ DOMAIN guest' = DOMAIN guest /\ guest'.verified = [f \in {"manifest"} |-> guest.mounts[f]]
        BY <3>1, Zenon DEF GuestSound
      <3> QED BY <2>1, <3>2, Zenon DEF GuestSound
    <2> QED BY <1>3, <1>4, <2>1, Zenon DEF ReadManifest
  <1>5. ASSUME NEW f \in Mounted, ReadFile(f) PROVE GuestSound'
    <2>1. guest.stage = "reading" /\ guest.verified["manifest"] = guest.policy
      BY <1>5, Zenon DEF ReadFile, GuestSound
    <2>2. CASE guest.mounts[f] = guest.policy
      <3> DEFINE v == [e \in DOMAIN guest.verified \cup {f} |->
                      IF e = f THEN guest.mounts[f] ELSE guest.verified[e]]
      <3>1. guest' = [guest EXCEPT !.verified = v]
        BY <1>5, <2>1, <2>2, Zenon DEF ReadFile
      <3>2. DOMAIN v = DOMAIN guest.verified \cup {f} /\ \A e \in DOMAIN v : v[e] = guest.policy
        BY <2>1, <2>2, Zenon DEF GuestSound
      <3> HIDE DEF v
      <3>3. /\ guest'.stage = "reading" /\ guest'.policy = guest.policy
            /\ guest'.primaryKey = guest.primaryKey /\ guest'.secondaryKey = guest.secondaryKey
            /\ DOMAIN guest' = DOMAIN guest /\ guest'.verified = v
        BY <2>1, <3>1, Zenon DEF GuestSound
      <3> QED BY <2>1, <3>2, <3>3, Zenon DEF GuestSound
    <2> QED BY <1>3, <1>5, <2>1, <2>2, Zenon DEF ReadFile
  <1>6. CASE Freeze
    <2>1. Mounted \subseteq DOMAIN guest.verified
      BY <1>6, Zenon DEF Freeze, Referenced, GuestSound, Mounted
    <2>2. \A f \in Mounted : guest.verified[f] = guest.policy
      BY <1>6, <2>1, Zenon DEF Freeze, GuestSound
    <2>3. guest' = [guest EXCEPT !.stage = "running", !.node = guest.verified]
      BY <1>6, Zenon DEF Freeze
    <2> QED BY <2>2, <2>3, Zenon DEF GuestSound
  <1>7. ASSUME UNCHANGED guest PROVE GuestSound'
    BY <1>7, Zenon DEF GuestSound
  <1>8. CASE WriteOutput \/ BuildDies \/ Confcom \/ Check \/ UNCHANGED deployVars
    BY <1>7, <1>8, Zenon DEF WriteOutput, BuildDies, Confcom, Check, deployVars
  <1>9. ASSUME NEW i \in Archives, Rebuild(i) \/ \E control \in Directories, otel \in Otel : Build(control, i, otel)
        PROVE  GuestSound'
    BY <1>7, <1>9, Zenon DEF Rebuild, Build
  <1> QED
    BY <1>1, <1>2, <1>4, <1>5, <1>6, <1>8, <1>9, Zenon DEF DeployNext

\* A node that runs was given the files of the manifest its measured command
\* pins, whatever the host mounted meanwhile, and the containers of a group hold one
\* transfer key: for any control directories, mixtures of them and archives.
THEOREM DeploymentCorrect == DeploySpec => []DeploymentSound
  <1>1. BuildSound /\ GuestSound /\ [DeployNext]_deployVars => BuildSound' /\ GuestSound'
    BY BuildStep, GuestStep, Zenon
  <1>2. GuestSound => DeploymentSound
    BY Zenon DEF GuestSound, DeploymentSound
  <1> QED BY <1>1, <1>2, DeployInitSound, PTL DEF DeploySpec

=============================================================================

------------------------------- MODULE MCTools -------------------------------
(***************************************************************************)
(* The programs around the node, in one instance for TLC.  They share no   *)
(* state, so a behaviour chooses one of them at the start and takes only   *)
(* its steps: the states of the parts add up.                              *)
(***************************************************************************)
EXTENDS HostDriver, CaptureSigner, CaptureServer, EvidenceCheck, CaptureFlow,
        ControlFlow, Receipts, BackendHost, TraceExport, ReleaseTool,
        Anchors

CONSTANTS t1, t2, u1, w1,            \* HostDriver
          h1, h2, h3, m1             \* CaptureServer

SoaOnly == [w \in Work |-> "soa"]
OnePermit == [l \in {"tcp", "udp"} |-> 1]
Listeners == [c \in Connections |-> IF c = m1 THEN "smtp" ELSE "https"]

VARIABLE part

Parts == {"driver", "signer", "server", "check", "flow", "control", "receipts",
          "secondary", "backend", "trace", "release", "anchors"}

toolVars == <<part, driverVars, signerVars, serverVars, checkVars, flowVars,
              controlVars, receiptVars, secondaryVars, backendVars, traceVars,
              releaseToolVars, anchorVars>>

ToolsInit ==
    /\ part \in Parts
    /\ DriverInit /\ SignerInit /\ ServerInit /\ CheckInit /\ FlowInit
    /\ ControlInit /\ ReceiptsInit /\ SecondaryInit /\ BackendInit
    /\ TraceInit /\ ReleaseToolInit /\ AnchorsInit

ToolsNext ==
    \/ /\ part = "driver" /\ DriverNext
       /\ UNCHANGED <<part, signerVars, serverVars, checkVars, flowVars,
                      controlVars, receiptVars, secondaryVars, backendVars,
                      traceVars, releaseToolVars, anchorVars>>
    \/ /\ part = "signer" /\ SignerNext
       /\ UNCHANGED <<part, driverVars, serverVars, checkVars, flowVars,
                      controlVars, receiptVars, secondaryVars, backendVars,
                      traceVars, releaseToolVars, anchorVars>>
    \/ /\ part = "server" /\ ServerNext
       /\ UNCHANGED <<part, driverVars, signerVars, checkVars, flowVars,
                      controlVars, receiptVars, secondaryVars, backendVars,
                      traceVars, releaseToolVars, anchorVars>>
    \/ /\ part = "check" /\ CheckNext
       /\ UNCHANGED <<part, driverVars, signerVars, serverVars, flowVars,
                      controlVars, receiptVars, secondaryVars, backendVars,
                      traceVars, releaseToolVars, anchorVars>>
    \/ /\ part = "flow" /\ FlowNext
       /\ UNCHANGED <<part, driverVars, signerVars, serverVars, checkVars,
                      controlVars, receiptVars, secondaryVars, backendVars,
                      traceVars, releaseToolVars, anchorVars>>
    \/ /\ part = "control" /\ ControlNext
       /\ UNCHANGED <<part, driverVars, signerVars, serverVars, checkVars,
                      flowVars, receiptVars, secondaryVars, backendVars,
                      traceVars, releaseToolVars, anchorVars>>
    \/ /\ part = "receipts" /\ ReceiptsNext
       /\ UNCHANGED <<part, driverVars, signerVars, serverVars, checkVars,
                      flowVars, controlVars, secondaryVars, backendVars,
                      traceVars, releaseToolVars, anchorVars>>
    \/ /\ part = "secondary" /\ SecondaryNext
       /\ UNCHANGED <<part, driverVars, signerVars, serverVars, checkVars,
                      flowVars, controlVars, receiptVars, backendVars,
                      traceVars, releaseToolVars, anchorVars>>
    \/ /\ part = "backend" /\ BackendNext
       /\ UNCHANGED <<part, driverVars, signerVars, serverVars, checkVars,
                      flowVars, controlVars, receiptVars, secondaryVars,
                      traceVars, releaseToolVars, anchorVars>>
    \/ /\ part = "trace" /\ TraceNext
       /\ UNCHANGED <<part, driverVars, signerVars, serverVars, checkVars,
                      flowVars, controlVars, receiptVars, secondaryVars,
                      backendVars, releaseToolVars, anchorVars>>
    \/ /\ part = "release" /\ ReleaseToolNext
       /\ UNCHANGED <<part, driverVars, signerVars, serverVars, checkVars,
                      flowVars, controlVars, receiptVars, secondaryVars,
                      backendVars, traceVars, anchorVars>>
    \/ /\ part = "anchors" /\ AnchorsNext
       /\ UNCHANGED <<part, driverVars, signerVars, serverVars, checkVars,
                      flowVars, controlVars, receiptVars, secondaryVars,
                      backendVars, traceVars, releaseToolVars>>

ToolsSpec == ToolsInit /\ [][ToolsNext]_toolVars

=============================================================================

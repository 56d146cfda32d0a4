----------------------------- MODULE Deployment -----------------------------
(***************************************************************************)
(* From a control directory to a running node: tools/prepare_aci_control.py*)
(* writes the directory, build_aci_template.py turns it into a template,   *)
(* parameters and environment rules, confcom (external) adds the container *)
(* policy, check_aci_template.py checks the result, the operator deploys   *)
(* it, and in the guest ccf/run.py starts CCF from the mounted files its   *)
(* command line pins.  Each program may die between two files, the         *)
(* operator may use a file of another control directory or of an earlier   *)
(* build, and the host changes what it mounts whenever it likes.           *)
(*                                                                         *)
(* A generation is one run of prepare_aci_control.py.  A file is the       *)
(* generation it is of: the manifest of g has the digests of g's files and *)
(* the summary of g those of g's manifest, member and transfer key.        *)
(***************************************************************************)
EXTENDS Naturals, Sequences

CONSTANTS Generations, Archives, Absent

ASSUME DeploymentAssumption == Absent \notin Generations \cup Archives

VARIABLES archive,   \* the image archive on disk
          build,     \* build_aci_template.py: what it read and the files it has yet to write
          output,    \* its output directory
          checked,   \* the template check_aci_template.py accepted last
          guest      \* what was deployed: its policy, secrets and mounts, and how far run.py is

deployVars == <<archive, build, output, checked, guest>>

Mounted == {"cert", "node", "manifest"}   \* the public-config volume
\* The control directory, in the order it is written.
ControlOrder == <<"cert", "node", "manifest", "keyJson", "keyB64", "summary">>
ControlFiles == {ControlOrder[i] : i \in DOMAIN ControlOrder}
Otel == {"off", "on"}

NoDeployment == [stage |-> "none", policy |-> Absent, primaryKey |-> Absent, secondaryKey |-> Absent,
            mounts |-> <<>>, verified |-> <<>>, node |-> <<>>]
NoBuild == [read |-> <<>>, image |-> Absent, otel |-> "off", left |-> <<>>]

DeployInit ==
    /\ archive = Absent
    /\ build = NoBuild /\ output = [template |-> Absent, parameters |-> Absent, rules |-> Absent]
    /\ checked = Absent /\ guest = NoDeployment

-----------------------------------------------------------------------------

\* prepare_aci_control.main: it creates the files of a new directory one by one,
\* replaces none, and may stop after any of them.
Prepare(g, n) == [f \in ControlFiles |-> IF \E i \in 1..n : ControlOrder[i] = f THEN g ELSE Absent]

\* The directories there may be: those, and any mixture of whole ones.
Directories == {Prepare(g, n) : g \in Generations, n \in DOMAIN ControlOrder} \cup [ControlFiles -> Generations]

\* validated_control: summary, manifest, files and both forms of the key agree.
ValidatedControl(c) ==
    /\ \A f \in ControlFiles : c[f] # Absent
    /\ c["manifest"] = c["summary"]
    /\ c["node"] = c["manifest"] /\ c["cert"] = c["manifest"] /\ c["cert"] = c["summary"]
    /\ c["keyJson"] = c["summary"] /\ c["keyB64"] = c["keyJson"]

Offline == guest.stage = "none"   \* one deployment is followed at a time

\* build_aci_template.main: the inputs are read and validated, then the files
\* are written over those of an earlier build.
Build(control, image, otel) ==
    /\ Offline /\ build = NoBuild /\ ValidatedControl(control)
    /\ build' = [read |-> control, image |-> image, otel |-> otel, left |-> <<"template", "parameters", "rules">>]
    /\ UNCHANGED <<archive, output, checked, guest>>

Written(f) ==
    CASE f = "template"   -> [node |-> build.read["node"], cert |-> build.read["cert"], manifest |-> build.read["manifest"],
                              command |-> build.read["summary"], image |-> build.image, otel |-> build.otel, cce |-> Absent]
      [] f = "parameters" -> [json |-> build.read["keyJson"], b64 |-> build.read["keyB64"]]
      [] f = "rules"      -> build.otel

WriteOutput ==
    /\ build.left # <<>>
    /\ output' = [output EXCEPT ![Head(build.left)] = Written(Head(build.left))]
    /\ build' = IF Len(build.left) = 1 THEN NoBuild ELSE [build EXCEPT !.left = Tail(@)]
    /\ UNCHANGED <<archive, checked, guest>>

BuildDies ==
    /\ build # NoBuild /\ build' = NoBuild
    /\ UNCHANGED <<archive, output, checked, guest>>

\* The image is built again (external).
Rebuild(i) ==
    /\ Offline /\ i # archive /\ archive' = i
    /\ UNCHANGED <<build, output, checked, guest>>

\* confcom: a policy of the template's command, the rules file and the archive.
Confcom ==
    /\ Offline /\ archive # Absent /\ output.template # Absent /\ output.rules # Absent
    /\ output' = [output EXCEPT !.template.cce =
                    [command |-> output.template.command, otel |-> output.rules, image |-> archive]]
    /\ UNCHANGED <<archive, build, checked, guest>>

\* archive_image: the manifest, configuration and layers in the archive are those
\* of the digest the template names.
ArchiveImage(image) == archive = image

\* check: of the archive, the policy's command and environment (validate_otel)
\* and the embedded files.  The policy's layers are only counted.
Check ==
    LET t == output.template IN
    /\ Offline /\ t # Absent /\ t.cce # Absent
    /\ ArchiveImage(t.image)
    /\ t.cce.command = t.command /\ t.command = t.manifest
    /\ t.node = t.manifest /\ t.cert = t.manifest
    /\ t.cce.otel = t.otel
    /\ checked' = t
    /\ UNCHANGED <<archive, build, output, guest>>

\* The checked template is deployed with the parameters beside it; a container
\* whose layers are not the policy's does not start.
Deploy ==
    /\ Offline /\ build = NoBuild /\ output.template # Absent /\ output.parameters # Absent
    /\ checked = output.template /\ checked.cce.image = checked.image
    /\ guest' = [NoDeployment EXCEPT !.stage = "started", !.policy = checked.cce.command,
                                !.primaryKey = output.parameters.json, !.secondaryKey = output.parameters.b64,
                                !.mounts = [f \in Mounted |-> checked[f]]]
    /\ UNCHANGED <<archive, build, output, checked>>

-----------------------------------------------------------------------------
(* In the guest.                                                           *)

HostMounts(f, g) ==
    /\ guest.stage # "none" /\ guest' = [guest EXCEPT !.mounts[f] = g]
    /\ UNCHANGED <<archive, build, output, checked>>

\* pinned_configuration: the manifest is the one of the command line.
ReadManifest ==
    /\ guest.stage = "started"
    /\ guest' = IF guest.mounts["manifest"] = guest.policy
                THEN [guest EXCEPT !.stage = "reading", !.verified = [f \in {"manifest"} |-> guest.mounts[f]]]
                ELSE NoDeployment
    /\ UNCHANGED <<archive, build, output, checked>>

\* Each file is read once and must have the digest of the manifest.
ReadFile(f) ==
    /\ guest.stage = "reading" /\ f \notin DOMAIN guest.verified
    /\ guest' = IF guest.mounts[f] = guest.verified["manifest"]
                THEN [guest EXCEPT !.verified = [e \in DOMAIN guest.verified \cup {f} |->
                                                   IF e = f THEN guest.mounts[f] ELSE guest.verified[e]]]
                ELSE NoDeployment
    /\ UNCHANGED <<archive, build, output, checked>>

\* The files the node configuration refers to, itself included, are all in the
\* manifest.
Referenced == {"node", "cert"} \subseteq DOMAIN guest.verified

\* Faulty variant: CCF is given the paths it was configured with.
Freeze_Paths ==
    /\ guest.stage = "reading" /\ Referenced
    /\ guest' = [guest EXCEPT !.stage = "running", !.node = guest.mounts]
    /\ UNCHANGED <<archive, build, output, checked>>

\* The bytes that were hashed are written to the confidential state directory
\* and CCF is given those.
Freeze ==
    /\ guest.stage = "reading" /\ Referenced
    /\ guest' = [guest EXCEPT !.stage = "running", !.node = guest.verified]
    /\ UNCHANGED <<archive, build, output, checked>>

DeployNext ==
    \/ \E i \in Archives : Rebuild(i) \/ \E control \in Directories, otel \in Otel : Build(control, i, otel)
    \/ WriteOutput \/ BuildDies \/ Confcom \/ Check \/ Deploy
    \/ \E f \in Mounted : ReadFile(f) \/ \E g \in Generations : HostMounts(f, g)
    \/ ReadManifest \/ Freeze

DeploySpec == DeployInit /\ [][DeployNext]_deployVars

-----------------------------------------------------------------------------

\* A node runs one control directory's configuration, the one its measured
\* command pins: every file CCF opens is of that manifest, although the host may
\* remount each of them while run.py reads and after it.  And the two containers
\* of a group hold one transfer key, although template and parameters may be
\* of different builds.
DeploymentSound ==
    /\ guest.stage = "running" => \A f \in Mounted : guest.node[f] = guest.policy
    /\ guest.primaryKey = guest.secondaryKey

=============================================================================

---------------------------- MODULE SecondaryHost ----------------------------
(***************************************************************************)
(* Putting a stock secondary on a virtual machine (tools/secondary_vm.py)  *)
(* or into the container group of the node (tools/secondary_aci.py).  On   *)
(* the machine the provisioning program may be started again, also while   *)
(* an earlier one still runs, for another primary and secret, and may fail *)
(* after any step; nothing it wrote is taken back.  In the group the       *)
(* platform restarts the container with the same environment.              *)
(*                                                                         *)
(* A setting is a primary with its transfer key; a file has the one or the *)
(* other in it, or is torn when the writer died within it.                 *)
(***************************************************************************)
EXTENDS Naturals

CONSTANTS Provisioners, Primaries, Secrets, Unset, Torn

ASSUME SecondaryHostAssumption == {Unset, Torn} \cap (Primaries \cup Secrets) = {}

Settings == [primary : Primaries, secret : Secrets]

VARIABLES provision,   \* each running secondary_vm.py
          config,      \* /opt/agentdns-secondary/config
          machine,     \* what the container agentdns-secondary was started on
          group        \* the secondary of the container group

secondaryVars == <<provision, config, machine, group>>

NoProvision == [step |-> "ended", setting |-> Unset]
NoContainer == [conf |-> Unset, key |-> Unset, by |-> Unset]

\* configuration: it names the primary, and includes the key file.
Configuration(setting) == setting.primary

\* secret_from_file, of the private file the operator passes.
SecretFromFile(setting) == setting.secret

Contents(file, setting) ==
    IF file = "conf" THEN Configuration(setting) ELSE SecretFromFile(setting)

\* A group just deployed with the settings in its environment.
Deployed(env) == [env |-> env, conf |-> Unset, written |-> FALSE, serves |-> Unset]

SecondaryInit ==
    /\ provision = [p \in Provisioners |-> NoProvision]
    /\ config = [conf |-> Unset, key |-> Unset]
    /\ machine = NoContainer
    /\ group = Deployed(Unset)

-----------------------------------------------------------------------------
(* secondary_vm.main.                                                      *)

StepsTo(p, step) == provision' = [provision EXCEPT ![p].step = step]
Aborts(p) == provision' = [provision EXCEPT ![p] = NoProvision]

\* An existing container is never replaced.
InspectContainer(p, setting) ==
    /\ provision[p] = NoProvision /\ machine = NoContainer
    /\ provision' = [provision EXCEPT ![p] = [step |-> "token", setting |-> setting]]
    /\ UNCHANGED <<config, machine, group>>

\* request_json: two identity requests of up to thirty seconds each.
IdentityToken(p) ==
    /\ provision[p].step = "token"
    /\ StepsTo(p, "pull")
    /\ UNCHANGED <<config, machine, group>>

\* docker login and docker pull, by the pinned digest.
PullImage(p) ==
    /\ provision[p].step = "pull"
    /\ StepsTo(p, "conf")
    /\ UNCHANGED <<config, machine, group>>

\* Faulty variant: the files of an earlier attempt are replaced.
CreateFile_Replace(p, file, next) ==
    /\ provision[p].step = file
    /\ \E written \in {Contents(file, provision[p].setting), Torn} :
          /\ config' = [config EXCEPT ![file] = written]
          /\ IF written = Torn THEN Aborts(p) ELSE StepsTo(p, next)
    /\ UNCHANGED <<machine, group>>

\* open("x"): a file that exists ends the program.
CreateFile(p, file, next) ==
    /\ provision[p].step = file
    /\ IF config[file] # Unset THEN Aborts(p) /\ UNCHANGED config
       ELSE \E written \in {Contents(file, provision[p].setting), Torn} :
               /\ config' = [config EXCEPT ![file] = written]
               /\ IF written = Torn THEN Aborts(p) ELSE StepsTo(p, next)
    /\ UNCHANGED <<machine, group>>

\* named-checkconf, which follows the include.
CheckConfiguration(p) ==
    /\ provision[p].step = "check"
    /\ IF Torn \in {config.conf, config.key} THEN Aborts(p) ELSE StepsTo(p, "run")
    /\ UNCHANGED <<config, machine, group>>

\* docker run --name: the daemon refuses a name that is taken.
RunContainer(p) ==
    /\ provision[p].step = "run"
    /\ machine' = IF machine = NoContainer
                  THEN [conf |-> config.conf, key |-> config.key, by |-> provision[p].setting]
                  ELSE machine
    /\ Aborts(p)
    /\ UNCHANGED <<config, group>>

ProvisionFails(p) ==
    /\ provision[p] # NoProvision
    /\ Aborts(p)
    /\ UNCHANGED <<config, machine, group>>

\* --restart unless-stopped: named reads the mounted directory again.
ContainerRestarts ==
    /\ machine # NoContainer
    /\ machine' = [machine EXCEPT !.conf = config.conf, !.key = config.key]
    /\ UNCHANGED <<provision, config, group>>

\* The operator removes the container, or clears the directory as well, once no
\* provisioning runs.
OperatorRemoves ==
    /\ \A p \in Provisioners : provision[p] = NoProvision
    /\ machine' = NoContainer
    /\ config' \in {config, [conf |-> Unset, key |-> Unset]}
    /\ UNCHANGED <<provision, group>>

-----------------------------------------------------------------------------
(* secondary_aci.main.                                                     *)

\* The configuration of an earlier start is truncated and written again; the
\* container may end halfway.
WriteNamedConf ==
    /\ group.env # Unset /\ group.serves = Unset /\ ~group.written
    /\ group' \in {[group EXCEPT !.conf = group.env, !.written = TRUE], [group EXCEPT !.conf = Torn]}
    /\ UNCHANGED <<provision, config, machine>>

\* named-checkconf, then exec: the secret is only in the file by now.
ExecNamed ==
    /\ group.written /\ group.serves = Unset
    /\ group' = [group EXCEPT !.serves = group.conf]
    /\ UNCHANGED <<provision, config, machine>>

\* The container ends; it is started again, or the group is deployed anew.
GroupRestarts ==
    /\ group' \in {[group EXCEPT !.serves = Unset, !.written = FALSE]} \cup {Deployed(s) : s \in Settings}
    /\ UNCHANGED <<provision, config, machine>>

SecondaryNext ==
    \/ \E p \in Provisioners :
          \/ \E setting \in Settings : InspectContainer(p, setting)
          \/ IdentityToken(p) \/ PullImage(p) \/ CheckConfiguration(p) \/ RunContainer(p) \/ ProvisionFails(p)
          \/ CreateFile(p, "conf", "key") \/ CreateFile(p, "key", "check")
    \/ ContainerRestarts \/ OperatorRemoves
    \/ WriteNamedConf \/ ExecNamed \/ GroupRestarts

SecondarySpec == SecondaryInit /\ [][SecondaryNext]_secondaryVars

-----------------------------------------------------------------------------

\* A secondary that runs was configured by one provisioning: its primary and
\* its key belong together and to the program that started it, although
\* two of them may write the directory at once, each may die in the middle of a
\* file, and the container reads the directory at every restart.  In the group it
\* serves with the key of its own environment.
SecondaryWhole ==
    /\ machine # NoContainer =>
          /\ machine.conf = Configuration(machine.by)
          /\ machine.key = SecretFromFile(machine.by)
    /\ group.serves \in {Unset, group.env}

=============================================================================

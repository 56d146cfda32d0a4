----------------------------- MODULE BackendHost -----------------------------
(***************************************************************************)
(* The trace backend put on the machine of the secondary                   *)
(* (install-backend-frozen.py and the verify-backend.py it runs).  The     *)
(* installer may be started several times, with different protected        *)
(* payloads, may fail or be killed at every step, and must leave the       *)
(* secondary alone.                                                        *)
(***************************************************************************)
EXTENDS SecondaryHost

CONSTANTS Installers, Credentials

ASSUME BackendHostAssumption ==
    {Unset, Torn} \cap (Credentials \cup {"prepared", "passed", "failed"}) = {}

VARIABLES installer,   \* each running installer
          marker,      \* deployment-state.json
          private,     \* the credentials under STATE/private
          paths,       \* which of STATE and ROOT exist
          project,     \* the credentials the containers of the project serve with
          bind         \* the secondary: the expected process, another one, or none

backendVars == <<installer, marker, private, paths, project, bind>>

\* Nothing compares the authorization of the smoke test with the password file
\* beforehand.
Protected == [public : {"exact", "altered"}, private : Credentials, auth : Credentials]

NoInstaller == [step |-> "ended", payload |-> Unset]

BackendInit ==
    /\ installer = [i \in Installers |-> NoInstaller]
    /\ marker = Unset /\ private = Unset /\ paths = {} /\ project = Unset
    /\ bind = "expected"

Proceeds(i, step) == installer' = [installer EXCEPT ![i].step = step]
Leaves(i) == installer' = [installer EXCEPT ![i] = NoInstaller]

-----------------------------------------------------------------------------
(* install-backend-frozen.main.                                            *)

\* The payload's public files have the hashes written into the installer, and
\* nothing is there yet.
DecodePayload(i, payload) ==
    /\ installer[i] = NoInstaller
    /\ payload.public = "exact" /\ paths = {}
    /\ installer' = [installer EXCEPT ![i] = [step |-> "prepare", payload |-> payload]]
    /\ UNCHANGED <<marker, private, paths, project, bind>>

\* Faulty variant: an existing state directory is accepted.
PrepareState_ExistOk(i) ==
    /\ installer[i].step = "prepare"
    /\ paths' = paths \cup {"state"}
    /\ Proceeds(i, "mark")
    /\ UNCHANGED <<marker, private, project, bind>>

\* mkdir without exist_ok decides between two that saw nothing; the loser ends
\* outside the try, and writes no marker.
PrepareState(i) ==
    /\ installer[i].step = "prepare"
    /\ IF "state" \in paths THEN Leaves(i) /\ UNCHANGED paths
       ELSE paths' = paths \cup {"state"} /\ Proceeds(i, "mark")
    /\ UNCHANGED <<marker, private, project, bind>>

MarkPrepared(i) ==
    /\ installer[i].step = "mark"
    /\ IF marker # Unset THEN Leaves(i) /\ UNCHANGED marker
       ELSE marker' = "prepared" /\ Proceeds(i, "preflight")
    /\ UNCHANGED <<private, paths, project, bind>>

\* preflight.sh: the secondary is the process recorded in it, never restarted,
\* and nothing listens on the ports of the backend.
BindBefore(i) ==
    /\ installer[i].step = "preflight"
    /\ bind = "expected" /\ project = Unset
    /\ Proceeds(i, "public")
    /\ UNCHANGED <<marker, private, paths, project, bind>>

\* ROOT.mkdir and the public files.
WritePublic(i) ==
    /\ installer[i].step = "public" /\ "root" \notin paths
    /\ paths' = paths \cup {"root"}
    /\ Proceeds(i, "private")
    /\ UNCHANGED <<marker, private, project, bind>>

\* Created with "xb"; a failure within leaves a torn set.
WritePrivate(i) ==
    /\ installer[i].step = "private" /\ private = Unset
    /\ \/ private' = installer[i].payload.private /\ Proceeds(i, "compose") /\ UNCHANGED marker
       \/ private' = Torn /\ marker' = "failed" /\ Leaves(i)
    /\ UNCHANGED <<paths, project, bind>>

\* The compose binary, its resolved configuration, the pull and the start: the
\* containers read the private files as they start.
StartProject(i) ==
    /\ installer[i].step = "compose"
    /\ project' = private
    /\ Proceeds(i, "smoke")
    /\ UNCHANGED <<marker, private, paths, bind>>

\* verify-backend: the authorization of the payload is accepted and others are
\* not, and the preflight, without its port check, still finds the secondary.
VerifyBackend(i) ==
    /\ installer[i].step = "smoke"
    /\ project = installer[i].payload.auth
    /\ bind = "expected"
    /\ Proceeds(i, "passed")
    /\ UNCHANGED <<marker, private, paths, project, bind>>

\* The marker, after which only the printing of the result is left.
MarkPassed(i) ==
    /\ installer[i].step = "passed"
    /\ marker' = "passed"
    /\ Proceeds(i, "print")
    /\ UNCHANGED <<private, paths, project, bind>>

Printed(i) ==
    /\ installer[i].step = "print"
    /\ Leaves(i)
    /\ UNCHANGED <<marker, private, paths, project, bind>>

\* except BaseException: a refused check, a deadline or a failed command.  What
\* was written and started stays.
InstallFails(i) ==
    /\ installer[i].step \notin {"ended", "prepare", "mark"}
    /\ marker' = "failed"
    /\ Leaves(i)
    /\ UNCHANGED <<private, paths, project, bind>>

\* Killed: the marker stays as it was, or is torn when it was being written.
InstallerKilled(i) ==
    /\ installer[i] # NoInstaller
    /\ marker' \in {marker} \cup (IF installer[i].step = "prepare" THEN {} ELSE {Torn})
    /\ Leaves(i)
    /\ UNCHANGED <<private, paths, project, bind>>

\* The secondary ends, or is started again as another process.
BindChanges ==
    /\ bind' \in {"other", "none"} \ {bind}
    /\ UNCHANGED <<installer, marker, private, paths, project>>

\* The operator takes the project down, and afterwards clears its paths.
OperatorClears ==
    /\ \A i \in Installers : installer[i] = NoInstaller
    /\ \/ project' = Unset /\ UNCHANGED <<marker, private, paths>>
       \/ marker' = Unset /\ private' = Unset /\ paths' = {} /\ UNCHANGED project
    /\ UNCHANGED <<installer, bind>>

BackendNext ==
    \/ \E i \in Installers :
          \/ \E payload \in Protected : DecodePayload(i, payload)
          \/ PrepareState(i) \/ MarkPrepared(i) \/ BindBefore(i) \/ WritePublic(i) \/ WritePrivate(i)
          \/ StartProject(i) \/ VerifyBackend(i) \/ MarkPassed(i) \/ Printed(i)
          \/ InstallFails(i) \/ InstallerKilled(i)
    \/ BindChanges \/ OperatorClears

BackendSpec == BackendInit /\ [][BackendNext]_backendVars

-----------------------------------------------------------------------------

\* One installation at a time: of the installers that found nothing, one gets
\* beyond the state directory, and while it works the marker does not yet say how
\* it ended.  A marker that says passed stands for an installation that is whole,
\* whose containers, if they still run, serve with the credentials on disk.
BackendWhole ==
    LET working == {i \in Installers : installer[i].step \notin {"ended", "prepare"}} IN
    /\ \A i, j \in working : i = j
    /\ \A i \in working :
          marker = CASE installer[i].step = "mark" -> Unset
                     [] installer[i].step = "print" -> "passed"
                     [] OTHER -> "prepared"
    /\ marker = "passed" =>
          /\ paths = {"state", "root"}
          /\ private \in Credentials
          /\ project \in {Unset, private}

\* Both programs that put something on the machine leave it whole.
HostsWhole == SecondaryWhole /\ BackendWhole

=============================================================================

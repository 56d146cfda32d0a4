------------------------------ MODULE MCService ------------------------------
(***************************************************************************)
(* Parts of the service that share no state, in one instance for TLC: how  *)
(* proposals are decided (GovernanceVote), what the release authority's    *)
(* apply functions admit (ReleaseAuthority), how a node is built and       *)
(* deployed (Deployment) and the development server (DevServer).  A        *)
(* behaviour is of one part, so their states add up.                       *)
(***************************************************************************)
EXTENDS GovernanceVote, ReleaseAuthority, Deployment, DevServer, TLC

CONSTANTS a1, a2, a3, h

Agent(r) == [class |-> "agent", reputation |-> r]
Human == [class |-> "trapdoor", reputation |-> 1]

Release == [kind |-> "release"]
Settlement(i) == [kind |-> "settle", target |-> i]
Promotion(m) == [kind |-> "set_governor", member |-> m, class |-> "trapdoor"]
Removal(m) == [kind |-> "remove_member", member |-> m]

\* Two experienced agents, a newcomer and a human.
MixedGovernors == (a1 :> Agent(3)) @@ (a2 :> Agent(2)) @@ (a3 :> Agent(1)) @@ (h :> Human)

Decisions == {Release, Promotion(a1), Removal(a2), Settlement(1)}

OwnWording == [i \in Ids |-> i]

PostSymmetry == Permutations(Posts)

VARIABLE part

ServiceInit ==
    /\ part \in {"vote", "release", "deployment", "dev"}
    /\ Init /\ ReleaseInit /\ DeployInit /\ DevInit

ServiceNext ==
    \/ /\ part = "vote" /\ Next
       /\ UNCHANGED <<part, releaseVars, deployVars, devVars>>
    \/ /\ part = "release" /\ ReleaseNext
       /\ UNCHANGED <<part, vars, deployVars, devVars>>
    \/ /\ part = "deployment" /\ DeployNext
       /\ UNCHANGED <<part, vars, releaseVars, devVars>>
    \/ /\ part = "dev" /\ DevNext
       /\ UNCHANGED <<part, vars, releaseVars, deployVars>>

serviceVars == <<part, vars, releaseVars, deployVars, devVars>>

ServiceSpec == ServiceInit /\ [][ServiceNext]_serviceVars

=============================================================================

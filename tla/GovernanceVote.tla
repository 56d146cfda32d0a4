--------------------------- MODULE GovernanceVote ---------------------------
(***************************************************************************)
(* How the constitution decides: proposals, ballots, the reputation-       *)
(* weighted resolve() with its trap door and its block verdicts, and the   *)
(* actions whose application feeds back into later decisions: governors,   *)
(* settlement of reputation, removal of members and the dropping of every  *)
(* other open proposal.                                                    *)
(*                                                                         *)
(* CCF, outside this repository, stores proposals and ballots, takes one   *)
(* ballot per member, calls resolve() after each and applies a proposal    *)
(* that resolve() accepts.  A proposal's text is its content and its note; *)
(* its id is drawn from an ordered set and says nothing of its age.        *)
(***************************************************************************)
EXTENDS Naturals, FiniteSets, FiniteSetsExt

CONSTANTS
    Members,
    Reviewers,      \* members who record verdicts
    Ids,            \* proposal ids, in the order in which CCF's map iterates
    Contents,       \* what proposals may contain
    NoteOf,         \* the wording that tells equal contents apart, per id
    InitGovernors,  \* class and reputation of the members at the start
    ReputationMax   \* reputation_max; the other parameters have their defaults

Kinds == {"routine", "release", "settle", "set_governor", "remove_member"}

ASSUME GovernanceAssumption ==
    /\ Ids \subseteq Nat /\ ReputationMax \in Nat \ {0}
    /\ \A c \in Contents :
          /\ c.kind \in Kinds
          /\ c.kind = "settle" => c.target \in Ids
          /\ c.kind \in {"set_governor", "remove_member"} => c.member \in Members
          /\ c.kind = "set_governor" => c.class \in {"agent", "trapdoor"}
    /\ Reviewers \subseteq Members
    /\ InitGovernors \in [Members -> [class : {"agent", "trapdoor"},
                                      reputation : 1 .. ReputationMax]]

ReputationMin == 1
ReputationStep == 1
BlockReputation == 2
MaxMemberPercent == 34
NewcomerPercent == 20
MinAgentYes == 1

VARIABLES
    active,     \* members whose status is Active
    governor,   \* class and reputation, per member
    proposal,   \* per id: content, state and ballots
    verdict,    \* of a reviewer on a proposal; approve and withdraw leave no block
    settled     \* ids that have been settled

vars == <<active, governor, proposal, verdict, settled>>

States == {"None", "Open", "Accepted", "Rejected", "Failed", "Dropped", "Withdrawn"}
Ballots == {"none", "yes", "no"}
NoContent == [kind |-> "none"]
NoProposal == [content |-> NoContent, state |-> "None",
               votes |-> [m \in Members |-> "none"]]

TypeOK ==
    /\ active \subseteq Members
    /\ governor \in [Members -> [class : {"agent", "trapdoor"},
                                 reputation : ReputationMin .. ReputationMax]]
    /\ \A i \in Ids : /\ proposal[i].content \in Contents \cup {NoContent}
                      /\ proposal[i].state \in States
                      /\ proposal[i].votes \in [Members -> Ballots]
    /\ verdict \in [Ids \X Reviewers -> {"none", "block"}]
    /\ settled \subseteq Ids

Init ==
    /\ active = Members
    /\ governor = InitGovernors
    /\ proposal = [i \in Ids |-> NoProposal]
    /\ verdict = [im \in Ids \X Reviewers |-> "none"]
    /\ settled = {}

-----------------------------------------------------------------------------
(* Weights.                                                                *)

Agents == {m \in active : governor[m].class = "agent"}
Trapdoors == {m \in active : governor[m].class = "trapdoor"}
Newcomers == {m \in Agents : governor[m].reputation = ReputationMin}

WeightOf(members, w) == MapThenSumSet(LAMBDA m : w[m], members)

Smaller(a, b) == IF a <= b THEN a ELSE b
Larger(a, b) == IF a >= b THEN a ELSE b

\* One round of the per-member cap, relative to what is counted so far.
CapRound(w) ==
    LET cap == Larger(1, (WeightOf(DOMAIN w, w) * MaxMemberPercent) \div 100)
    IN  [m \in DOMAIN w |-> Smaller(w[m], cap)]

\* Twelve rounds at most; a round that changes nothing is the last.
Capped(raw) ==
    LET rounds[n \in 0 .. 12, w \in [DOMAIN raw -> 0 .. ReputationMax]] ==
            IF n = 12 \/ CapRound(w) = w THEN w ELSE rounds[n + 1, CapRound(w)]
    IN  rounds[0, raw]

\* Members at the minimum reputation count for a fifth of the weight together.
NewcomersScaled(w) ==
    LET cap == (WeightOf(DOMAIN w, w) * NewcomerPercent) \div 100
    IN  IF WeightOf(Newcomers, w) > cap
        THEN [m \in DOMAIN w |-> IF m \in Newcomers
                                 THEN cap \div Cardinality(Newcomers) ELSE w[m]]
        ELSE w

\* The weights counted: the caps apply from three agents on.
Weights ==
    LET raw == [m \in Agents |-> governor[m].reputation]
    IN  IF Cardinality(Agents) >= 3 THEN NewcomersScaled(Capped(raw)) ELSE raw

-----------------------------------------------------------------------------
(* resolve().                                                              *)

HighImpact(c) == c.kind \in {"release", "set_governor", "remove_member"}

Text(i) == <<proposal[i].content, NoteOf[i]>>

\* proposalIdForVotes: the first stored proposal with this text, in any state.
FoundId(i) == Min({j \in Ids : proposal[j].state # "None" /\ Text(j) = Text(i)})

BlockedBy(i, m) ==
    /\ verdict[i, m] = "block"
    /\ m \in active
    /\ governor[m].reputation >= BlockReputation

\* Faulty variant: verdicts are not looked at.
Blocked_Never(i) == FALSE

Blocked(i) == \E m \in Reviewers : BlockedBy(FoundId(i), m)

Voters(votes, ballot) == {m \in Members : votes[m] = ballot}

HighImpactOutcome(yes, no, total, yesCount) ==
    IF no * 3 >= total * 1 THEN "Rejected"
    ELSE IF yes * 3 >= total * 2 /\ yesCount >= MinAgentYes THEN "Accepted"
    ELSE "Open"

RoutineOutcome(yes, no, total, yesCount) ==
    IF no * 2 >= total * 1 THEN "Rejected"
    ELSE IF yes * 2 > total * 1 /\ yesCount >= 1 THEN "Accepted"
    ELSE "Open"

WeightedOutcome(c, votes) ==
    LET w == Weights
        total == WeightOf(DOMAIN w, w)
        yes == WeightOf(Voters(votes, "yes") \cap DOMAIN w, w)
        no == WeightOf(Voters(votes, "no") \cap DOMAIN w, w)
        yesCount == Cardinality(Voters(votes, "yes") \cap DOMAIN w)
    IN  IF total = 0 THEN "Open"
        ELSE IF HighImpact(c) THEN HighImpactOutcome(yes, no, total, yesCount)
        ELSE RoutineOutcome(yes, no, total, yesCount)

\* The first ballot of an active trapdoor decides; the order among several is
\* that of their ids.
Outcomes(i, votes) ==
    LET decisive == {m \in Trapdoors : votes[m] # "none"}
    IN  IF decisive # {}
        THEN {IF votes[m] = "yes" THEN "Accepted" ELSE "Rejected" : m \in decisive}
        ELSE IF HighImpact(proposal[i].content) /\ Blocked(i) THEN {"Open"}
        ELSE {WeightedOutcome(proposal[i].content, votes)}

-----------------------------------------------------------------------------
(* apply().                                                                *)

\* The application does not throw.
Applicable(c) ==
    c.kind = "settle" => /\ c.target \notin settled
                         /\ proposal[c.target].state \in {"Accepted", "Rejected"}

Won(m, p) == p.votes[m] = (IF p.state = "Accepted" THEN "yes" ELSE "no")

\* Faulty variant: the loser's reputation is not held at the minimum.
SettledReputation_Unclamped(m, p) ==
    IF Won(m, p) THEN Smaller(ReputationMax, governor[m].reputation + ReputationStep)
                 ELSE governor[m].reputation - ReputationStep

\* Faulty variant: yes always counts as right.
SettledReputation_YesWins(m, p) ==
    IF p.votes[m] = "yes"
    THEN Smaller(ReputationMax, governor[m].reputation + ReputationStep)
    ELSE Larger(ReputationMin, governor[m].reputation - ReputationStep)

\* A step up for a ballot on the winning side, a step down for the other one.
SettledReputation(m, p) ==
    IF Won(m, p) THEN Smaller(ReputationMax, governor[m].reputation + ReputationStep)
                 ELSE Larger(ReputationMin, governor[m].reputation - ReputationStep)

GovernorsAfter(c) ==
    CASE c.kind = "settle" ->
            [m \in Members |->
                IF governor[m].class = "agent" /\ proposal[c.target].votes[m] # "none"
                THEN [governor[m] EXCEPT !.reputation = SettledReputation(m, proposal[c.target])]
                ELSE governor[m]]
      [] c.kind = "set_governor" -> [governor EXCEPT ![c.member].class = c.class]
      [] OTHER -> governor

\* Faulty variant: a change of governors leaves other proposals open.
Invalidates_ReleaseOnly(c) == c.kind = "release"

\* The actions that call invalidateOtherOpenProposals.
Invalidates(c) == c.kind \in {"release", "set_governor"}

Apply(i, votes) ==
    LET c == proposal[i].content
    IN  /\ governor' = GovernorsAfter(c)
        /\ active' = IF c.kind = "remove_member" THEN active \ {c.member} ELSE active
        /\ settled' = IF c.kind = "settle" THEN settled \cup {c.target} ELSE settled
        /\ proposal' = [j \in Ids |->
              IF j = i THEN [proposal[i] EXCEPT !.state = "Accepted", !.votes = votes]
              ELSE IF Invalidates(c) /\ proposal[j].state = "Open"
              THEN [proposal[j] EXCEPT !.state = "Dropped"]
              ELSE proposal[j]]

-----------------------------------------------------------------------------
(* The members.                                                            *)

\* A new proposal has no ballots, and resolve() leaves it open.
Propose(i, c) ==
    /\ active # {}
    /\ proposal[i].state = "None"
    /\ proposal' = [proposal EXCEPT ![i] = [content |-> c, state |-> "Open",
                                            votes |-> [m \in Members |-> "none"]]]
    /\ UNCHANGED <<active, governor, verdict, settled>>

Conclude(i, votes, outcome) ==
    /\ proposal' = [proposal EXCEPT ![i].votes = votes, ![i].state = outcome]
    /\ UNCHANGED <<active, governor, settled>>

Vote(m, i, ballot) ==
    /\ m \in active
    /\ proposal[i].state = "Open"
    /\ proposal[i].votes[m] = "none"
    /\ LET votes == [proposal[i].votes EXCEPT ![m] = ballot]
       IN  \E outcome \in Outcomes(i, votes) :
              \/ outcome = "Accepted" /\ Applicable(proposal[i].content) /\ Apply(i, votes)
              \/ outcome = "Accepted" /\ ~Applicable(proposal[i].content) /\ Conclude(i, votes, "Failed")
              \/ outcome # "Accepted" /\ Conclude(i, votes, outcome)
    /\ UNCHANGED verdict

\* The proposer takes the proposal back.
Withdraw(i) ==
    /\ active # {}
    /\ proposal[i].state = "Open"
    /\ proposal' = [proposal EXCEPT ![i].state = "Withdrawn"]
    /\ UNCHANGED <<active, governor, verdict, settled>>

\* A proposal made of a verdict is accepted on its proposer's word and applied
\* at once; the target is not resolved again.
RecordVerdict(m, i, v) ==
    /\ m \in active
    /\ proposal[i].state # "None"
    /\ verdict' = [verdict EXCEPT ![<<i, m>>] = v]
    /\ UNCHANGED <<active, governor, proposal, settled>>

Next ==
    \/ \E i \in Ids, c \in Contents : Propose(i, c)
    \/ \E m \in Members, i \in Ids, b \in {"yes", "no"} : Vote(m, i, b)
    \/ \E i \in Ids : Withdraw(i)
    \/ \E m \in Reviewers, i \in Ids, v \in {"none", "block"} : RecordVerdict(m, i, v)

Spec == Init /\ [][Next]_vars

-----------------------------------------------------------------------------
(* Properties.                                                             *)

\* "A trapdoor member's vote is decisive": no proposal stays open with the ballot
\* of an active trapdoor on it.  A member who becomes a trapdoor leaves no old
\* ballot behind that the next vote of somebody else would make decisive.
TrapdoorDecisive ==
    \A i \in Ids : proposal[i].state = "Open" =>
                      \A m \in Trapdoors : proposal[i].votes[m] = "none"

DecidedByTrapdoor(i) == \E m \in Trapdoors : proposal'[i].votes[m] # "none"

\* A high-impact proposal on which an active member of sufficient reputation has
\* an unwithdrawn block verdict is never accepted by weight, whatever other
\* proposals exist and whatever was settled since.
BlockHolds ==
    [][\A i \in Ids :
        (/\ proposal[i].state = "Open" /\ proposal'[i].state = "Accepted"
         /\ HighImpact(proposal[i].content)
         /\ ~DecidedByTrapdoor(i))
            => ~\E m \in Reviewers : BlockedBy(i, m)]_vars

\* The number of settled proposals a member was right, or wrong, about.
Wins(m) == Cardinality({i \in settled : proposal[i].votes[m] # "none" /\ Won(m, proposal[i])})
Losses(m) == Cardinality({i \in settled : proposal[i].votes[m] # "none" /\ ~Won(m, proposal[i])})

\* Reputation is accounted for: no member has gained more than a step for each
\* settled proposal it was right about, nor lost more than a step for each it was
\* wrong about, although anyone may propose settlements, in any order and again.
ReputationEarned ==
    \A m \in Members :
        /\ governor[m].reputation <= InitGovernors[m].reputation + Wins(m) * ReputationStep
        /\ governor[m].reputation + Losses(m) * ReputationStep >= InitGovernors[m].reputation

\* Every row has its type, a reputation between zero and the maximum included,
\* and every reputation is accounted for.
ReputationSound == TypeOK /\ ReputationEarned

=============================================================================

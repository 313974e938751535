------------------------------ MODULE Consensus ------------------------------
(***************************************************************************)
(* core/runtime/consensus.py: a proposal, the votes of federated nodes and *)
(* its resolution. Nothing suspends between the moment a vote is recorded  *)
(* and the moment the proposal is resolved; nodes register and time passes *)
(* between the calls. Votes with a bad signature change nothing.           *)
(***************************************************************************)
EXTENDS Naturals, FiniteSets

CONSTANTS
    Voters,         \* node ids
    LocalNode       \* federation_manager.node_id

ASSUME ConsensusAssumption == LocalNode \in Voters /\ IsFiniteSet(Voters)

VARIABLES
    proposal,       \* status; "none" before create_proposal()
    votes,          \* votes: "yes", "no" or "none"
    yesVotes, noVotes,
    lapsed,         \* expires_at has passed
    known,         \* nodes list_peers() returns
    electorate      \* history: n of the last resolution

consensusVars == <<proposal, votes, yesVotes, noVotes, lapsed, known, electorate>>
-----------------------------------------------------------------------------
Decided == {"APPROVED", "REJECTED"}
N == Cardinality(Voters)

ConsensusTypeOK ==
    /\ proposal \in Decided \cup {"none", "PENDING", "EXPIRED"}
    /\ votes \in [Voters -> {"none", "yes", "no"}]
    /\ yesVotes \in 0 .. N /\ noVotes \in 0 .. N /\ electorate \in 0 .. N
    /\ lapsed \in BOOLEAN /\ known \subseteq Voters

ConsensusInit ==
    /\ proposal = "none" /\ votes = [v \in Voters |-> "none"]
    /\ yesVotes = 0 /\ noVotes = 0 /\ lapsed = FALSE
    /\ known \in SUBSET Voters /\ electorate = 0

Cast(vs, w) == Cardinality({v \in Voters : vs[v] = w})

\* Mutant: half of the nodes are enough.
ResolvedByHalf(status, vs, yes, no) ==
    LET n == Cardinality(known \cup {LocalNode} \cup {v \in Voters : vs[v] # "none"})
    IN IF status # "PENDING" THEN status
       ELSE IF yes >= n \div 2 THEN "APPROVED"
       ELSE IF no > n - (n \div 2) THEN "REJECTED" ELSE status

\* _check_consensus_resolution(): the cluster is what is known, the local node
\* and whoever voted (the proposer is among them).
Resolved(status, vs, yes, no) ==
    LET n == Cardinality(known \cup {LocalNode} \cup {v \in Voters : vs[v] # "none"})
        majority == n \div 2 + 1
    IN IF status # "PENDING" THEN status
       ELSE IF yes >= majority THEN "APPROVED"
       ELSE IF no > n - majority THEN "REJECTED" ELSE status

Resolve(status, vs, yes, no) ==
    /\ proposal' = Resolved(status, vs, yes, no)
    /\ electorate' = Cardinality(known \cup {LocalNode} \cup {v \in Voters : vs[v] # "none"})

\* create_proposal(): the proposer votes yes.
CreateProposal(p) ==
    /\ proposal = "none"
    /\ votes' = [votes EXCEPT ![p] = "yes"] /\ yesVotes' = 1
    /\ Resolve("PENDING", votes', 1, noVotes)
    /\ UNCHANGED <<noVotes, lapsed, known>>

\* The counts after v votes w: a changed vote moves from one to the other.
Count(count, w, v, vote) ==
    IF votes[v] = vote THEN count
    ELSE IF vote = w THEN count + 1
    ELSE IF votes[v] = w THEN count - 1 ELSE count

\* cast_vote(): past its time a proposal is EXPIRED, decided or not; a decided
\* one is left alone; else the vote is recorded and the proposal resolved.
CastVote(v, vote) ==
    /\ proposal # "none"
    /\ IF lapsed
         THEN proposal' = "EXPIRED" /\ UNCHANGED <<votes, yesVotes, noVotes, electorate>>
         ELSE /\ proposal = "PENDING"
              /\ votes' = [votes EXCEPT ![v] = vote]
              /\ yesVotes' = Count(yesVotes, "yes", v, vote)
              /\ noVotes' = Count(noVotes, "no", v, vote)
              /\ Resolve(proposal, votes', yesVotes', noVotes')
    /\ UNCHANGED <<lapsed, known>>

\* get_proposal_status(): only a pending proposal expires here.
GetProposalStatus ==
    /\ proposal = "PENDING" /\ lapsed
    /\ proposal' = "EXPIRED"
    /\ UNCHANGED <<votes, yesVotes, noVotes, lapsed, known, electorate>>

\* Thirty seconds are over; a node is registered.
Lapse ==
    /\ proposal # "none" /\ ~lapsed /\ lapsed' = TRUE
    /\ UNCHANGED <<proposal, votes, yesVotes, noVotes, known, electorate>>

NodeRegisters(v) ==
    /\ v \notin known /\ known' = known \cup {v}
    /\ UNCHANGED <<proposal, votes, yesVotes, noVotes, lapsed, electorate>>

ConsensusNext ==
    \/ \E v \in Voters :
         CreateProposal(v) \/ CastVote(v, "yes") \/ CastVote(v, "no") \/ NodeRegisters(v)
    \/ GetProposalStatus \/ Lapse
-----------------------------------------------------------------------------
(* Properties.                                                             *)

\* The running counts are those of the recorded votes, whoever changed a vote.
CountsAreVotes == yesVotes = Cast(votes, "yes") /\ noVotes = Cast(votes, "no")

\* The votes on record bear out the decision, also later: more than half of the
\* nodes known when it was made approved it, or too many refused for that.
DecisionStands ==
    /\ proposal = "APPROVED" => 2 * Cast(votes, "yes") > electorate
    /\ proposal = "REJECTED" => 2 * Cast(votes, "no") >= electorate

\* No decision turns into another one; what a late vote may still do is to mark
\* a decided proposal as EXPIRED.
NotReversed ==
    [][(proposal \in Decided) => (proposal' \in {proposal, "EXPIRED"})]_consensusVars

\* A decision is what the recorded votes say and stays it.
DecisionsHold == [](ConsensusTypeOK /\ CountsAreVotes /\ DecisionStands) /\ NotReversed
=============================================================================

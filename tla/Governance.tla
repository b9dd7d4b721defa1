----------------------------- MODULE Governance -----------------------------
(***************************************************************************)
(* pkg/governance: proposals, votes and the executor of proposals.         *)
(*                                                                         *)
(* A proposal is a pointer that the caller keeps.  Its identifier hashes   *)
(* its content and the CreatedTime it carries: unset before the first      *)
(* CreateProposal, set by it.  The same object handed in again is stored a *)
(* second time, under a second identifier, with its votes.                 *)
(*                                                                         *)
(* Every method holds m.mu.  ProcessProposals calls CheckProposalResult,   *)
(* which takes m.mu again: it never returns, nor does any later call.      *)
(***************************************************************************)
EXTENDS Integers, FiniteSets, FiniteSetsExt

CONSTANTS
    Proposal,        \* the proposals callers hand in
    ProposalType,    \* "parameter", "upgrade", "fund" or "other"
    Fields,          \* the fields its data set (none when the data do not parse)
    Deposit,
    MinProposalDeposit,
    Voter,
    NoVote,
    Weights,         \* weights that callers of Vote name besides the calculated one
    Score,           \* the contribution of every voter, in units of its weight
    Staked,          \* the stake of every voter
    TotalSupply,
    VotingPeriod,
    GovModulus,      \* 2^64
    MaxCreated,      \* bound on the identifiers of one proposal
    GovMaxTime       \* bound on the clock, which starts at 1: 0 is the unset time

ASSUME GovernanceAssumption ==
    /\ ProposalType \in [Proposal -> {"parameter", "upgrade", "fund", "other"}]
    /\ Fields \in [Proposal -> SUBSET {"parameter", "version", "recipient", "amount"}]
    /\ Deposit \in [Proposal -> Nat] /\ MinProposalDeposit \in Nat
    /\ IsFiniteSet(Voter) /\ Weights \subseteq Nat
    /\ Score \in [Voter -> Nat] /\ Staked \in [Voter -> Nat] /\ TotalSupply \in Nat
    /\ VotingPeriod \in Nat /\ GovModulus \in Nat \ {0} /\ MaxCreated \in Nat /\ GovMaxTime \in Nat \ {0}

\* generateProposalID: the content and the CreatedTime.
ProposalID == Proposal \X (0 .. GovMaxTime)

Decision == {"yes", "no", "abstain"}
VoteRecord == [decision : Decision, weight : Nat]

ASSUME NoVoteAssumption == NoVote \notin VoteRecord

VARIABLES
    proposals,   \* the keys of m.proposals; the first part names the object
    votes,       \* m.votes: the vote of every voter under an identifier
    created,     \* CreatedTime of every object
    endTime,     \* VotingEndTime
    status,      \* Status
    tally,       \* YesVotes, NoVotes and AbstainVotes
    config,      \* the executor's config: the proposals that have set a parameter
    govMutex,    \* m.mu: "free", or "stuck" in ProcessProposals
    govNow       \* the wall clock

govVars == <<proposals, votes, created, endTime, status, tally, config, govMutex, govNow>>

Status == {"new", "pending", "approved", "rejected", "executed", "failed"}

GovTypeOK ==
    /\ proposals \subseteq ProposalID
    /\ votes \in [ProposalID -> [Voter -> VoteRecord \cup {NoVote}]]
    /\ created \in [Proposal -> 0 .. GovMaxTime]
    /\ endTime \in [Proposal -> Nat]
    /\ status \in [Proposal -> Status]
    /\ tally \in [Proposal -> [Decision -> 0 .. GovModulus - 1]]
    /\ config \subseteq Proposal
    /\ govMutex \in {"free", "stuck"}
    /\ govNow \in 1 .. GovMaxTime

GovInit ==
    /\ proposals = {}
    /\ votes = [id \in ProposalID |-> [v \in Voter |-> NoVote]]
    /\ created = [p \in Proposal |-> 0]
    /\ endTime = [p \in Proposal |-> 0]
    /\ status = [p \in Proposal |-> "new"]
    /\ tally = [p \in Proposal |-> [d \in Decision |-> 0]]
    /\ config = {}
    /\ govMutex = "free"
    /\ govNow = 1

-----------------------------------------------------------------------------

IDsOf(p) == {id \in proposals : id[1] = p}

\* The tallies of the object are not reset.  The deposit is compared and not
\* taken; the data are not validated.
CreateProposal(p) ==
    LET id == <<p, created[p]>>
    IN  /\ govMutex = "free"
        /\ Deposit[p] >= MinProposalDeposit
        /\ id \notin proposals
        /\ Cardinality(IDsOf(p)) < MaxCreated
        /\ proposals' = proposals \cup {id}
        /\ votes' = [votes EXCEPT ![id] = [v \in Voter |-> NoVote]]
        /\ status' = [status EXCEPT ![p] = "pending"]
        /\ created' = [created EXCEPT ![p] = govNow]
        /\ endTime' = [endTime EXCEPT ![p] = govNow + VotingPeriod]
        /\ UNCHANGED <<tally, config, govMutex, govNow>>

\* Mutant: a voter may vote again.
MayVoteAgain(id, v) ==
    /\ govMutex = "free"
    /\ id \in proposals
    /\ status[id[1]] = "pending"
    /\ govNow <= endTime[id[1]]

MayVote(id, v) ==
    /\ govMutex = "free"
    /\ id \in proposals
    /\ status[id[1]] = "pending"
    /\ govNow <= endTime[id[1]]
    /\ votes[id][v] = NoVote

\* CalculateVoteWeight: the contribution and four tenths of the stake, at
\* most a twentieth of the supply.
CalculateVoteWeight(v) == Min({Score[v] + (4 * Staked[v]) \div 10, TotalSupply \div 20})

\* The weight is the caller's: the manager never asks its VoteWeightCalculator.
Vote(id, v, decision, weight) ==
    /\ MayVote(id, v)
    /\ votes' = [votes EXCEPT ![id][v] = [decision |-> decision, weight |-> weight]]
    /\ tally' = [tally EXCEPT ![id[1]][decision] = (@ + weight) % GovModulus]
    /\ UNCHANGED <<proposals, created, endTime, status, config, govMutex, govNow>>

\* Mutant: half of the votes is enough.
OutcomeOfHalf(t) ==
    LET totalVotes == (t["yes"] + t["no"] + t["abstain"]) % GovModulus
    IN  IF totalVotes # 0 /\ 2 * t["yes"] >= totalVotes THEN "approved" ELSE "rejected"

\* More than half of all votes, abstentions included, in uint64 arithmetic.
Outcome(t) ==
    LET totalVotes == (t["yes"] + t["no"] + t["abstain"]) % GovModulus
    IN  IF totalVotes # 0 /\ 2 * t["yes"] > totalVotes THEN "approved" ELSE "rejected"

Ended(p) == status[p] = "pending" /\ govNow >= endTime[p]

CheckProposalResult(id) ==
    /\ govMutex = "free"
    /\ id \in proposals
    /\ Ended(id[1])
    /\ status' = [status EXCEPT ![id[1]] = Outcome(tally[id[1]])]
    /\ UNCHANGED <<proposals, votes, created, endTime, tally, config, govMutex, govNow>>

\* With nothing to do it returns; at the first proposal whose voting has ended
\* it waits for m.mu, which it holds.
ProcessProposals ==
    /\ govMutex = "free"
    /\ \E id \in proposals : Ended(id[1])
    /\ govMutex' = "stuck"
    /\ UNCHANGED <<proposals, votes, created, endTime, status, tally, config, govNow>>

\* The fields without which executeParameterChange, executeProtocolUpgrade and
\* executeFundUsage fail; no other type can be executed.
Executable(p) ==
    \/ ProposalType[p] = "parameter" /\ "parameter" \in Fields[p]
    \/ ProposalType[p] = "upgrade" /\ "version" \in Fields[p]
    \/ ProposalType[p] = "fund" /\ {"recipient", "amount"} \subseteq Fields[p]

\* Mutant: the executor marks what it has executed.
ExecuteProposalMarking(p) ==
    /\ Executable(p)
    /\ status' = [status EXCEPT ![p] = "executed"]
    /\ UNCHANGED <<proposals, votes, created, endTime, tally, config, govMutex, govNow>>

\* SimpleProposalExecutor.ExecuteProposal, called by anyone: it takes no lock
\* and asks for no status.  Only a parameter change leaves a trace.
ExecuteProposal(p) ==
    /\ Executable(p)
    /\ config' = IF ProposalType[p] = "parameter" THEN config \cup {p} ELSE config
    /\ UNCHANGED <<proposals, votes, created, endTime, status, tally, govMutex, govNow>>

GovTick ==
    /\ govNow < GovMaxTime
    /\ govNow' = govNow + 1
    /\ UNCHANGED <<proposals, votes, created, endTime, status, tally, config, govMutex>>

GovNext ==
    \/ \E p \in Proposal : CreateProposal(p) \/ ExecuteProposal(p)
    \/ \E id \in ProposalID, v \in Voter, d \in Decision :
          \E w \in Weights \cup {CalculateVoteWeight(v)} : Vote(id, v, d, w)
    \/ \E id \in ProposalID : CheckProposalResult(id)
    \/ ProcessProposals
    \/ GovTick

GovSpec == GovInit /\ [][GovNext]_govVars

-----------------------------------------------------------------------------
(* Properties.                                                             *)

\* What was voted under all identifiers of an object, without a limit.
Cast(p, decisions) ==
    MapThenSumSet(
        LAMBDA iv : LET vote == votes[iv[1]][iv[2]]
                    IN  IF vote # NoVote /\ vote.decision \in decisions THEN vote.weight ELSE 0,
        IDsOf(p) \X Voter)

\* The tallies of a proposal are the votes stored under all its identifiers,
\* modulo 2^64: a proposal handed in again carries its old votes with it, and
\* every voter counts once per identifier.
TallyIsVotes ==
    \A p \in Proposal, d \in Decision : tally[p][d] = Cast(p, {d}) % GovModulus

\* A proposal is approved only by more than half of the weight cast, unless
\* the weights have exceeded a uint64.
ApprovedByMajority ==
    \A p \in Proposal :
        status[p] = "approved" /\ Cast(p, Decision) < GovModulus
            => 2 * Cast(p, {"yes"}) > Cast(p, Decision)

\* The votes cast decide a proposal.
VotesDecide == TallyIsVotes /\ ApprovedByMajority

\* A decision is final unless the same object is handed in again: only a
\* CreateProposal, which adds an identifier, reopens the vote.
DecisionFinal ==
    [][\A p \in Proposal :
          status[p] \in {"approved", "rejected"} /\ status'[p] # status[p] => IDsOf(p) # IDsOf(p)']_govVars

=============================================================================

---------------------------- MODULE EconomyProofs ----------------------------
(***************************************************************************)
(* Proofs about the parts of the economy that share no state, for every    *)
(* set of proposals, voters, validators, accounts and builders, and every  *)
(* word size:                                                              *)
(*   VotesDecideCorrect      what decides a proposal;                      *)
(*   DecisionFinalCorrect    what may reopen a decision;                   *)
(*   KeysKeptCorrect         which keys the password of the wallet opens;  *)
(*   NonceOnceCorrect        when a nonce is signed twice;                 *)
(*   StakesAccountedCorrect  where every stake is, and the total of them;  *)
(*   SharesFairCorrect       what a block reward is shared out to;         *)
(*   EconomyTypesCorrect     the types of all of them together;            *)
(*   SelectionSoundCorrect   whom the two selections of validators choose. *)
(* The tallies, the totals and the shares are sums over sets, the sort and *)
(* the limits loops over sequences, which SumProofs reasons about.         *)
(***************************************************************************)
EXTENDS MCEconomy, SumProofs

-----------------------------------------------------------------------------
(* Governance.                                                             *)

\* What every voter has cast under every identifier for one of decisions.
Worth(vts, decisions) ==
    [iv \in ProposalID \X Voter |->
        IF vts[iv[1]][iv[2]] # NoVote /\ vts[iv[1]][iv[2]].decision \in decisions
        THEN vts[iv[1]][iv[2]].weight ELSE 0]

VoteMap == [ProposalID -> [Voter -> VoteRecord \cup {NoVote}]]

LEMMA CastIsSum ==
  ASSUME NEW vts, NEW decisions, NEW W \in SUBSET (ProposalID \X Voter)
  PROVE  MapThenSumSet(
            LAMBDA iv : LET vote == vts[iv[1]][iv[2]]
                        IN  IF vote # NoVote /\ vote.decision \in decisions
                            THEN vote.weight ELSE 0, W)
            = SumOver(Worth(vts, decisions), W)
<1> DEFINE g == Worth(vts, decisions)
           Cell(iv) == IF vts[iv[1]][iv[2]] # NoVote /\ vts[iv[1]][iv[2]].decision \in decisions
                       THEN vts[iv[1]][iv[2]].weight ELSE 0
           IsCast(f) == f = [s \in SUBSET W |-> IF s = {} THEN 0 ELSE
                                Cell(Pick(s)) + f[s \ {Pick(s)}]]
<1>1. MapThenSumSet(
            LAMBDA iv : LET vote == vts[iv[1]][iv[2]]
                        IN  IF vote # NoVote /\ vote.decision \in decisions
                            THEN vote.weight ELSE 0, W) = (CHOOSE f : IsCast(f))[W]
  BY DEF MapThenSumSet, MapThenFoldSet, Pick
<1>2. \A s \in SUBSET W : s # {} => g[Pick(s)] = Cell(Pick(s))
  <2>1. \A iv \in ProposalID \X Voter : g[iv] = Cell(iv)
    BY DEF Worth
  <2>2. \A s \in SUBSET W : s # {} => Pick(s) \in ProposalID \X Voter
    BY DEF Pick
  <2> QED BY <2>1, <2>2
<1> HIDE DEF g, Cell
<1>3. ASSUME NEW f PROVE IsCast(f) <=> IsSum(g, W, f)
  BY <1>2 DEF IsSum
<1> HIDE DEF IsCast
<1>4. (CHOOSE f : IsCast(f)) = (CHOOSE f : IsSum(g, W, f))
  BY <1>3
<1> QED BY <1>1, <1>4, SumOverDef DEF SumFcn, g

\* The cells of a proposal, under the identifiers it has.
Cells(ids, p) == {id \in ids : id[1] = p} \X Voter

LEMMA CellsFinite ==
  ASSUME NEW ids \in SUBSET ProposalID, NEW p \in Proposal
  PROVE  Cells(ids, p) \in SUBSET (ProposalID \X Voter) /\ IsFiniteSet(Cells(ids, p))
<1>0. 0 \in Int /\ GovMaxTime \in Int
  BY GovernanceAssumption
<1>1. IsFiniteSet(0 .. GovMaxTime) /\ IsFiniteSet({p})
  <2>1. IsFiniteSet(0 .. GovMaxTime)
    BY <1>0, FS_Interval
  <2> QED BY <2>1, FS_Singleton
<1>2. IsFiniteSet({p} \X (0 .. GovMaxTime))
  BY <1>1, FS_Product
<1>3. {id \in ids : id[1] = p} \subseteq {p} \X (0 .. GovMaxTime)
  BY DEF ProposalID
<1>4. IsFiniteSet({id \in ids : id[1] = p})
  BY <1>2, <1>3, FS_Subset
<1>5. IsFiniteSet({id \in ids : id[1] = p} \X Voter)
  BY <1>4, FS_Product, GovernanceAssumption
<1> QED BY <1>5 DEF Cells

LEMMA WorthTypes ==
  ASSUME NEW vts \in VoteMap, NEW decisions
  PROVE  \A iv \in ProposalID \X Voter :
            Worth(vts, decisions)[iv] \in Nat /\ Worth(vts, decisions)[iv] \in Int
  BY DEF Worth, VoteMap, VoteRecord

\* What was cast for a proposal is the sum over its cells.
CastIn(vts, ids, p, decisions) == SumOver(Worth(vts, decisions), Cells(ids, p))

LEMMA CastIsCastIn ==
  ASSUME proposals \in SUBSET ProposalID, NEW p \in Proposal, NEW decisions
  PROVE  Cast(p, decisions) = CastIn(votes, proposals, p, decisions)
<1>1. IDsOf(p) \X Voter = Cells(proposals, p)
  BY DEF IDsOf, Cells
<1>2. Cells(proposals, p) \in SUBSET (ProposalID \X Voter)
  BY CellsFinite
<1> HIDE DEF Cells
<1> QED BY <1>1, <1>2, CastIsSum DEF Cast, CastIn

LEMMA CastInType ==
  ASSUME NEW vts \in VoteMap, NEW ids \in SUBSET ProposalID, NEW p \in Proposal, NEW decisions
  PROVE  CastIn(vts, ids, p, decisions) \in Nat
<1>1. /\ IsFiniteSet(Cells(ids, p)) /\ Cells(ids, p) \in SUBSET (ProposalID \X Voter)
      /\ \A iv \in Cells(ids, p) : Worth(vts, decisions)[iv] \in Nat
  BY CellsFinite, WorthTypes
<1> QED BY <1>1, SumOverNat DEF CastIn

\* Every vote is for one of three decisions.
LEMMA CastInParts ==
  ASSUME NEW vts \in VoteMap, NEW ids \in SUBSET ProposalID, NEW p \in Proposal
  PROVE  CastIn(vts, ids, p, Decision)
            = CastIn(vts, ids, p, {"yes"}) + CastIn(vts, ids, p, {"no"}) + CastIn(vts, ids, p, {"abstain"})
<1> DEFINE C == Cells(ids, p)
           yes == Worth(vts, {"yes"})
           no == Worth(vts, {"no"})
           abstain == Worth(vts, {"abstain"})
           both == [iv \in ProposalID \X Voter |-> yes[iv] + no[iv]]
<1>1. IsFiniteSet(C) /\ C \in SUBSET (ProposalID \X Voter)
  BY CellsFinite
<1>2. \A iv \in C : yes[iv] \in Int /\ no[iv] \in Int /\ abstain[iv] \in Int
  BY <1>1, WorthTypes
<1>3. \A iv \in C : Worth(vts, Decision)[iv] = both[iv] + abstain[iv] /\ both[iv] \in Int
                    /\ both[iv] = yes[iv] + no[iv]
  <2> SUFFICES ASSUME NEW iv \in C
               PROVE  Worth(vts, Decision)[iv] = (yes[iv] + no[iv]) + abstain[iv]
    BY <1>1, <1>2
  <2>1. iv \in ProposalID \X Voter
    BY <1>1
  <2>2. vts[iv[1]][iv[2]] \in VoteRecord \cup {NoVote}
    BY <2>1 DEF VoteMap
  <2> QED BY <2>1, <2>2, NoVoteAssumption DEF Worth, VoteRecord, Decision
<1> HIDE DEF C, yes, no, abstain, both
<1>4. SumOver(Worth(vts, Decision), C) = SumOver(both, C) + SumOver(abstain, C)
  BY <1>1, <1>2, <1>3, SumOverPlus
<1>5. SumOver(both, C) = SumOver(yes, C) + SumOver(no, C)
  BY <1>1, <1>2, <1>3, SumOverPlus
<1> QED BY <1>4, <1>5 DEF CastIn, C, yes, no, abstain

\* A new identifier brings no votes.
LEMMA CastInCreate ==
  ASSUME NEW vts \in VoteMap, NEW ids \in SUBSET ProposalID, NEW id \in ProposalID, id \notin ids,
         NEW p \in Proposal, NEW decisions
  PROVE  CastIn([vts EXCEPT ![id] = [v \in Voter |-> NoVote]], ids \cup {id}, p, decisions)
            = CastIn(vts, ids, p, decisions)
<1> DEFINE after == [vts EXCEPT ![id] = [v \in Voter |-> NoVote]]
           S == Cells(ids \cup {id}, p)
           T == Cells(ids, p)
           g == Worth(vts, decisions)
           h == Worth(after, decisions)
<1>1. after \in VoteMap
  BY DEF VoteMap
<1>2. /\ IsFiniteSet(S) /\ S \in SUBSET (ProposalID \X Voter)
      /\ IsFiniteSet(T) /\ T \in SUBSET (ProposalID \X Voter)
  BY CellsFinite
<1>3. T \in SUBSET S
  BY DEF Cells
<1>4. \A iv \in S : h[iv] \in Int
  BY <1>1, <1>2, WorthTypes
<1>5. \A iv \in T : g[iv] \in Int
  BY <1>2, WorthTypes
<1>6. \A iv \in S \ T : h[iv] = 0
  <2> SUFFICES ASSUME NEW iv \in S \ T PROVE h[iv] = 0
    OBVIOUS
  <2>1. iv \in ProposalID \X Voter /\ iv[1] = id /\ iv[2] \in Voter
    BY <1>2 DEF Cells
  <2>2. after[iv[1]][iv[2]] = NoVote
    BY <2>1 DEF VoteMap
  <2> QED BY <2>1, <2>2 DEF Worth
<1>7. \A iv \in T : h[iv] = g[iv]
  <2> SUFFICES ASSUME NEW iv \in T PROVE h[iv] = g[iv]
    OBVIOUS
  <2>1. iv \in ProposalID \X Voter /\ iv[1] # id
    BY <1>2 DEF Cells
  <2>2. after[iv[1]] = vts[iv[1]]
    BY <2>1 DEF VoteMap
  <2> QED BY <2>1, <2>2 DEF Worth
<1> HIDE DEF after, S, T, g, h
<1>8. SumOver(h, S) = SumOver(h, T)
  BY <1>2, <1>3, <1>4, <1>6, SumOverZeros
<1>9. SumOver(h, T) = SumOver(g, T)
  BY <1>2, <1>5, <1>7, SumOverSame
<1> QED BY <1>8, <1>9 DEF CastIn, after, S, T, g, h

FirstVote(vts, id, v, d, w, after) ==
    /\ vts[id][v] = NoVote
    /\ after = [vts EXCEPT ![id][v] = [decision |-> d, weight |-> w]]

Gain(p, id, d, w, decisions) == IF p = id[1] /\ d \in decisions THEN w ELSE 0

\* A first vote adds its weight to its proposal and its decision.
LEMMA CastInVote ==
  ASSUME NEW vts \in VoteMap, NEW ids \in SUBSET ProposalID, NEW id \in ids, NEW v \in Voter,
         NEW d \in Decision, NEW w \in Nat,
         NEW p \in Proposal, NEW decisions,
         NEW after, FirstVote(vts, id, v, d, w, after)
  PROVE  CastIn(after, ids, p, decisions)
            = CastIn(vts, ids, p, decisions) + Gain(p, id, d, w, decisions)
<1> USE DEF FirstVote
<1> DEFINE vote == [decision |-> d, weight |-> w]
           S == Cells(ids, p)
           g == Worth(vts, decisions)
           h == Worth(after, decisions)
           cell == <<id, v>>
<1>1. vote \in VoteRecord /\ vote # NoVote
  BY NoVoteAssumption DEF VoteRecord
<1>2. id \in ProposalID
  OBVIOUS
<1>3. after \in VoteMap
  BY <1>1, <1>2 DEF VoteMap
<1>4. IsFiniteSet(S) /\ S \in SUBSET (ProposalID \X Voter)
  BY CellsFinite
<1>5. cell \in ProposalID \X Voter /\ cell[1] = id /\ cell[2] = v /\ (cell \in S <=> p = id[1])
  BY <1>2 DEF Cells
<1>6. g[cell] = 0 /\ h[cell] = IF d \in decisions THEN w ELSE 0
  <2>1. after[id][v] = vote
    BY <1>2 DEF VoteMap
  <2> HIDE DEF cell
  <2>2. g[cell] = 0
    BY <1>5 DEF Worth
  <2>3. h[cell] = IF vote.decision \in decisions THEN vote.weight ELSE 0
    BY <1>5, <2>1, <1>1 DEF Worth
  <2> QED BY <2>2, <2>3
<1>7. \A iv \in (ProposalID \X Voter) \ {cell} : h[iv] = g[iv]
  <2> SUFFICES ASSUME NEW iv \in (ProposalID \X Voter) \ {cell} PROVE h[iv] = g[iv]
    OBVIOUS
  <2>1. iv[1] # id \/ iv[2] # v
    OBVIOUS
  <2>2. after[iv[1]][iv[2]] = vts[iv[1]][iv[2]]
    BY <2>1, <1>2 DEF VoteMap
  <2> QED BY <2>2 DEF Worth
<1>8. \A iv \in S : g[iv] \in Int /\ h[iv] \in Int
  BY <1>3, <1>4, WorthTypes
<1> HIDE DEF S, g, h, cell
<1>9. CASE p = id[1]
  <2>1. SumOver(h, S) = SumOver(g, S) + (h[cell] - g[cell])
    BY <1>9, <1>4, <1>5, <1>7, <1>8, SumOverChange
  <2>2. SumOver(g, S) \in Int
    BY <1>4, <1>8, SumOverType
  <2>3. SumOver(h, S) = SumOver(g, S) + (IF d \in decisions THEN w ELSE 0)
    BY <2>1, <2>2, <1>6
  <2> QED BY <2>3, <1>9 DEF CastIn, S, g, h, Gain
<1>10. CASE p # id[1]
  <2>1. \A iv \in S : h[iv] = g[iv]
    BY <1>10, <1>4, <1>5, <1>7
  <2>2. SumOver(h, S) = SumOver(g, S) /\ SumOver(g, S) \in Int
    BY <1>4, <1>8, <2>1, SumOverSame, SumOverType
  <2> QED BY <2>2, <1>10 DEF CastIn, S, g, h, Gain
<1> QED BY <1>9, <1>10

\* VotesDecide, with the sums as functions of the state.
TallyInv(tly, vts, ids) ==
    \A p \in Proposal, d \in Decision : tly[p][d] = CastIn(vts, ids, p, {d}) % GovModulus
MajorityInv(sts, vts, ids) ==
    \A p \in Proposal :
        sts[p] = "approved" /\ CastIn(vts, ids, p, Decision) < GovModulus
            => 2 * CastIn(vts, ids, p, {"yes"}) > CastIn(vts, ids, p, Decision)

GovInv == GovTypeOK /\ VotesDecide

LEMMA VotesDecideIs ==
  GovTypeOK => (VotesDecide <=> /\ TallyInv(tally, votes, proposals)
                                /\ MajorityInv(status, votes, proposals))
<1> SUFFICES ASSUME GovTypeOK
             PROVE  VotesDecide <=> /\ TallyInv(tally, votes, proposals)
                                    /\ MajorityInv(status, votes, proposals)
  OBVIOUS
<1>1. \A p \in Proposal : \A decisions : Cast(p, decisions) = CastIn(votes, proposals, p, decisions)
  BY CastIsCastIn DEF GovTypeOK
<1>2. TallyIsVotes <=> TallyInv(tally, votes, proposals)
  BY <1>1 DEF TallyIsVotes, TallyInv
<1>3. ApprovedByMajority <=> MajorityInv(status, votes, proposals)
  BY <1>1 DEF ApprovedByMajority, MajorityInv
<1> QED BY <1>2, <1>3 DEF VotesDecide

LEMMA VotesDecideIsNext ==
  (GovTypeOK => (VotesDecide <=> /\ TallyInv(tally, votes, proposals)
                                 /\ MajorityInv(status, votes, proposals)))'
  BY VotesDecideIs, PTL

LEMMA GovInitOK == GovInit => GovInv
<1> SUFFICES ASSUME GovInit PROVE GovInv
  OBVIOUS
<1>1. GovTypeOK
  <2>0. 0 \in 0 .. GovMaxTime /\ 0 \in 0 .. (GovModulus - 1)
    BY GovernanceAssumption
  <2>1. proposals \subseteq ProposalID /\ config \subseteq Proposal
    BY DEF GovInit
  <2>2. votes \in [ProposalID -> [Voter -> VoteRecord \cup {NoVote}]]
    BY DEF GovInit
  <2>3. tally \in [Proposal -> [Decision -> 0 .. GovModulus - 1]]
    BY <2>0 DEF GovInit
  <2>4. govNow \in 1 .. GovMaxTime
    BY GovernanceAssumption DEF GovInit
  <2> QED BY <2>0, <2>1, <2>2, <2>3, <2>4 DEF GovInit, GovTypeOK, Status
<1>2. \A p \in Proposal : \A decisions : CastIn(votes, proposals, p, decisions) = 0
  <2> SUFFICES ASSUME NEW p \in Proposal, NEW decisions
               PROVE  CastIn(votes, proposals, p, decisions) = 0
    OBVIOUS
  <2>1. Cells(proposals, p) = {}
    BY DEF GovInit, Cells
  <2> QED BY <2>1, SumOverEmpty DEF CastIn
<1>3. TallyInv(tally, votes, proposals)
  <2>1. 0 % GovModulus = 0
    BY GovernanceAssumption
  <2>2. \A p \in Proposal, d \in Decision : tally[p][d] = 0
    BY DEF GovInit
  <2> QED BY <1>2, <2>1, <2>2 DEF TallyInv
<1>4. MajorityInv(status, votes, proposals)
  BY DEF GovInit, MajorityInv
<1> QED BY <1>1, <1>3, <1>4, VotesDecideIs DEF GovInv

\* A weight is a natural number: the caller's or the calculated one.
LEMMA WeightType ==
  ASSUME NEW v \in Voter, NEW w \in Weights \cup {CalculateVoteWeight(v)}
  PROVE  w \in Nat
<1> DEFINE a == Score[v] + (4 * Staked[v]) \div 10
           b == TotalSupply \div 20
<1>1. a \in Nat /\ b \in Nat
  BY GovernanceAssumption
<1> HIDE DEF a, b
<1>2. Min({a, b}) \in {a, b}
  <2>1. \E x \in {a, b} : \A y \in {a, b} : x <= y
    BY <1>1
  <2> QED BY <2>1 DEF Min
<1>3. CalculateVoteWeight(v) = Min({a, b})
  BY DEF CalculateVoteWeight, a, b
<1> QED BY <1>1, <1>2, <1>3, GovernanceAssumption

LEMMA CreateProposalKeeps ==
  ASSUME GovInv, NEW p \in Proposal, CreateProposal(p)
  PROVE  GovInv'
<1> DEFINE id == <<p, created[p]>>
<1>1. id \in ProposalID /\ id \notin proposals /\ proposals \in SUBSET ProposalID /\ votes \in VoteMap
  BY DEF GovInv, GovTypeOK, CreateProposal, ProposalID, VoteMap
<1>2. proposals' = proposals \cup {id} /\ votes' = [votes EXCEPT ![id] = [v \in Voter |-> NoVote]]
  BY DEF CreateProposal
<1>3. GovTypeOK'
  <2>1. proposals' \subseteq ProposalID
    BY <1>1, <1>2
  <2>2. votes' \in [ProposalID -> [Voter -> VoteRecord \cup {NoVote}]]
    BY <1>1, <1>2 DEF VoteMap
  <2>3. created' \in [Proposal -> 0 .. GovMaxTime]
    BY GovernanceAssumption DEF CreateProposal, GovInv, GovTypeOK
  <2>4. endTime' \in [Proposal -> Nat]
    <3>1. govNow + VotingPeriod \in Nat
      BY GovernanceAssumption DEF GovInv, GovTypeOK
    <3> QED BY <3>1 DEF CreateProposal, GovInv, GovTypeOK
  <2>5. status' \in [Proposal -> Status]
    BY DEF CreateProposal, GovInv, GovTypeOK, Status
  <2> QED BY <2>1, <2>2, <2>3, <2>4, <2>5 DEF CreateProposal, GovInv, GovTypeOK
<1> HIDE DEF id
<1>4. \A q \in Proposal : \A decisions :
         CastIn(votes', proposals', q, decisions) = CastIn(votes, proposals, q, decisions)
  <2> SUFFICES ASSUME NEW q \in Proposal, NEW decisions
               PROVE  CastIn(votes', proposals', q, decisions) = CastIn(votes, proposals, q, decisions)
    OBVIOUS
  <2>1. CastIn([votes EXCEPT ![id] = [v \in Voter |-> NoVote]], proposals \cup {id}, q, decisions)
           = CastIn(votes, proposals, q, decisions)
    BY <1>1, CastInCreate
  <2> QED BY <2>1, <1>2
<1>5. /\ TallyInv(tally, votes, proposals) /\ MajorityInv(status, votes, proposals)
  BY VotesDecideIs DEF GovInv
<1>6. tally' = tally /\ status' = [status EXCEPT ![p] = "pending"] /\ status \in [Proposal -> Status]
  BY DEF CreateProposal, GovInv, GovTypeOK
<1>7. TallyInv(tally', votes', proposals')
  BY <1>4, <1>5, <1>6 DEF TallyInv
<1>8. MajorityInv(status', votes', proposals')
  BY <1>4, <1>5, <1>6 DEF MajorityInv
<1> QED BY <1>3, <1>7, <1>8, VotesDecideIsNext DEF GovInv

LEMMA VoteKeeps ==
  ASSUME GovInv, NEW id \in ProposalID, NEW v \in Voter, NEW d \in Decision, NEW w \in Nat,
         Vote(id, v, d, w)
  PROVE  GovInv'
<1>1. /\ id \in proposals /\ proposals \in SUBSET ProposalID /\ votes \in VoteMap
      /\ votes[id][v] = NoVote /\ status[id[1]] = "pending" /\ id[1] \in Proposal
  BY DEF GovInv, GovTypeOK, Vote, MayVote, ProposalID, VoteMap
<1>2. /\ votes' = [votes EXCEPT ![id][v] = [decision |-> d, weight |-> w]]
      /\ tally' = [tally EXCEPT ![id[1]][d] = (tally[id[1]][d] + w) % GovModulus]
      /\ proposals' = proposals /\ status' = status
      /\ tally \in [Proposal -> [Decision -> 0 .. GovModulus - 1]]
  BY DEF Vote, GovInv, GovTypeOK
<1>3. \A x \in Int : x % GovModulus \in 0 .. GovModulus - 1
  BY GovernanceAssumption, DivMod
<1>4. GovTypeOK'
  <2>1. votes' \in [ProposalID -> [Voter -> VoteRecord \cup {NoVote}]]
    <3>1. [decision |-> d, weight |-> w] \in VoteRecord
      BY DEF VoteRecord
    <3> QED BY <1>1, <1>2, <3>1 DEF VoteMap
  <2>2. tally' \in [Proposal -> [Decision -> 0 .. GovModulus - 1]]
    <3>1. tally[id[1]][d] + w \in Int
      BY <1>1, <1>2, GovernanceAssumption
    <3>2. (tally[id[1]][d] + w) % GovModulus \in 0 .. GovModulus - 1
      BY <3>1, <1>3
    <3> QED BY <1>1, <1>2, <3>2
  <2> QED BY <2>1, <2>2 DEF Vote, GovInv, GovTypeOK
<1>5. \A q \in Proposal : \A decisions :
         /\ CastIn(votes, proposals, q, decisions) \in Nat
         /\ CastIn(votes', proposals', q, decisions)
              = CastIn(votes, proposals, q, decisions) + (IF q = id[1] /\ d \in decisions THEN w ELSE 0)
  <2> SUFFICES ASSUME NEW q \in Proposal, NEW decisions
               PROVE  /\ CastIn(votes, proposals, q, decisions) \in Nat
                      /\ CastIn(votes', proposals', q, decisions)
                           = CastIn(votes, proposals, q, decisions)
                               + (IF q = id[1] /\ d \in decisions THEN w ELSE 0)
    OBVIOUS
  <2>1. FirstVote(votes, id, v, d, w, votes')
    BY <1>1, <1>2 DEF FirstVote
  <2>2. CastIn(votes', proposals, q, decisions)
           = CastIn(votes, proposals, q, decisions) + Gain(q, id, d, w, decisions)
    BY <1>1, <2>1, CastInVote
  <2> QED BY <2>2, <1>1, <1>2, CastInType DEF Gain
<1>6. /\ TallyInv(tally, votes, proposals) /\ MajorityInv(status, votes, proposals)
  BY VotesDecideIs DEF GovInv
<1>7. TallyInv(tally', votes', proposals')
  <2> SUFFICES ASSUME NEW q \in Proposal, NEW e \in Decision
               PROVE  tally'[q][e] = CastIn(votes', proposals', q, {e}) % GovModulus
    BY DEF TallyInv
  <2> DEFINE before == CastIn(votes, proposals, q, {e})
  <2>1. before \in Nat /\ tally[q][e] = before % GovModulus
    BY <1>5, <1>6 DEF TallyInv
  <2>2. CASE q = id[1] /\ e = d
    <3>1. CastIn(votes', proposals', q, {e}) = before + w
      BY <2>2, <1>5
    <3>2. tally'[q][e] = (tally[q][e] + w) % GovModulus
      BY <2>2, <1>2
    <3> HIDE DEF before
    <3>3. GovModulus \in Nat /\ GovModulus > 0 /\ before \in Int /\ w \in Int
      BY <2>1, GovernanceAssumption
    <3>4. ((before % GovModulus) + w) % GovModulus = (before + w) % GovModulus
      BY <3>3, ModAdd
    <3> QED BY <2>1, <3>1, <3>2, <3>4
  <2>3. CASE ~ (q = id[1] /\ e = d)
    <3>1. CastIn(votes', proposals', q, {e}) = before
      <4>1. CastIn(votes', proposals', q, {e}) = before + 0
        BY <2>3, <1>5
      <4> QED BY <4>1, <2>1
    <3>2. tally'[q][e] = tally[q][e]
      BY <2>3, <1>1, <1>2
    <3> QED BY <2>1, <3>1, <3>2
  <2> QED BY <2>2, <2>3
<1>8. MajorityInv(status', votes', proposals')
  <2> SUFFICES ASSUME NEW q \in Proposal, status[q] = "approved"
               PROVE  CastIn(votes', proposals', q, Decision) < GovModulus
                        => 2 * CastIn(votes', proposals', q, {"yes"}) > CastIn(votes', proposals', q, Decision)
    BY <1>2 DEF MajorityInv
  <2>1. \A decisions : CastIn(votes', proposals', q, decisions) = CastIn(votes, proposals, q, decisions)
    <3>1. q # id[1]
      BY <1>1
    <3> QED BY <3>1, <1>5
  <2> QED BY <2>1, <1>6 DEF MajorityInv
<1> QED BY <1>4, <1>7, <1>8, VotesDecideIsNext DEF GovInv

\* The outcome of the tallies is a majority of the weight cast when that is
\* below the modulus, for then no tally has wrapped.
LEMMA CheckKeeps ==
  ASSUME GovInv, NEW id \in ProposalID, CheckProposalResult(id)
  PROVE  GovInv'
<1> DEFINE p == id[1]
           outcome == Outcome(tally[p])
<1>1. /\ p \in Proposal /\ status' = [status EXCEPT ![p] = outcome] /\ status \in [Proposal -> Status]
      /\ votes' = votes /\ proposals' = proposals /\ tally' = tally
      /\ proposals \in SUBSET ProposalID /\ votes \in VoteMap
  BY DEF GovInv, GovTypeOK, CheckProposalResult, ProposalID, VoteMap
<1>2. outcome \in {"approved", "rejected"}
  BY DEF Outcome
<1>3. GovTypeOK'
  <2>1. status' \in [Proposal -> Status]
    BY <1>1, <1>2 DEF Status
  <2> QED BY <2>1 DEF CheckProposalResult, GovInv, GovTypeOK
<1>4. /\ TallyInv(tally, votes, proposals) /\ MajorityInv(status, votes, proposals)
  BY VotesDecideIs DEF GovInv
<1>5. ASSUME outcome = "approved", CastIn(votes, proposals, p, Decision) < GovModulus
      PROVE  2 * CastIn(votes, proposals, p, {"yes"}) > CastIn(votes, proposals, p, Decision)
  <2> DEFINE yes == CastIn(votes, proposals, p, {"yes"})
             no == CastIn(votes, proposals, p, {"no"})
             abstain == CastIn(votes, proposals, p, {"abstain"})
             all == CastIn(votes, proposals, p, Decision)
  <2>1. yes \in Nat /\ no \in Nat /\ abstain \in Nat /\ all \in Nat /\ all = yes + no + abstain
    BY <1>1, CastInType, CastInParts
  <2>2. /\ tally[p]["yes"] = yes % GovModulus /\ tally[p]["no"] = no % GovModulus
        /\ tally[p]["abstain"] = abstain % GovModulus
    BY <1>1, <1>4 DEF TallyInv, Decision
  <2>3. all < GovModulus
    BY <1>5
  <2> HIDE DEF yes, no, abstain, all
  <2>4. GovModulus \in Nat /\ GovModulus > 0 /\ \A x \in {yes, no, abstain, all} : x \in 0 .. (GovModulus - 1)
    BY <2>1, <2>3, GovernanceAssumption
  <2>5. tally[p]["yes"] = yes /\ tally[p]["no"] = no /\ tally[p]["abstain"] = abstain
    BY <2>2, <2>4, ModSmall
  <2>6. (yes + no + abstain) % GovModulus = all
    BY <2>1, <2>4, ModSmall
  <2>7. 2 * yes > all
    BY <1>5, <2>5, <2>6 DEF Outcome
  <2> QED BY <2>7 DEF yes, all
<1> HIDE DEF p, outcome
<1>6. MajorityInv(status', votes', proposals')
  BY <1>1, <1>4, <1>5 DEF MajorityInv
<1>7. TallyInv(tally', votes', proposals')
  BY <1>1, <1>4
<1> QED BY <1>3, <1>6, <1>7, VotesDecideIsNext DEF GovInv

LEMMA GovStutter ==
  ASSUME GovInv, GovTypeOK', votes' = votes, proposals' = proposals, tally' = tally, status' = status
  PROVE  GovInv'
<1>1. /\ TallyInv(tally, votes, proposals) /\ MajorityInv(status, votes, proposals)
  BY VotesDecideIs DEF GovInv
<1>2. TallyInv(tally', votes', proposals') /\ MajorityInv(status', votes', proposals')
  BY <1>1
<1> QED BY <1>2, VotesDecideIsNext DEF GovInv

LEMMA GovNextOK == GovInv /\ [GovNext]_govVars => GovInv'
<1> SUFFICES ASSUME GovInv, [GovNext]_govVars PROVE GovInv'
  OBVIOUS
<1>1. ASSUME NEW p \in Proposal, CreateProposal(p) PROVE GovInv'
  BY <1>1, CreateProposalKeeps
<1>2. ASSUME NEW p \in Proposal, ExecuteProposal(p) PROVE GovInv'
  <2>1. GovTypeOK'
    BY <1>2 DEF GovInv, GovTypeOK, ExecuteProposal
  <2> QED BY <2>1, <1>2, GovStutter DEF ExecuteProposal
<1>3. ASSUME NEW id \in ProposalID, NEW v \in Voter, NEW d \in Decision,
             NEW w \in Weights \cup {CalculateVoteWeight(v)}, Vote(id, v, d, w)
      PROVE  GovInv'
  BY <1>3, VoteKeeps, WeightType
<1>4. ASSUME NEW id \in ProposalID, CheckProposalResult(id) PROVE GovInv'
  BY <1>4, CheckKeeps
<1>5. CASE ProcessProposals
  <2>1. GovTypeOK'
    BY <1>5 DEF GovInv, GovTypeOK, ProcessProposals
  <2> QED BY <2>1, <1>5, GovStutter DEF ProcessProposals
<1>6. CASE GovTick
  <2>1. GovTypeOK'
    BY <1>6, GovernanceAssumption DEF GovInv, GovTypeOK, GovTick
  <2> QED BY <2>1, <1>6, GovStutter DEF GovTick
<1>7. CASE UNCHANGED govVars
  <2>1. GovTypeOK'
    BY <1>7 DEF GovInv, GovTypeOK, govVars
  <2> QED BY <2>1, <1>7, GovStutter DEF govVars
<1> QED BY <1>1, <1>2, <1>3, <1>4, <1>5, <1>6, <1>7 DEF GovNext

\* The tallies of a proposal are the votes stored under all its identifiers,
\* and a proposal is approved by a majority of the weight cast unless the
\* weights have exceeded a uint64, for every number of voters and every weight
\* they name (CreateProposal, Vote and CheckProposalResult of pkg/governance).
THEOREM VotesDecideCorrect == GovSpec => []VotesDecide
<1>1. GovInv => VotesDecide
  BY DEF GovInv
<1> QED BY GovInitOK, GovNextOK, <1>1, PTL DEF GovSpec

\* A decision changes only in a step that adds an identifier of the proposal:
\* CreateProposal handed the same object again.
THEOREM DecisionFinalCorrect == GovSpec => DecisionFinal
<1>1. ASSUME GovInv, GovNext
      PROVE  \A p \in Proposal : status[p] \in {"approved", "rejected"} /\ status'[p] # status[p]
                                    => IDsOf(p) # IDsOf(p)'
  <2> SUFFICES ASSUME NEW q \in Proposal, status[q] \in {"approved", "rejected"}, status'[q] # status[q]
               PROVE  IDsOf(q) # IDsOf(q)'
    OBVIOUS
  <2>1. ASSUME NEW p \in Proposal, CreateProposal(p) PROVE IDsOf(q) # IDsOf(q)'
    <3>1. p = q
      BY <2>1, <1>1 DEF CreateProposal, GovInv, GovTypeOK
    <3>2. <<p, created[p]>> \notin proposals /\ proposals' = proposals \cup {<<p, created[p]>>}
      BY <2>1 DEF CreateProposal
    <3>3. <<p, created[p]>> \notin IDsOf(q) /\ <<p, created[p]>> \in IDsOf(q)'
      BY <3>1, <3>2 DEF IDsOf
    <3> QED BY <3>3
  <2>2. ASSUME NEW id \in ProposalID, CheckProposalResult(id) PROVE FALSE
    BY <2>2, <1>1 DEF CheckProposalResult, Ended, GovInv, GovTypeOK
  <2> QED BY <2>1, <2>2, <1>1 DEF GovNext, ExecuteProposal, Vote, ProcessProposals, GovTick
<1>2. GovInv /\ [GovNext]_govVars
        => [\A p \in Proposal : status[p] \in {"approved", "rejected"} /\ status'[p] # status[p]
                                    => IDsOf(p) # IDsOf(p)']_govVars
  BY <1>1
<1> QED BY GovInitOK, GovNextOK, <1>2, PTL DEF GovSpec, DecisionFinal

-----------------------------------------------------------------------------
(* The wallet.                                                             *)

AccountRec == [addr : Passwords, key : Passwords \cup {Plain}, nonce : 0 .. MaxNonce + 1]
BuildRec == [pc : {"idle", "sign", "update"}, addr : Passwords, nonce : 0 .. MaxNonce]

\* Addresses, IndexOf and the nonce it finds, as functions of the accounts.
Addrs(accs) == {accs[i].addr : i \in DOMAIN accs}
LastAt(accs, a) == Max({i \in DOMAIN accs : accs[i].addr = a})
NonceOf(accs, a) == accs[LastAt(accs, a)].nonce

LEMMA LastAtOK ==
  ASSUME NEW accs \in Seq(AccountRec), NEW a \in Addrs(accs)
  PROVE  /\ LastAt(accs, a) \in DOMAIN accs /\ accs[LastAt(accs, a)].addr = a
         /\ \A i \in DOMAIN accs : accs[i].addr = a => i <= LastAt(accs, a)
<1> DEFINE S == {i \in DOMAIN accs : accs[i].addr = a}
<1>1. Len(accs) \in Nat /\ DOMAIN accs = 1 .. Len(accs)
  OBVIOUS
<1>2. S \in SUBSET (0 .. Len(accs)) /\ S # {}
  BY <1>1 DEF Addrs
<1>3. Max(S) \in S /\ \A x \in S : x <= Max(S)
  BY <1>1, <1>2, MaxBounded
<1> QED BY <1>3 DEF LastAt

LEMMA SameNonces ==
  ASSUME NEW accs, NEW after, DOMAIN after = DOMAIN accs,
         \A i \in DOMAIN accs : after[i].addr = accs[i].addr /\ after[i].nonce = accs[i].nonce,
         accs \in Seq(AccountRec)
  PROVE  Addrs(after) = Addrs(accs) /\ \A a \in Addrs(accs) : NonceOf(after, a) = NonceOf(accs, a)
<1>1. Addrs(after) = Addrs(accs)
  BY DEF Addrs
<1>2. ASSUME NEW a \in Addrs(accs) PROVE NonceOf(after, a) = NonceOf(accs, a)
  <2>1. {i \in DOMAIN after : after[i].addr = a} = {i \in DOMAIN accs : accs[i].addr = a}
    OBVIOUS
  <2>2. LastAt(after, a) = LastAt(accs, a)
    BY <2>1 DEF LastAt
  <2>3. LastAt(accs, a) \in DOMAIN accs
    BY LastAtOK
  <2> QED BY <2>2, <2>3 DEF NonceOf
<1> QED BY <1>1, <1>2

LEMMA AppendNonces ==
  ASSUME NEW accs \in Seq(AccountRec), NEW rec \in AccountRec
  PROVE  /\ Addrs(Append(accs, rec)) = Addrs(accs) \cup {rec.addr}
         /\ \A a \in Addrs(accs) \ {rec.addr} : NonceOf(Append(accs, rec), a) = NonceOf(accs, a)
         /\ NonceOf(Append(accs, rec), rec.addr) = rec.nonce
<1> DEFINE after == Append(accs, rec)
           n == Len(accs)
<1>1. /\ n \in Nat /\ DOMAIN accs = 1 .. n /\ DOMAIN after = 1 .. (n + 1) /\ after[n + 1] = rec
      /\ \A i \in 1 .. n : after[i] = accs[i]
      /\ after \in Seq(AccountRec)
  OBVIOUS
<1> HIDE DEF after, n
<1>2. Addrs(after) = Addrs(accs) \cup {rec.addr}
  <2>1. 1 .. (n + 1) = (1 .. n) \cup {n + 1}
    BY <1>1
  <2> QED BY <1>1, <2>1 DEF Addrs
<1>3. ASSUME NEW a \in Addrs(accs) \ {rec.addr} PROVE NonceOf(after, a) = NonceOf(accs, a)
  <2>1. {i \in DOMAIN after : after[i].addr = a} = {i \in DOMAIN accs : accs[i].addr = a}
    BY <1>1
  <2>2. LastAt(after, a) = LastAt(accs, a)
    BY <2>1 DEF LastAt
  <2>3. LastAt(accs, a) \in 1 .. n
    BY <1>1, LastAtOK
  <2> QED BY <1>1, <2>2, <2>3 DEF NonceOf
<1>4. NonceOf(after, rec.addr) = rec.nonce
  <2>1. rec.addr \in Addrs(after)
    BY <1>2
  <2>2. LastAt(after, rec.addr) \in 1 .. (n + 1) /\ n + 1 <= LastAt(after, rec.addr)
    BY <1>1, <2>1, LastAtOK
  <2>3. LastAt(after, rec.addr) = n + 1
    BY <2>2, <1>1
  <2> QED BY <2>3, <1>1 DEF NonceOf
<1> QED BY <1>2, <1>3, <1>4 DEF after

Stored(accs, b, n, after) == after = [accs EXCEPT ![LastAt(accs, b)].nonce = n]

LEMMA StoreNonce ==
  ASSUME NEW accs \in Seq(AccountRec), NEW b \in Addrs(accs), NEW n \in 0 .. MaxNonce + 1,
         NEW after, Stored(accs, b, n, after)
  PROVE  /\ after \in Seq(AccountRec)
         /\ DOMAIN after = DOMAIN accs
         /\ \A i \in DOMAIN accs : after[i].key = accs[i].key
         /\ Addrs(after) = Addrs(accs)
         /\ \A a \in Addrs(accs) : NonceOf(after, a) = IF a = b THEN n ELSE NonceOf(accs, a)
<1> DEFINE k == LastAt(accs, b)
<1>1. k \in DOMAIN accs /\ accs[k].addr = b
  BY LastAtOK
<1>2. after = [accs EXCEPT ![k].nonce = n]
  BY DEF Stored
<1> HIDE DEF k
<1>3. /\ DOMAIN after = DOMAIN accs
      /\ \A i \in DOMAIN accs :
            /\ after[i].addr = accs[i].addr /\ after[i].key = accs[i].key
            /\ after[i].nonce = IF i = k THEN n ELSE accs[i].nonce
            /\ after[i] \in AccountRec
  <2>1. \A i \in DOMAIN accs : accs[i] \in AccountRec
    OBVIOUS
  <2>2. DOMAIN after = DOMAIN accs
    BY <1>2
  <2>3. ASSUME NEW i \in DOMAIN accs
        PROVE  after[i] = IF i = k THEN [accs[i] EXCEPT !.nonce = n] ELSE accs[i]
    BY <1>2
  <2> QED BY <2>1, <2>2, <2>3 DEF AccountRec
<1>4. after \in Seq(AccountRec)
  <2>1. Len(accs) \in Nat /\ DOMAIN accs = 1 .. Len(accs)
    OBVIOUS
  <2>2. after \in [1 .. Len(accs) -> AccountRec]
    <3>1. after = [i \in 1 .. Len(accs) |-> after[i]]
      BY <1>2, <2>1
    <3> QED BY <1>3, <2>1, <3>1
  <2> QED BY <2>1, <2>2
<1>5. Addrs(after) = Addrs(accs)
  BY <1>3 DEF Addrs
<1>6. ASSUME NEW a \in Addrs(accs) PROVE NonceOf(after, a) = IF a = b THEN n ELSE NonceOf(accs, a)
  <2>1. {i \in DOMAIN after : after[i].addr = a} = {i \in DOMAIN accs : accs[i].addr = a}
    BY <1>3
  <2>2. LastAt(after, a) = LastAt(accs, a)
    BY <2>1 DEF LastAt
  <2>3. LastAt(accs, a) \in DOMAIN accs /\ accs[LastAt(accs, a)].addr = a
    BY LastAtOK
  <2>4. LastAt(accs, a) = k <=> a = b
    BY <1>1, <2>3 DEF k
  <2> QED BY <1>3, <2>2, <2>3, <2>4 DEF NonceOf
<1> QED BY <1>3, <1>4, <1>5, <1>6

WalletTypes ==
    /\ accounts \in Seq(AccountRec)
    /\ encrypted \in BOOLEAN /\ locked \in BOOLEAN
    /\ passwordHash \in Passwords \cup {NilHash}
    /\ build \in [Builders -> BuildRec]
    /\ stranded \in SUBSET Nat
    /\ signed \in SUBSET (Passwords \X (0 .. MaxNonce))

\* The keys: what KeysKept needs besides itself is that a locked wallet has a
\* password to encrypt a new key under.
KeyInv ==
    /\ locked => encrypted /\ passwordHash # NilHash
    /\ \A i \in DOMAIN accounts \ stranded : accounts[i].key \in {Plain, passwordHash}
    /\ locked /\ stranded = {} => \A i \in DOMAIN accounts : accounts[i].key # Plain

Builds(bld, b, a) == bld[b].pc # "idle" /\ bld[b].addr = a

\* The nonces of an address that nothing excuses: one builder at a time works
\* on it, with the nonce that is stored, and everything signed is below that
\* nonce except what the builder has just signed.
NonceHeld(accs, bld, sgn, a) ==
    /\ \A b \in Builders : Builds(bld, b, a) => bld[b].nonce = NonceOf(accs, a)
    /\ \A b, c \in Builders : Builds(bld, b, a) /\ Builds(bld, c, a) => b = c
    /\ \A n \in 0 .. MaxNonce : <<a, n>> \in sgn =>
          \/ n < NonceOf(accs, a)
          \/ n = NonceOf(accs, a) /\ \E b \in Builders : Builds(bld, b, a) /\ bld[b].pc = "update"

NonceInv ==
    /\ \A a \in Passwords, n \in 0 .. MaxNonce : <<a, n>> \in signed => a \in Addrs(accounts)
    /\ \A b \in Builders : build[b].pc # "idle" => build[b].addr \in Addrs(accounts)
    /\ \A a \in Addrs(accounts) \ excused : NonceHeld(accounts, build, signed, a)
    /\ reused \subseteq excused

WalletInv == WalletTypes /\ KeyInv /\ NonceInv

\* Accounts that a step replaces one by one, with their addresses and nonces.
Rekeyed(accs, after) ==
    /\ DOMAIN after = DOMAIN accs
    /\ \A i \in DOMAIN accs : after[i].addr = accs[i].addr /\ after[i].nonce = accs[i].nonce

LEMMA RekeyKeepsNonces ==
  ASSUME WalletInv, Rekeyed(accounts, accounts'), UNCHANGED buildVars
  PROVE  NonceInv'
<1>1. Addrs(accounts') = Addrs(accounts)
      /\ \A a \in Addrs(accounts) : NonceOf(accounts', a) = NonceOf(accounts, a)
  BY SameNonces DEF Rekeyed, WalletInv, WalletTypes
<1>2. build' = build /\ signed' = signed /\ reused' = reused /\ excused' = excused
  BY DEF buildVars
<1>3. \A a \in Addrs(accounts) \ excused : NonceHeld(accounts', build, signed, a)
  BY <1>1 DEF WalletInv, NonceInv, NonceHeld
<1> QED BY <1>1, <1>2, <1>3 DEF WalletInv, NonceInv

LEMMA WalletInitOK == WalletInit => WalletInv
<1> SUFFICES ASSUME WalletInit PROVE WalletInv
  OBVIOUS
<1>1. PICK password \in Passwords :
        /\ passwordHash = IF password = NoPassword THEN NilHash ELSE password
        /\ encrypted = (password # NoPassword)
        /\ locked = (password # NoPassword)
        /\ accounts = <<[addr |-> password, key |-> storedKey(passwordHash, encrypted), nonce |-> 0]>>
  BY DEF WalletInit
<1>2. /\ build = [b \in Builders |-> Idle] /\ stranded = {} /\ signed = {} /\ reused = {} /\ excused = {}
  BY DEF WalletInit
<1>3. 0 \in 0 .. MaxNonce + 1 /\ 0 \in 0 .. MaxNonce
  BY WalletAssumption
<1> DEFINE key == storedKey(passwordHash, encrypted)
           rec == [addr |-> password, key |-> key, nonce |-> 0]
<1>4. /\ key \in Passwords \cup {Plain} /\ key \in {Plain, passwordHash}
      /\ (locked => key # Plain /\ encrypted /\ passwordHash # NilHash)
  BY <1>1, WalletAssumption DEF storedKey
<1> HIDE DEF key
<1>5. rec \in AccountRec
  BY <1>3, <1>4 DEF AccountRec
<1>6. accounts = <<rec>> /\ DOMAIN accounts = {1} /\ accounts[1] = rec
  BY <1>1 DEF key
<1>7. WalletTypes
  <2>1. accounts \in Seq(AccountRec)
    BY <1>5, <1>6
  <2>2. Idle \in BuildRec
    BY <1>3, WalletAssumption DEF Idle, BuildRec
  <2>3. build \in [Builders -> BuildRec]
    BY <1>2, <2>2
  <2> QED BY <1>1, <1>2, <2>1, <2>3 DEF WalletTypes
<1>8. KeyInv
  BY <1>2, <1>4, <1>6 DEF KeyInv
<1>9. NonceInv
  <2>1. \A b \in Builders : build[b].pc = "idle"
    BY <1>2 DEF Idle
  <2> QED BY <1>2, <2>1 DEF NonceInv, NonceHeld, Builds
<1> QED BY <1>7, <1>8, <1>9 DEF WalletInv

LEMMA CreateAccountKeeps ==
  ASSUME WalletInv, NEW password \in Passwords, CreateAccount(password)
  PROVE  WalletInv'
<1> DEFINE key == storedKey(passwordHash, encrypted)
           rec == [addr |-> password, key |-> key, nonce |-> 0]
           n == Len(accounts)
<1>0. 0 \in 0 .. MaxNonce + 1
  BY WalletAssumption
<1>1. /\ key \in Passwords \cup {Plain} /\ key \in {Plain, passwordHash}
      /\ (locked => key # Plain)
  BY WalletAssumption DEF storedKey, WalletInv, WalletTypes, KeyInv
<1>2. /\ accounts' = Append(accounts, rec)
      /\ excused' = IF password \in Addrs(accounts) THEN excused \cup {password} ELSE excused
      /\ UNCHANGED <<encrypted, locked, passwordHash, build, stranded, signed, reused>>
  BY DEF CreateAccount, Addresses, Addrs
<1> HIDE DEF key
<1>3. rec \in AccountRec /\ rec.addr = password /\ rec.nonce = 0 /\ rec.key = key
  BY <1>0, <1>1 DEF AccountRec
<1> HIDE DEF rec
<1>4. accounts \in Seq(AccountRec)
  BY DEF WalletInv, WalletTypes
<1>5. /\ n \in Nat /\ DOMAIN accounts = 1 .. n /\ DOMAIN accounts' = 1 .. (n + 1)
      /\ accounts'[n + 1] = rec /\ (\A i \in 1 .. n : accounts'[i] = accounts[i])
      /\ accounts' \in Seq(AccountRec)
  BY <1>2, <1>3, <1>4
<1>6. WalletTypes'
  BY <1>2, <1>5 DEF WalletInv, WalletTypes
<1> HIDE DEF n
<1>7. KeyInv'
  <2>1. \A i \in DOMAIN accounts' : i = n + 1 \/ i \in DOMAIN accounts
    BY <1>5
  <2> QED BY <1>1, <1>2, <1>3, <1>5, <2>1 DEF WalletInv, KeyInv
<1>8. /\ Addrs(accounts') = Addrs(accounts) \cup {password}
      /\ \A a \in Addrs(accounts) \ {password} : NonceOf(accounts', a) = NonceOf(accounts, a)
      /\ NonceOf(accounts', password) = 0
  BY <1>2, <1>3, <1>4, AppendNonces
<1>9. NonceInv'
  <2>1. ASSUME NEW a \in Addrs(accounts') \ excused' PROVE NonceHeld(accounts', build', signed', a)
    <3>1. CASE a \in Addrs(accounts)
      <4>1. a # password /\ a \notin excused
        BY <1>2, <2>1, <3>1
      <4>2. NonceHeld(accounts, build, signed, a) /\ NonceOf(accounts', a) = NonceOf(accounts, a)
        BY <1>8, <3>1, <4>1 DEF WalletInv, NonceInv
      <4> QED BY <1>2, <4>2 DEF NonceHeld
    <3>2. CASE a \notin Addrs(accounts)
      <4>1. a = password
        BY <1>8, <2>1, <3>2
      <4>2. \A b \in Builders : ~ Builds(build, b, a)
        BY <3>2 DEF WalletInv, NonceInv, Builds
      <4>3. \A m \in 0 .. MaxNonce : <<a, m>> \notin signed
        BY <3>2, <4>1 DEF WalletInv, NonceInv
      <4> QED BY <1>2, <4>2, <4>3 DEF NonceHeld
    <3> QED BY <3>1, <3>2
  <2> QED BY <1>2, <1>8, <2>1 DEF WalletInv, NonceInv
<1> QED BY <1>6, <1>7, <1>9 DEF WalletInv

LEMMA EncryptedIs ==
  ASSUME accounts \in Seq(AccountRec), NEW n \in Nat, NEW hash \in Passwords \cup {Plain}
  PROVE  /\ Encrypted(n, hash) \in Seq(AccountRec)
         /\ Rekeyed(accounts, Encrypted(n, hash))
         /\ \A i \in DOMAIN accounts :
               Encrypted(n, hash)[i].key = IF i <= n THEN hash ELSE accounts[i].key
<1> DEFINE after == Encrypted(n, hash)
<1>1. Len(accounts) \in Nat /\ DOMAIN accounts = 1 .. Len(accounts)
      /\ \A i \in DOMAIN accounts : accounts[i] \in AccountRec
  OBVIOUS
<1>2. \A i \in DOMAIN accounts :
         after[i] = IF i <= n THEN [accounts[i] EXCEPT !.key = hash] ELSE accounts[i]
  BY DEF Encrypted
<1>3. DOMAIN after = DOMAIN accounts /\ after = [i \in 1 .. Len(accounts) |-> after[i]]
  BY <1>1 DEF Encrypted
<1> HIDE DEF after
<1>4. \A i \in DOMAIN accounts :
         /\ after[i] \in AccountRec /\ after[i].addr = accounts[i].addr
         /\ after[i].nonce = accounts[i].nonce /\ after[i].key = IF i <= n THEN hash ELSE accounts[i].key
  BY <1>1, <1>2 DEF AccountRec
<1>5. after \in [1 .. Len(accounts) -> AccountRec]
  BY <1>1, <1>3, <1>4
<1>6. after \in Seq(AccountRec)
  BY <1>1, <1>5
<1> QED BY <1>3, <1>4, <1>6 DEF Rekeyed, after

LEMMA LockKeeps == WalletInv /\ Lock => WalletInv'
<1> SUFFICES ASSUME WalletInv, Lock PROVE WalletInv'
  OBVIOUS
<1>1. PICK n \in 0 .. Len(accounts) :
        /\ accounts' = [i \in DOMAIN accounts |->
                IF i <= n /\ accounts[i].key = Plain THEN [accounts[i] EXCEPT !.key = passwordHash]
                ELSE accounts[i]]
        /\ \/ n = Len(accounts) /\ locked' = TRUE /\ UNCHANGED encryptFaults
           \/ EncryptFailsAt(n) /\ accounts[n + 1].key = Plain /\ UNCHANGED locked
  BY DEF Lock
<1>2. ~ locked /\ encrypted /\ passwordHash # NilHash /\ UNCHANGED <<encrypted, passwordHash, stranded, buildVars>>
  BY DEF Lock
<1>3. /\ accounts \in Seq(AccountRec) /\ Len(accounts) \in Nat /\ DOMAIN accounts = 1 .. Len(accounts)
      /\ (\A i \in DOMAIN accounts : accounts[i] \in AccountRec)
      /\ passwordHash \in Passwords /\ passwordHash # Plain
  BY <1>2, WalletAssumption DEF WalletInv, WalletTypes
<1>4. DOMAIN accounts' = DOMAIN accounts /\ accounts' = [i \in 1 .. Len(accounts) |-> accounts'[i]]
  BY <1>1, <1>3
<1>5. \A i \in DOMAIN accounts :
         accounts'[i] = IF i <= n /\ accounts[i].key = Plain THEN [accounts[i] EXCEPT !.key = passwordHash]
                        ELSE accounts[i]
  BY <1>1
<1>6. \A i \in DOMAIN accounts :
         /\ accounts'[i] \in AccountRec /\ accounts'[i].addr = accounts[i].addr
         /\ accounts'[i].nonce = accounts[i].nonce
         /\ accounts'[i].key = IF i <= n /\ accounts[i].key = Plain THEN passwordHash ELSE accounts[i].key
  BY <1>3, <1>5 DEF AccountRec
<1>7. accounts' \in Seq(AccountRec)
  <2>1. accounts' \in [1 .. Len(accounts) -> AccountRec]
    BY <1>3, <1>4, <1>6
  <2> QED BY <2>1, <1>3
<1>8. WalletTypes'
  <2>1. locked' \in BOOLEAN
    BY <1>1 DEF WalletInv, WalletTypes
  <2> QED BY <1>2, <1>7, <2>1 DEF WalletInv, WalletTypes, buildVars
<1>9. KeyInv'
  <2>1. locked' => \A i \in DOMAIN accounts : i <= n
    <3>1. locked' => n = Len(accounts)
      BY <1>1, <1>2, Zenon
    <3> QED BY <3>1, <1>3
  <2>2. locked' => \A i \in DOMAIN accounts : accounts'[i].key # Plain
    BY <2>1, <1>6, <1>3
  <2>3. \A i \in DOMAIN accounts \ stranded : accounts'[i].key \in {Plain, passwordHash}
    BY <1>6 DEF WalletInv, KeyInv
  <2> QED BY <1>2, <1>4, <2>2, <2>3 DEF KeyInv
<1>10. NonceInv'
  BY <1>2, <1>4, <1>6, RekeyKeepsNonces DEF Rekeyed
<1> QED BY <1>8, <1>9, <1>10 DEF WalletInv

LEMMA DecryptableIs ==
  ASSUME accounts \in Seq(AccountRec)
  PROVE  /\ Decryptable \in 0 .. Len(accounts)
         /\ (\A i \in DOMAIN accounts : accounts[i].key \in {Plain, passwordHash})
                => Decryptable = Len(accounts)
<1> DEFINE S == {n \in 0 .. Len(accounts) : \A i \in 1 .. n : accounts[i].key \in {Plain, passwordHash}}
<1>1. Len(accounts) \in Nat /\ DOMAIN accounts = 1 .. Len(accounts)
  OBVIOUS
<1>2. 0 \in S
  BY <1>1
<1>3. Max(S) \in S /\ \A x \in S : x <= Max(S)
  BY <1>1, <1>2, MaxBounded
<1>4. (\A i \in DOMAIN accounts : accounts[i].key \in {Plain, passwordHash}) => Len(accounts) \in S
  BY <1>1
<1>5. Decryptable = Max(S)
  BY DEF Decryptable
<1> HIDE DEF S
<1>6. S \subseteq 0 .. Len(accounts)
  BY DEF S
<1>7. Max(S) \in 0 .. Len(accounts)
  BY <1>3, <1>6
<1>8. Len(accounts) \in S => Len(accounts) <= Max(S)
  BY <1>3
<1>9. Len(accounts) \in S => Max(S) = Len(accounts)
  BY <1>1, <1>7, <1>8
<1> QED BY <1>4, <1>5, <1>7, <1>9

LEMMA UnlockKeeps ==
  ASSUME WalletInv, NEW password \in Passwords, Unlock(password)
  PROVE  WalletInv'
<1>1. /\ accounts \in Seq(AccountRec) /\ Decryptable \in Nat
      /\ Len(accounts) \in Nat /\ DOMAIN accounts = 1 .. Len(accounts)
  BY DecryptableIs DEF WalletInv, WalletTypes
<1>2. /\ accounts' = Encrypted(Decryptable, Plain) /\ locked' = (Decryptable < Len(accounts))
      /\ locked /\ UNCHANGED <<encrypted, passwordHash, stranded, buildVars>>
  BY DEF Unlock
<1>3. /\ accounts' \in Seq(AccountRec) /\ Rekeyed(accounts, accounts')
      /\ \A i \in DOMAIN accounts : accounts'[i].key = IF i <= Decryptable THEN Plain ELSE accounts[i].key
  BY <1>1, <1>2, EncryptedIs
<1>4. WalletTypes'
  BY <1>2, <1>3 DEF WalletInv, WalletTypes, buildVars
<1>5. KeyInv'
  <2>1. stranded = {} => ~ locked'
    <3>1. stranded = {} => Decryptable = Len(accounts)
      BY <1>1, DecryptableIs DEF WalletInv, KeyInv
    <3>2. stranded = {} => ~ (Decryptable < Len(accounts))
      BY <3>1, <1>1
    <3> QED BY <3>2, <1>2, Zenon
  <2>2. \A i \in DOMAIN accounts \ stranded : accounts'[i].key \in {Plain, passwordHash}
    BY <1>3 DEF WalletInv, KeyInv
  <2> QED BY <1>2, <1>3, <2>1, <2>2 DEF WalletInv, KeyInv, Rekeyed
<1>6. NonceInv'
  BY <1>2, <1>3, RekeyKeepsNonces
<1> QED BY <1>4, <1>5, <1>6 DEF WalletInv

LEMMA ChangePasswordKeeps ==
  ASSUME WalletInv, NEW old \in Passwords, NEW new \in Passwords, ChangePassword(old, new)
  PROVE  WalletInv'
<1>1. /\ accounts \in Seq(AccountRec) /\ Decryptable \in 0 .. Len(accounts)
      /\ Len(accounts) \in Nat /\ DOMAIN accounts = 1 .. Len(accounts)
  BY DecryptableIs DEF WalletInv, WalletTypes
<1>2. PICK n \in 0 .. Decryptable :
        /\ accounts' = Encrypted(n, new)
        /\ \/ n = Len(accounts) /\ passwordHash' = new /\ UNCHANGED <<encryptFaults, stranded>>
           \/ /\ n = Decryptable /\ n < Len(accounts)
              /\ stranded' = stranded \cup 1 .. n
              /\ UNCHANGED <<passwordHash, encryptFaults>>
           \/ EncryptFailsAt(n) /\ stranded' = stranded \cup 1 .. n /\ UNCHANGED passwordHash
  BY DEF ChangePassword
<1>3. UNCHANGED <<encrypted, locked, buildVars>>
  BY DEF ChangePassword
<1>4. n \in Nat /\ new # Plain /\ new # NilHash
  BY <1>1, WalletAssumption
<1>5. /\ accounts' \in Seq(AccountRec) /\ Rekeyed(accounts, accounts')
      /\ \A i \in DOMAIN accounts : accounts'[i].key = IF i <= n THEN new ELSE accounts[i].key
  BY <1>1, <1>2, <1>4, EncryptedIs
<1>6. NonceInv'
  BY <1>3, <1>5, RekeyKeepsNonces
<1>7. CASE n = Len(accounts) /\ passwordHash' = new /\ stranded' = stranded
  <2>1. \A i \in DOMAIN accounts : accounts'[i].key = new
    BY <1>1, <1>5, <1>7
  <2>2. WalletTypes'
    BY <1>3, <1>5, <1>7 DEF WalletInv, WalletTypes, buildVars
  <2>3. KeyInv'
    BY <1>3, <1>4, <1>5, <1>7, <2>1 DEF WalletInv, KeyInv, Rekeyed
  <2> QED BY <2>2, <2>3, <1>6 DEF WalletInv
<1>8. CASE stranded' = stranded \cup 1 .. n /\ passwordHash' = passwordHash
  <2>1. WalletTypes'
    <3>1. 1 .. n \subseteq Nat
      BY <1>4
    <3> QED BY <1>3, <1>5, <1>8, <3>1 DEF WalletInv, WalletTypes, buildVars
  <2>2. \A i \in DOMAIN accounts \ stranded' : accounts'[i].key = accounts[i].key
    <3>1. \A i \in DOMAIN accounts \ stranded' : ~ (i <= n)
      BY <1>1, <1>4, <1>8
    <3> QED BY <3>1, <1>5
  <2>3. KeyInv'
    BY <1>3, <1>5, <1>8, <2>2 DEF WalletInv, KeyInv, Rekeyed
  <2> QED BY <2>1, <2>3, <1>6 DEF WalletInv
<1> QED BY <1>2, <1>7, <1>8

LEMMA GetNonceKeeps ==
  ASSUME WalletInv, NEW b \in Builders, NEW addr \in Passwords, NEW explicit \in ExplicitNonces,
         GetNonce(b, addr, explicit)
  PROVE  WalletInv'
<1> DEFINE nonce == IF explicit = 0 THEN accounts[IndexOf(addr)].nonce ELSE explicit
           rec == [pc |-> "sign", addr |-> addr, nonce |-> nonce]
<1>1. /\ build[b].pc = "idle" /\ addr \in Addrs(accounts) /\ nonce <= MaxNonce
      /\ build' = [build EXCEPT ![b] = rec]
      /\ UNCHANGED <<keyVars, signed, reused>>
  BY DEF GetNonce, Addresses, Addrs
<1>2. excused' = IF explicit # 0 \/ \E other \in Builders : Builds(build, other, addr)
                 THEN excused \cup {addr} ELSE excused
  BY DEF GetNonce, Builds
<1>3. /\ accounts \in Seq(AccountRec) /\ build \in [Builders -> BuildRec]
      /\ UNCHANGED <<accounts, encrypted, locked, passwordHash, stranded, signed, reused>>
  BY <1>1 DEF WalletInv, WalletTypes, keyVars
<1>4. IndexOf(addr) = LastAt(accounts, addr) /\ accounts[LastAt(accounts, addr)] \in AccountRec
  <2>1. LastAt(accounts, addr) \in DOMAIN accounts
    BY <1>1, <1>3, LastAtOK
  <2> QED BY <1>3, <2>1 DEF IndexOf, LastAt
<1>5. nonce \in 0 .. MaxNonce /\ (explicit = 0 => nonce = NonceOf(accounts, addr))
  <2>1. nonce \in Nat
    BY <1>4, WalletAssumption DEF AccountRec
  <2> QED BY <2>1, <1>1, <1>4, WalletAssumption DEF NonceOf
<1> HIDE DEF nonce
<1>6. rec \in BuildRec /\ rec.pc = "sign" /\ rec.addr = addr /\ rec.nonce = nonce
  BY <1>5 DEF BuildRec
<1> HIDE DEF rec
<1>7. WalletTypes'
  BY <1>1, <1>3, <1>6 DEF WalletInv, WalletTypes
<1>8. KeyInv'
  BY <1>3 DEF WalletInv, KeyInv
<1>9. /\ build'[b] = rec /\ \A c \in Builders \ {b} : build'[c] = build[c]
  BY <1>1, <1>3
<1>10. ASSUME NEW a \in Addrs(accounts) \ excused' PROVE NonceHeld(accounts, build', signed, a)
  <2>1. a \notin excused /\ NonceHeld(accounts, build, signed, a)
    BY <1>2, <1>10 DEF WalletInv, NonceInv
  <2>2. CASE a = addr
    <3>1. explicit = 0 /\ \A other \in Builders : ~ Builds(build, other, addr)
      BY <1>2, <1>10, <2>2
    <3>2. \A c \in Builders : Builds(build', c, a) <=> c = b
      BY <1>6, <1>9, <2>2, <3>1 DEF Builds
    <3>3. \A n \in 0 .. MaxNonce : <<a, n>> \in signed => n < NonceOf(accounts, a)
      BY <2>1, <2>2, <3>1 DEF NonceHeld
    <3> QED BY <1>5, <1>6, <1>9, <2>2, <3>1, <3>2, <3>3 DEF NonceHeld
  <2>3. CASE a # addr
    <3>1. \A c \in Builders : Builds(build', c, a) <=> Builds(build, c, a)
      BY <1>1, <1>6, <1>9, <2>3 DEF Builds
    <3>2. \A c \in Builders : Builds(build, c, a) => build'[c] = build[c]
      BY <1>1, <1>9 DEF Builds
    <3> QED BY <2>1, <3>1, <3>2 DEF NonceHeld
  <2> QED BY <2>2, <2>3
<1>11. NonceInv'
  <2>1. reused' \subseteq excused'
    BY <1>2, <1>3 DEF WalletInv, NonceInv
  <2>2. \A c \in Builders : build'[c].pc # "idle" => build'[c].addr \in Addrs(accounts')
    BY <1>1, <1>3, <1>6, <1>9 DEF WalletInv, NonceInv
  <2> QED BY <1>3, <1>10, <2>1, <2>2 DEF WalletInv, NonceInv
<1> QED BY <1>7, <1>8, <1>11 DEF WalletInv

LEMMA SignKeeps ==
  ASSUME WalletInv, NEW b \in Builders, NEW password \in Passwords, Sign(b, password)
  PROVE  WalletInv'
<1> DEFINE addr == build[b].addr
           nonce == build[b].nonce
<1>1. /\ build[b].pc = "sign" /\ UNCHANGED <<accounts, encrypted, locked, passwordHash, stranded, excused>>
  BY DEF Sign, keyVars
<1>2. /\ build \in [Builders -> BuildRec] /\ build[b] \in BuildRec /\ addr \in Addrs(accounts)
      /\ addr \in Passwords /\ nonce \in 0 .. MaxNonce
  BY <1>1 DEF WalletInv, WalletTypes, NonceInv, BuildRec
<1>3. KeyInv'
  BY <1>1 DEF WalletInv, KeyInv
<1>4. CASE /\ build' = [build EXCEPT ![b].pc = "update"]
           /\ signed' = signed \cup {<<addr, nonce>>}
           /\ reused' = IF <<addr, nonce>> \in signed THEN reused \cup {addr} ELSE reused
  <2>1. /\ build'[b].pc = "update" /\ build'[b].addr = addr /\ build'[b].nonce = nonce
        /\ build'[b] \in BuildRec /\ build' \in [Builders -> BuildRec]
        /\ \A c \in Builders \ {b} : build'[c] = build[c]
    BY <1>2, <1>4 DEF BuildRec
  <2> HIDE DEF addr, nonce
  <2>2. WalletTypes'
    BY <1>1, <1>2, <1>4, <2>1 DEF WalletInv, WalletTypes
  <2>3. \A a \in Passwords, c \in Builders : Builds(build', c, a) <=> Builds(build, c, a)
    BY <1>1, <2>1 DEF Builds, addr
  <2>4. \A a \in Addrs(accounts) : a \in Passwords
    <3>1. \A i \in DOMAIN accounts : accounts[i] \in AccountRec
      BY DEF WalletInv, WalletTypes
    <3> QED BY <3>1 DEF Addrs, AccountRec
  <2>5. addr \notin excused => NonceHeld(accounts, build, signed, addr) /\ nonce = NonceOf(accounts, addr)
    BY <1>1, <1>2 DEF WalletInv, NonceInv, NonceHeld, Builds, addr, nonce
  <2>6. addr \notin excused => \A c \in Builders : Builds(build, c, addr) => c = b
    BY <1>1, <2>5 DEF NonceHeld, Builds, addr
  <2>7. addr \notin excused => <<addr, nonce>> \notin signed
    <3> SUFFICES ASSUME addr \notin excused, <<addr, nonce>> \in signed PROVE FALSE
      OBVIOUS
    <3>1. \/ nonce < NonceOf(accounts, addr)
          \/ \E c \in Builders : Builds(build, c, addr) /\ build[c].pc = "update"
      BY <1>2, <2>5 DEF NonceHeld
    <3>2. ~ (nonce < NonceOf(accounts, addr))
      BY <1>2, <2>5
    <3> QED BY <1>1, <2>6, <3>1, <3>2
  <2>8. ASSUME NEW a \in Addrs(accounts) \ excused PROVE NonceHeld(accounts, build', signed', a)
    <3>1. NonceHeld(accounts, build, signed, a) /\ a \in Passwords
      BY <2>4 DEF WalletInv, NonceInv
    <3>2. \A c \in Builders : Builds(build', c, a) => build'[c].nonce = NonceOf(accounts, a)
      BY <2>1, <2>3, <3>1 DEF NonceHeld, nonce
    <3>3. \A c, d \in Builders : Builds(build', c, a) /\ Builds(build', d, a) => c = d
      BY <2>3, <3>1 DEF NonceHeld
    <3>4. ASSUME NEW n \in 0 .. MaxNonce, <<a, n>> \in signed'
          PROVE  \/ n < NonceOf(accounts, a)
                 \/ /\ n = NonceOf(accounts, a)
                    /\ \E c \in Builders : Builds(build', c, a) /\ build'[c].pc = "update"
      <4>1. CASE <<a, n>> \in signed
        <5>1. \A c \in Builders : build[c].pc = "update" => build'[c].pc = "update"
          BY <2>1
        <5> QED BY <3>1, <4>1, <5>1, <2>3 DEF NonceHeld
      <4>2. CASE <<a, n>> = <<addr, nonce>>
        <5>1. a = addr /\ n = nonce
          BY <4>2
        <5>2. Builds(build', b, a)
          BY <2>1, <5>1 DEF Builds
        <5> QED BY <2>1, <2>5, <2>8, <5>1, <5>2
      <4> QED BY <1>4, <3>4, <4>1, <4>2
    <3> QED BY <3>2, <3>3, <3>4 DEF NonceHeld
  <2>9. NonceInv'
    <3>1. \A a \in Passwords, n \in 0 .. MaxNonce : <<a, n>> \in signed' => a \in Addrs(accounts)
      BY <1>2, <1>4 DEF WalletInv, NonceInv
    <3>2. \A c \in Builders : build'[c].pc # "idle" => build'[c].addr \in Addrs(accounts)
      BY <1>2, <2>1 DEF WalletInv, NonceInv
    <3>3. reused' \subseteq excused
      BY <1>4, <2>7 DEF WalletInv, NonceInv
    <3> QED BY <1>1, <2>8, <3>1, <3>2, <3>3 DEF NonceInv
  <2> QED BY <1>3, <2>2, <2>9 DEF WalletInv
<1>5. CASE build' = [build EXCEPT ![b] = Idle] /\ UNCHANGED <<signed, reused>>
  <2>1. Idle \in BuildRec /\ Idle.pc = "idle"
    BY WalletAssumption DEF Idle, BuildRec
  <2>2. build' \in [Builders -> BuildRec] /\ build'[b] = Idle /\ \A c \in Builders \ {b} : build'[c] = build[c]
    BY <1>2, <1>5, <2>1
  <2>3. WalletTypes'
    BY <1>1, <1>5, <2>2 DEF WalletInv, WalletTypes
  <2>4. ASSUME NEW a \in Addrs(accounts) \ excused PROVE NonceHeld(accounts, build', signed, a)
    <3>1. NonceHeld(accounts, build, signed, a)
      BY DEF WalletInv, NonceInv
    <3>2. \A c \in Builders : Builds(build', c, a) => c # b /\ Builds(build, c, a) /\ build'[c] = build[c]
      BY <2>1, <2>2 DEF Builds
    <3>3. \A c \in Builders : build[c].pc = "update" => build'[c] = build[c]
      BY <1>1, <2>2
    <3> QED BY <3>1, <3>2, <3>3 DEF NonceHeld, Builds
  <2>5. NonceInv'
    BY <1>1, <1>5, <2>1, <2>2, <2>4 DEF WalletInv, NonceInv
  <2> QED BY <1>3, <2>3, <2>5 DEF WalletInv
<1> QED BY <1>4, <1>5 DEF Sign

LEMMA UpdateNonceKeeps ==
  ASSUME WalletInv, NEW b \in Builders, UpdateNonce(b)
  PROVE  WalletInv'
<1> DEFINE addr == build[b].addr
           next == build[b].nonce + 1
<1>1. /\ build[b].pc = "update" /\ build' = [build EXCEPT ![b] = Idle]
      /\ accounts' = [accounts EXCEPT ![LastAt(accounts, addr)].nonce = next]
      /\ UNCHANGED <<encrypted, locked, passwordHash, stranded, signed, reused, excused>>
  BY DEF UpdateNonce, nextNonce, IndexOf, LastAt
<1>2. /\ build \in [Builders -> BuildRec] /\ build[b] \in BuildRec /\ addr \in Addrs(accounts)
      /\ next \in 0 .. MaxNonce + 1 /\ accounts \in Seq(AccountRec)
  BY <1>1, WalletAssumption DEF WalletInv, WalletTypes, NonceInv, BuildRec
<1> HIDE DEF next
<1>3. /\ accounts' \in Seq(AccountRec) /\ DOMAIN accounts' = DOMAIN accounts
      /\ \A i \in DOMAIN accounts : accounts'[i].key = accounts[i].key
      /\ Addrs(accounts') = Addrs(accounts)
      /\ \A a \in Addrs(accounts) : NonceOf(accounts', a) = IF a = addr THEN next ELSE NonceOf(accounts, a)
  <2>1. Stored(accounts, addr, next, accounts')
    BY <1>1 DEF Stored
  <2> QED BY <1>2, <2>1, StoreNonce
<1>4. Idle \in BuildRec /\ Idle.pc = "idle"
  BY WalletAssumption DEF Idle, BuildRec
<1>5. build' \in [Builders -> BuildRec] /\ build'[b] = Idle /\ \A c \in Builders \ {b} : build'[c] = build[c]
  BY <1>1, <1>2, <1>4
<1>6. WalletTypes'
  BY <1>1, <1>3, <1>5 DEF WalletInv, WalletTypes
<1>7. KeyInv'
  BY <1>1, <1>3 DEF WalletInv, KeyInv
<1>8. ASSUME NEW a \in Addrs(accounts) \ excused PROVE NonceHeld(accounts', build', signed, a)
  <2>1. NonceHeld(accounts, build, signed, a)
    BY DEF WalletInv, NonceInv
  <2>2. \A c \in Builders : Builds(build', c, a) => c # b /\ Builds(build, c, a) /\ build'[c] = build[c]
    BY <1>4, <1>5 DEF Builds
  <2>3. CASE a = addr
    <3>1. Builds(build, b, a) /\ build[b].nonce = NonceOf(accounts, a)
      BY <1>1, <2>1, <2>3 DEF Builds, NonceHeld
    <3>2. \A c \in Builders : ~ Builds(build', c, a)
      BY <2>1, <2>2, <3>1 DEF NonceHeld
    <3>3. build[b].nonce \in Nat /\ next = NonceOf(accounts, a) + 1 /\ NonceOf(accounts', a) = next
      BY <1>2, <1>3, <2>3, <3>1 DEF next, BuildRec
    <3>4. \A n \in 0 .. MaxNonce : <<a, n>> \in signed => n <= NonceOf(accounts, a)
      BY <2>1, <3>1, <3>3 DEF NonceHeld
    <3>5. \A n \in 0 .. MaxNonce : <<a, n>> \in signed => n < NonceOf(accounts', a)
      BY <3>1, <3>3, <3>4
    <3> QED BY <3>2, <3>5 DEF NonceHeld
  <2>4. CASE a # addr
    <3>1. NonceOf(accounts', a) = NonceOf(accounts, a)
      BY <1>3, <2>4
    <3>2. \A c \in Builders : Builds(build, c, a) => build'[c] = build[c] /\ Builds(build', c, a)
      BY <1>5, <2>4 DEF Builds
    <3> QED BY <2>1, <2>2, <3>1, <3>2 DEF NonceHeld
  <2> QED BY <2>3, <2>4
<1>9. NonceInv'
  BY <1>1, <1>3, <1>4, <1>5, <1>8 DEF WalletInv, NonceInv
<1> QED BY <1>6, <1>7, <1>9 DEF WalletInv

LEMMA WalletNextOK == WalletInv /\ [WalletNext]_walletVars => WalletInv'
<1> SUFFICES ASSUME WalletInv, [WalletNext]_walletVars PROVE WalletInv'
  OBVIOUS
<1>1. ASSUME NEW password \in Passwords, CreateAccount(password) \/ Unlock(password) PROVE WalletInv'
  BY <1>1, CreateAccountKeeps, UnlockKeeps
<1>2. ASSUME NEW old \in Passwords, NEW new \in Passwords, ChangePassword(old, new) PROVE WalletInv'
  BY <1>2, ChangePasswordKeeps
<1>3. ASSUME NEW b \in Builders, NEW addr \in Passwords, NEW n \in ExplicitNonces, GetNonce(b, addr, n)
      PROVE  WalletInv'
  BY <1>3, GetNonceKeeps
<1>4. ASSUME NEW b \in Builders, UpdateNonce(b) PROVE WalletInv'
  BY <1>4, UpdateNonceKeeps
<1>5. ASSUME NEW b \in Builders, NEW password \in Passwords, Sign(b, password) PROVE WalletInv'
  BY <1>5, SignKeeps
<1>6. CASE UNCHANGED walletVars
  BY <1>6 DEF WalletInv, WalletTypes, KeyInv, NonceInv, walletVars
<1> QED BY <1>1, <1>2, <1>3, <1>4, <1>5, <1>6, LockKeeps DEF WalletNext

\* The password of the wallet opens every key but those a failed change of the
\* password left under the new one, and a locked wallet keeps no key in the
\* clear, through every order of CreateAccount, Lock, Unlock and
\* ChangePassword and every failure of Encrypt (pkg/wallet/wallet.go).
THEOREM KeysKeptCorrect == WalletSpec => []KeysKept
<1>1. WalletInv => KeysKept
  <2> SUFFICES ASSUME WalletInv PROVE KeysKept
    OBVIOUS
  <2>1. OwnerCanSign
    BY DEF WalletInv, KeyInv, OwnerCanSign, Opens
  <2>2. LockedIsSealed
    <3>1. locked => \A addr \in Addresses : ~ CanExport(addr, NoPassword)
      BY DEF CanExport
    <3> QED BY <3>1 DEF WalletInv, KeyInv, LockedIsSealed
  <2> QED BY <2>1, <2>2 DEF KeysKept
<1> QED BY WalletInitOK, WalletNextOK, <1>1, PTL DEF WalletSpec

\* A nonce of an address is signed twice only after a caller has set a nonce,
\* built two transactions of the address at a time or created the account
\* again, for every number of goroutines that run buildTransaction
\* (pkg/wallet/txbuilder.go).
THEOREM NonceOnceCorrect == WalletSpec => []NonceOnce
<1>1. WalletInv => NonceOnce
  BY DEF WalletInv, NonceInv, NonceOnce
<1> QED BY WalletInitOK, WalletNextOK, <1>1, PTL DEF WalletSpec

-----------------------------------------------------------------------------
(* The stake pool: what the queue and the map hold.                        *)

\* What each position of a queue holds of a validator, by the kind of request.
Waits(us, v, whole) ==
    [i \in DOMAIN us |-> IF us[i].who = v /\ us[i].whole = whole THEN us[i].amount ELSE 0]

ActiveOf(ss, v) == IF ss[v] # NoRecord /\ ss[v].status = "active" THEN ss[v].amount ELSE 0

\* What waits in a queue to leave a validator with full and with partial requests.
Wholes(us, v) == SumOf(v, us, TRUE)
Parts(us, v) == SumOf(v, us, FALSE)

\* What each validator adds to the total.
Counts(ss, us, left) == [v \in Validator |-> ActiveOf(ss, v) + Wholes(us, v) - left[v]]

StakeMap == [Validator -> StakeRecord \cup {NoRecord}]

LEMMA SumOfIs ==
  ASSUME NEW us, NEW v, NEW whole
  PROVE  SumOf(v, us, whole) = SumOver(Waits(us, v, whole), DOMAIN us)
<1> DEFINE g == Waits(us, v, whole)
           Cell(i) == IF us[i].who = v /\ us[i].whole = whole THEN us[i].amount ELSE 0
           IsOne(f) == f = [s \in SUBSET DOMAIN us |-> IF s = {} THEN 0 ELSE
                                Cell(Pick(s)) + f[s \ {Pick(s)}]]
<1>1. SumOf(v, us, whole) = (CHOOSE f : IsOne(f))[DOMAIN us]
  BY DEF SumOf, MapThenSumSet, MapThenFoldSet, Pick
<1>2. \A s \in SUBSET DOMAIN us : s # {} => g[Pick(s)] = Cell(Pick(s))
  <2>1. \A i \in DOMAIN us : g[i] = Cell(i)
    BY DEF Waits
  <2>2. \A s \in SUBSET DOMAIN us : s # {} => Pick(s) \in DOMAIN us
    BY DEF Pick
  <2> QED BY <2>1, <2>2
<1> HIDE DEF g, Cell
<1>3. \A f : IsOne(f) <=> IsSum(g, DOMAIN us, f)
  <2> SUFFICES ASSUME NEW f
               PROVE  [s \in SUBSET DOMAIN us |-> IF s = {} THEN 0 ELSE Cell(Pick(s)) + f[s \ {Pick(s)}]]
                        = [s \in SUBSET DOMAIN us |-> IF s = {} THEN 0 ELSE g[Pick(s)] + f[s \ {Pick(s)}]]
    BY DEF IsSum
  <2> QED BY <1>2
<1> HIDE DEF IsOne
<1>4. (CHOOSE f : IsOne(f)) = CHOOSE f : IsSum(g, DOMAIN us, f)
  BY <1>3
<1> QED BY <1>1, <1>4, SumOverDef DEF SumFcn, g

LEMMA SumOfType ==
  ASSUME NEW us \in Seq(Unstaking), NEW v, NEW whole
  PROVE  /\ SumOf(v, us, whole) \in Nat
         /\ IsFiniteSet(DOMAIN us) /\ \A i \in DOMAIN us : Waits(us, v, whole)[i] \in Nat
<1>1. DOMAIN us = 1 .. Len(us) /\ Len(us) \in Nat /\ \A i \in DOMAIN us : us[i] \in Unstaking
  OBVIOUS
<1>2. IsFiniteSet(DOMAIN us)
  <2>1. 1 \in Int /\ Len(us) \in Int
    BY <1>1
  <2> QED BY <1>1, <2>1, FS_Interval
<1>3. \A i \in DOMAIN us : us[i].amount \in Nat
  BY <1>1 DEF Unstaking
<1>4. \A i \in DOMAIN us : Waits(us, v, whole)[i] \in Nat
  BY <1>3 DEF Waits
<1> QED BY <1>2, <1>4, SumOfIs, SumOverNat

LEMMA SumOfEmpty == \A v, whole : SumOf(v, <<>>, whole) = 0
<1> SUFFICES ASSUME NEW v, NEW whole PROVE SumOf(v, <<>>, whole) = 0
  OBVIOUS
<1>1. DOMAIN <<>> = {}
  OBVIOUS
<1> QED BY <1>1, SumOfIs, SumOverEmpty

\* A request more in the queue.
LEMMA SumOfAppend ==
  ASSUME NEW us \in Seq(Unstaking), NEW u \in Unstaking, NEW v, NEW whole
  PROVE  SumOf(v, Append(us, u), whole)
            = SumOf(v, us, whole) + (IF u.who = v /\ u.whole = whole THEN u.amount ELSE 0)
<1> DEFINE n == Len(us)
           us2 == Append(us, u)
           g == Waits(us, v, whole)
           g2 == Waits(us2, v, whole)
           c == IF u.who = v /\ u.whole = whole THEN u.amount ELSE 0
<1>1. /\ n \in Nat /\ DOMAIN us = 1 .. n /\ us2 \in Seq(Unstaking) /\ DOMAIN us2 = 1 .. (n + 1)
      /\ us2[n + 1] = u /\ \A i \in 1 .. n : us2[i] = us[i]
  OBVIOUS
<1> HIDE DEF us2, n
<1>2. n + 1 \in 1 .. (n + 1) /\ (1 .. (n + 1)) \ {n + 1} = 1 .. n
  BY <1>1
<1>3. g2[n + 1] = c /\ \A i \in 1 .. n : g2[i] = g[i]
  BY <1>1, <1>2 DEF Waits
<1>4. /\ IsFiniteSet(1 .. (n + 1)) /\ \A i \in 1 .. (n + 1) : g2[i] \in Int
      /\ IsFiniteSet(1 .. n) /\ \A i \in 1 .. n : g[i] \in Int
  <2>1. IsFiniteSet(DOMAIN us2) /\ \A i \in DOMAIN us2 : g2[i] \in Nat
    BY <1>1, SumOfType
  <2>2. IsFiniteSet(DOMAIN us) /\ \A i \in DOMAIN us : g[i] \in Nat
    BY SumOfType
  <2> HIDE DEF g, g2
  <2> QED BY <1>1, <2>1, <2>2
<1>5. SumOf(v, us2, whole) = SumOver(g2, 1 .. (n + 1)) /\ SumOf(v, us, whole) = SumOver(g, 1 .. n)
  BY <1>1, SumOfIs
<1> HIDE DEF g, g2, c
<1>6. SumOver(g2, 1 .. (n + 1)) = g2[n + 1] + SumOver(g2, (1 .. (n + 1)) \ {n + 1})
  BY <1>2, <1>4, SumOverStep
<1>7. SumOver(g2, 1 .. n) = SumOver(g, 1 .. n)
  BY <1>3, <1>4, SumOverSame
<1>8. SumOver(g, 1 .. n) \in Int /\ g2[n + 1] \in Int
  BY <1>2, <1>4, SumOverType
<1>9. SumOver(g2, 1 .. (n + 1)) = g2[n + 1] + SumOver(g, 1 .. n)
  BY <1>2, <1>6, <1>7
<1>10. SumOf(v, us2, whole) = SumOf(v, us, whole) + c
  BY <1>3, <1>5, <1>8, <1>9
<1> QED BY <1>10 DEF c, us2

\* The total that TotalUntilPart names, while nothing has left in part.
LEMMA CountsIs ==
  ASSUME NEW ss \in StakeMap, NEW us \in Seq(Unstaking), NEW left, \A v \in Validator : left[v] = 0
  PROVE  MapThenSumSet(LAMBDA v : (IF ss[v] # NoRecord /\ ss[v].status = "active" THEN ss[v].amount ELSE 0)
                                     + SumOf(v, us, TRUE), Validator)
            = SumOver(Counts(ss, us, left), Validator)
<1> DEFINE g == Counts(ss, us, left)
           Cell(v) == (IF ss[v] # NoRecord /\ ss[v].status = "active" THEN ss[v].amount ELSE 0)
                         + SumOf(v, us, TRUE)
           IsOne(f) == f = [s \in SUBSET Validator |-> IF s = {} THEN 0 ELSE
                                Cell(Pick(s)) + f[s \ {Pick(s)}]]
<1>1. MapThenSumSet(LAMBDA v : (IF ss[v] # NoRecord /\ ss[v].status = "active" THEN ss[v].amount ELSE 0)
                                     + SumOf(v, us, TRUE), Validator) = (CHOOSE f : IsOne(f))[Validator]
  BY DEF MapThenSumSet, MapThenFoldSet, Pick
<1>2. \A s \in SUBSET Validator : s # {} => g[Pick(s)] = Cell(Pick(s))
  <2>1. ASSUME NEW v \in Validator PROVE g[v] = Cell(v)
    <3> DEFINE a == ActiveOf(ss, v)
               w == Wholes(us, v)
    <3>1. g[v] = a + w - left[v] /\ left[v] = 0
      BY DEF Counts
    <3>2. Cell(v) = a + w
      BY DEF ActiveOf, Wholes
    <3>3. a \in Nat /\ w \in Nat
      <4>1. a \in Nat
        BY StakeAssumption DEF ActiveOf, StakeMap, StakeRecord
      <4> QED BY <4>1, SumOfType DEF Wholes
    <3> HIDE DEF a, w, g, Cell
    <3> QED BY <3>1, <3>2, <3>3
  <2>2. \A s \in SUBSET Validator : s # {} => Pick(s) \in Validator
    BY DEF Pick
  <2> HIDE DEF g, Cell
  <2> QED BY <2>1, <2>2
<1> HIDE DEF g, Cell
<1>3. \A f : IsOne(f) <=> IsSum(g, Validator, f)
  <2> SUFFICES ASSUME NEW f
               PROVE  [s \in SUBSET Validator |-> IF s = {} THEN 0 ELSE Cell(Pick(s)) + f[s \ {Pick(s)}]]
                        = [s \in SUBSET Validator |-> IF s = {} THEN 0 ELSE g[Pick(s)] + f[s \ {Pick(s)}]]
    BY DEF IsSum
  <2> QED BY <1>2
<1> HIDE DEF IsOne
<1>4. (CHOOSE f : IsOne(f)) = CHOOSE f : IsSum(g, Validator, f)
  BY <1>3
<1> QED BY <1>1, <1>4, SumOverDef DEF SumFcn, g

LEMMA PartsType ==
  ASSUME NEW us \in Seq(Unstaking), NEW v
  PROVE  Wholes(us, v) \in Nat /\ Parts(us, v) \in Nat
  BY SumOfType DEF Wholes, Parts

LEMMA CountsType ==
  ASSUME NEW ss \in StakeMap, NEW us \in Seq(Unstaking), NEW left \in [Validator -> Nat]
  PROVE  /\ \A v \in Validator : ActiveOf(ss, v) \in Nat
         /\ \A v \in Validator : Counts(ss, us, left)[v] = ActiveOf(ss, v) + Wholes(us, v) - left[v]
         /\ \A v \in Validator : Counts(ss, us, left)[v] \in Int
         /\ SumOver(Counts(ss, us, left), Validator) \in Int
<1>1. \A v \in Validator : ActiveOf(ss, v) \in Nat
  BY DEF ActiveOf, StakeMap, StakeRecord
<1>2. \A v \in Validator : Wholes(us, v) \in Nat
  BY SumOfType DEF Wholes
<1>3. \A v \in Validator : Counts(ss, us, left)[v] = ActiveOf(ss, v) + Wholes(us, v) - left[v]
  BY DEF Counts
<1>4. \A v \in Validator : Counts(ss, us, left)[v] \in Int
  <2> SUFFICES ASSUME NEW v \in Validator PROVE ActiveOf(ss, v) + Wholes(us, v) - left[v] \in Int
    BY <1>3
  <2> DEFINE a == ActiveOf(ss, v)
             b == Wholes(us, v)
             c == left[v]
  <2>1. a \in Nat /\ b \in Nat /\ c \in Nat
    BY <1>1, <1>2
  <2> HIDE DEF a, b, c
  <2>2. a + b - c \in Int
    BY <2>1
  <2> QED BY <2>2 DEF a, b, c
<1> QED BY <1>1, <1>3, <1>4, StakeAssumption, SumOverType

-----------------------------------------------------------------------------
(* The stake pool: staking and the requests to unstake.                    *)

IsUnstaking(ss, v) == ss[v] # NoRecord /\ ss[v].status = "unstaking"

\* What a validator has staked is active, waits or has left, up to the wrap.
Conserved(ss, us, v) ==
    (entered[v] - (ActiveOf(ss, v) + Wholes(us, v) + Parts(us, v) + leftWhole[v] + leftPart[v]))
        % StakeModulus = 0

SharedOf(us, v) == {i \in DOMAIN us : us[i].who = v /\ us[i].shared}

\* The queue and the map agree on the records that they share.
SharedRight(ss, us, v) ==
    IF IsUnstaking(ss, v)
    THEN \E i \in SharedOf(us, v) : SharedOf(us, v) = {i} /\ us[i].amount = ss[v].amount
    ELSE SharedOf(us, v) = {}

\* The total for ever: a partial request has left it twice when it is processed.
TotalIsCounted == totalStaked = SumOver(Counts(stakes, unstakes, leftPart), Validator) % StakeModulus

StakeInv == StakeTypeOK /\ StakeConserved /\ TotalIsCounted /\ UnstakingIsQueued

LEMMA StakeInvIs ==
  StakeInv <=> /\ StakeTypeOK
               /\ \A v \in Validator : Conserved(stakes, unstakes, v)
               /\ totalStaked = SumOver(Counts(stakes, unstakes, leftPart), Validator) % StakeModulus
               /\ \A v \in Validator : SharedRight(stakes, unstakes, v)
<1>1. StakeConserved <=> \A v \in Validator : Conserved(stakes, unstakes, v)
  BY DEF StakeConserved, Conserved, GetValidatorStake, IsActive, ActiveOf, Wholes, Parts
<1>2. UnstakingIsQueued <=> \A v \in Validator : SharedRight(stakes, unstakes, v)
  BY DEF UnstakingIsQueued, SharedRight, SharedOf, IsUnstaking
<1> QED BY <1>1, <1>2 DEF StakeInv, TotalIsCounted

LEMMA StakeInvIsNext ==
  (StakeInv <=> /\ StakeTypeOK
                /\ \A v \in Validator : Conserved(stakes, unstakes, v)
                /\ totalStaked = SumOver(Counts(stakes, unstakes, leftPart), Validator) % StakeModulus
                /\ \A v \in Validator : SharedRight(stakes, unstakes, v))'
  BY StakeInvIs, PTL

LEMMA StakeInitOK == StakeInit => StakeInv
<1> SUFFICES ASSUME StakeInit PROVE StakeInv
  OBVIOUS
<1>1. StakeTypeOK
  <2>1. <<>> \in Seq(Unstaking) /\ 0 \in 0 .. StakeModulus - 1 /\ 0 \in 0 .. StakeMaxTime /\ 0 \in 0 .. MaxEntered
    BY StakeAssumption
  <2> QED BY <2>1 DEF StakeInit, StakeTypeOK
<1>2. \A v \in Validator : ActiveOf(stakes, v) = 0 /\ Wholes(unstakes, v) = 0 /\ Parts(unstakes, v) = 0
  BY SumOfEmpty DEF StakeInit, ActiveOf, Wholes, Parts
<1>3. \A v \in Validator : Conserved(stakes, unstakes, v)
  <2>1. \A v \in Validator : entered[v] = 0 /\ leftWhole[v] = 0 /\ leftPart[v] = 0
    BY DEF StakeInit
  <2>2. (0 - (0 + 0 + 0 + 0 + 0)) % StakeModulus = 0
    BY StakeAssumption, ModSmall
  <2> QED BY <1>2, <2>1, <2>2 DEF Conserved
<1>4. totalStaked = SumOver(Counts(stakes, unstakes, leftPart), Validator) % StakeModulus
  <2>1. \A v \in Validator : Counts(stakes, unstakes, leftPart)[v] = 0
    BY <1>2 DEF Counts, StakeInit
  <2>2. SumOver(Counts(stakes, unstakes, leftPart), Validator) = 0
    BY <2>1, StakeAssumption, SumOverZero
  <2>3. 0 % StakeModulus = 0
    BY StakeAssumption, ModSmall
  <2> QED BY <2>2, <2>3 DEF StakeInit
<1>5. \A v \in Validator : SharedRight(stakes, unstakes, v)
  BY DEF SharedRight, SharedOf, IsUnstaking, StakeInit
<1> QED BY <1>1, <1>3, <1>4, <1>5, StakeInvIs

LEMMA Shift ==
  ASSUME NEW a \in Int, NEW b \in Int, NEW a2 \in Int, NEW b2 \in Int, NEW l \in Int, NEW d \in Int,
         a2 + b2 = a + b + d
  PROVE  (a2 + b2 - l) - (a + b - l) = d
  OBVIOUS

LEMMA StakeMod ==
  \A x, d \in Int : ((x % StakeModulus) + d) % StakeModulus = (x + d) % StakeModulus
<1>1. StakeModulus \in Nat /\ StakeModulus > 0
  BY StakeAssumption
<1> QED BY <1>1, ModAdd

\* A wrap takes the modulus off, and the residue stays.
LEMMA WrapIs ==
  ASSUME NEW x \in Int
  PROVE  \E k \in Int : /\ x % StakeModulus = x - StakeModulus * k
                         /\ x % StakeModulus \in 0 .. StakeModulus - 1
<1>1. StakeModulus \in Nat /\ StakeModulus > 0
  BY StakeAssumption
<1> DEFINE q == x \div StakeModulus
           r == x % StakeModulus
<1>2. x = StakeModulus * q + r /\ r \in 0 .. (StakeModulus - 1) /\ q \in Int
  BY <1>1, DivMod
<1> HIDE DEF q, r
<1>3. r = x - StakeModulus * q
  BY <1>1, <1>2
<1> QED BY <1>2, <1>3 DEF r

LEMMA WrapKeeps ==
  ASSUME NEW x \in Int, NEW k \in Int
  PROVE  (x + StakeModulus * k) % StakeModulus = x % StakeModulus
<1>1. StakeModulus \in Nat /\ StakeModulus > 0
  BY StakeAssumption
<1> DEFINE q == x \div StakeModulus
           r == x % StakeModulus
<1>2. x = StakeModulus * q + r /\ r \in 0 .. (StakeModulus - 1) /\ q \in Int
  BY <1>1, DivMod
<1> HIDE DEF q, r
<1>3. q + k \in Int /\ StakeModulus * (q + k) = StakeModulus * q + StakeModulus * k
  BY <1>1, <1>2
<1>4. x + StakeModulus * k \in Int /\ x + StakeModulus * k = StakeModulus * (q + k) + r
  BY <1>1, <1>2, <1>3
<1>5. (x + StakeModulus * k) % StakeModulus = r
  BY <1>1, <1>2, <1>3, <1>4, ModUnique
<1> QED BY <1>5 DEF r

\* A step that moves the record and the queue of one validator: what the total
\* counts of it changes by d.
LEMMA CountsChange ==
  ASSUME NEW ss \in StakeMap, NEW us \in Seq(Unstaking), NEW ss2 \in StakeMap, NEW us2 \in Seq(Unstaking),
         NEW left \in [Validator -> Nat], NEW v \in Validator, NEW d \in Int,
         \A w \in Validator \ {v} : ActiveOf(ss2, w) = ActiveOf(ss, w) /\ Wholes(us2, w) = Wholes(us, w),
         ActiveOf(ss2, v) + Wholes(us2, v) = ActiveOf(ss, v) + Wholes(us, v) + d
  PROVE  ((SumOver(Counts(ss, us, left), Validator) % StakeModulus) + d) % StakeModulus
            = SumOver(Counts(ss2, us2, left), Validator) % StakeModulus
<1> DEFINE c == Counts(ss, us, left)
           c2 == Counts(ss2, us2, left)
<1>1. (\A w \in Validator : c[w] \in Int) /\ SumOver(c, Validator) \in Int
  BY CountsType
<1>2. \A w \in Validator : c2[w] \in Int
  BY CountsType
<1>3. \A w \in Validator \ {v} : c2[w] = c[w]
  BY CountsType
<1>4. c2[v] - c[v] = d
  <2> DEFINE a == ActiveOf(ss, v)
             b == Wholes(us, v)
             a2 == ActiveOf(ss2, v)
             b2 == Wholes(us2, v)
             l == left[v]
  <2>1. c2[v] = a2 + b2 - l /\ c[v] = a + b - l
    BY CountsType
  <2>2. a \in Nat /\ b \in Nat /\ a2 \in Nat /\ b2 \in Nat /\ l \in Nat /\ a2 + b2 = a + b + d
    BY CountsType, PartsType
  <2> HIDE DEF a, b, a2, b2, l, c, c2
  <2>3. a \in Int /\ b \in Int /\ a2 \in Int /\ b2 \in Int /\ l \in Int
    BY <2>2
  <2>4. (a2 + b2 - l) - (a + b - l) = d
    BY <2>2, <2>3, Shift
  <2> QED BY <2>1, <2>4
<1> HIDE DEF c, c2
<1>5. SumOver(c2, Validator) = SumOver(c, Validator) + (c2[v] - c[v])
  BY <1>1, <1>2, <1>3, StakeAssumption, SumOverChange
<1>6. SumOver(c2, Validator) = SumOver(c, Validator) + d
  BY <1>4, <1>5
<1> DEFINE x == SumOver(c, Validator)
<1>7. ((x % StakeModulus) + d) % StakeModulus = (x + d) % StakeModulus
  <2> HIDE DEF x
  <2>1. x \in Int
    BY <1>1 DEF x
  <2> QED BY <2>1, StakeMod
<1> QED BY <1>6, <1>7 DEF c, c2

LEMMA StakeKeeps ==
  ASSUME StakeInv, NEW v \in Validator, NEW amount \in Amounts, Stake(v, amount)
  PROVE  StakeInv'
<1> DEFINE rec == [amount |-> (GetValidatorStake(v) + amount) % StakeModulus,
                  since |-> IF IsActive(v) THEN stakes[v].since ELSE stakeNow,
                  status |-> "active"]
<1>1. StakeTypeOK /\ (\A w \in Validator : Conserved(stakes, unstakes, w))
      /\ totalStaked = SumOver(Counts(stakes, unstakes, leftPart), Validator) % StakeModulus
      /\ \A w \in Validator : SharedRight(stakes, unstakes, w)
  BY StakeInvIs
<1>2. /\ stakes \in StakeMap /\ unstakes \in Seq(Unstaking) /\ leftPart \in [Validator -> Nat]
      /\ leftWhole \in [Validator -> Nat] /\ entered \in [Validator -> 0 .. MaxEntered]
      /\ stakeNow \in Nat
  BY <1>1, StakeAssumption DEF StakeTypeOK, StakeMap
<1>3. amount \in Nat /\ StakeModulus \in Nat /\ StakeModulus > 0
  BY StakeAssumption
<1>4. /\ stakes' = [stakes EXCEPT ![v] = rec]
      /\ totalStaked' = (totalStaked + amount) % StakeModulus
      /\ entered' = [entered EXCEPT ![v] = @ + amount]
      /\ UNCHANGED <<unstakes, validators, stakeNow, leftWhole, leftPart>>
      /\ ~ IsUnstaking(stakes, v)
  <2>1. ~ IsUnstaking(stakes, v)
    BY DEF Stake, IsUnstaking
  <2>2. stakes' = [stakes EXCEPT ![v] = rec]
    BY DEF Stake
  <2> HIDE DEF rec
  <2> QED BY <2>1, <2>2 DEF Stake
<1>a. ActiveOf(stakes, v) \in Nat /\ GetValidatorStake(v) = ActiveOf(stakes, v)
  BY <1>2, CountsType DEF GetValidatorStake, IsActive, ActiveOf
<1>b0. PICK full \in Int : full = ActiveOf(stakes, v) + amount
  BY <1>3, <1>a
<1>b. PICK k \in Int : full % StakeModulus = full - StakeModulus * k /\ full % StakeModulus \in 0 .. StakeModulus - 1
  BY WrapIs
<1>c. PICK loss \in Int : loss = StakeModulus * k
  BY <1>3
<1>5. /\ rec \in StakeRecord /\ rec.status = "active" /\ rec # NoRecord
      /\ rec.amount = ActiveOf(stakes, v) + (amount - loss)
  <2>2. (IF IsActive(v) THEN stakes[v].since ELSE stakeNow) \in Nat
    BY <1>2 DEF StakeMap, StakeRecord, IsActive
  <2> DEFINE n == full % StakeModulus
             t == IF IsActive(v) THEN stakes[v].since ELSE stakeNow
  <2>4. rec = [amount |-> n, since |-> t, status |-> "active"]
    BY <1>a, <1>b0
  <2>5. n \in 0 .. StakeModulus - 1 /\ t \in Nat
    BY <1>b, <2>2
  <2>6. n = ActiveOf(stakes, v) + (amount - loss)
    BY <1>3, <1>a, <1>b0, <1>b, <1>c
  <2> HIDE DEF n, t, rec
  <2>3. rec \in StakeRecord /\ rec.status = "active" /\ rec.amount = n
    BY <2>4, <2>5 DEF StakeRecord
  <2> QED BY <2>3, <2>6, NoRecordAssumption
<1> HIDE DEF rec
<1>6. stakes' \in StakeMap /\ stakes'[v] = rec /\ \A w \in Validator \ {v} : stakes'[w] = stakes[w]
  BY <1>2, <1>4, <1>5 DEF StakeMap
<1>7. /\ ActiveOf(stakes', v) = ActiveOf(stakes, v) + (amount - loss)
      /\ \A w \in Validator \ {v} : ActiveOf(stakes', w) = ActiveOf(stakes, w)
  BY <1>5, <1>6 DEF ActiveOf
<1>8. entered' \in [Validator -> 0 .. MaxEntered]
  <2>1. SumOver(entered, Validator) + amount <= MaxEntered
    <3>1. MapThenSumSet(LAMBDA w : entered[w], Validator) + amount <= MaxEntered
      BY DEF Stake
    <3> QED BY <3>1 DEF SumOver
  <2>2. /\ \A w \in Validator : entered[w] \in Nat
        /\ \A w \in Validator : entered[w] \in Int
        /\ \A w \in Validator \ {v} : entered[w] \in Nat
    BY <1>2
  <2>3. SumOver(entered, Validator) = entered[v] + SumOver(entered, Validator \ {v})
    BY <2>2, StakeAssumption, SumOverStep
  <2>4. SumOver(entered, Validator \ {v}) \in Nat
    <3>1. IsFiniteSet(Validator \ {v})
      BY StakeAssumption, FS_RemoveElement
    <3> QED BY <2>2, <3>1, SumOverNat
  <2>5. entered[v] + amount \in 0 .. MaxEntered
    <3> DEFINE r == SumOver(entered, Validator \ {v})
               e == entered[v]
    <3>1. e + r + amount <= MaxEntered /\ r \in Nat /\ e \in Nat
      BY <2>1, <2>2, <2>3, <2>4
    <3> HIDE DEF r, e
    <3>2. e + amount \in 0 .. MaxEntered
      BY <1>3, <3>1, StakeAssumption
    <3> QED BY <3>2 DEF e
  <2> QED BY <1>2, <1>4, <2>5
<1>9. totalStaked' = SumOver(Counts(stakes', unstakes', leftPart'), Validator) % StakeModulus
  <2> DEFINE ss == stakes
             ss2 == stakes'
             us == unstakes
             l == leftPart
             d == amount - loss
  <2>1. /\ ss \in StakeMap /\ ss2 \in StakeMap /\ us \in Seq(Unstaking) /\ l \in [Validator -> Nat] /\ d \in Int
        /\ \A w \in Validator \ {v} : ActiveOf(ss2, w) = ActiveOf(ss, w) /\ Wholes(us, w) = Wholes(us, w)
    BY <1>2, <1>3, <1>6, <1>7
  <2>2. ActiveOf(ss2, v) + Wholes(us, v) = ActiveOf(ss, v) + Wholes(us, v) + d
    <3> DEFINE a == ActiveOf(ss, v)
               b == Wholes(us, v)
    <3>1. a \in Nat /\ b \in Nat /\ ActiveOf(ss2, v) = a + d
      BY <1>2, <1>7, CountsType, PartsType
    <3> HIDE DEF a, b, d
    <3>2. ActiveOf(ss2, v) + b = a + b + d
      BY <2>1, <3>1
    <3> QED BY <3>2 DEF a, b
  <2>3. unstakes' = us /\ leftPart' = l /\ stakes' = ss2
    BY <1>4
  <2>4. totalStaked' = ((SumOver(Counts(ss, us, l), Validator) % StakeModulus) + amount) % StakeModulus
    BY <1>1, <1>4
  <2> DEFINE x == SumOver(Counts(ss, us, l), Validator)
  <2>5. x \in Int
    BY <2>1, CountsType
  <2> HIDE DEF ss, ss2, us, l, d, x
  <2>6. ((x % StakeModulus) + d) % StakeModulus = SumOver(Counts(ss2, us, l), Validator) % StakeModulus
    BY <2>1, <2>2, CountsChange DEF x
  <2>7. ((x % StakeModulus) + amount) % StakeModulus = (x + amount) % StakeModulus
    <3>1. amount \in Int
      BY <1>3
    <3> QED BY <2>5, <3>1, StakeMod
  <2>a. ((x % StakeModulus) + d) % StakeModulus = (x + d) % StakeModulus
    <3>1. d \in Int
      BY <2>1
    <3> QED BY <2>5, <3>1, StakeMod
  <2>8. x + d \in Int /\ x + amount = (x + d) + StakeModulus * k
    BY <1>3, <1>c, <2>5 DEF d
  <2>9. (x + amount) % StakeModulus = (x + d) % StakeModulus
    BY <2>8, WrapKeeps
  <2>10. totalStaked' = ((x % StakeModulus) + amount) % StakeModulus
    BY <2>4 DEF x
  <2> QED BY <2>3, <2>6, <2>7, <2>a, <2>9, <2>10
<1>10. ASSUME NEW w \in Validator PROVE Conserved(stakes, unstakes, w)'
  <2> DEFINE a == ActiveOf(stakes, w)
             t == Wholes(unstakes, w)
             f == Parts(unstakes, w)
             lw == leftWhole[w]
             lp == leftPart[w]
             e == entered[w]
  <2>a. a \in Nat /\ t \in Nat /\ f \in Nat /\ lw \in Nat /\ lp \in Nat
    BY <1>2, CountsType, PartsType
  <2>b. (e - (a + t + f + lw + lp)) % StakeModulus = 0
    BY <1>1 DEF Conserved
  <2>c. e \in Nat
    BY <1>2
  <2>1. /\ a \in Nat /\ t \in Nat /\ f \in Nat /\ lw \in Nat /\ lp \in Nat /\ e \in Nat
        /\ (e - (a + t + f + lw + lp)) % StakeModulus = 0
    BY <2>a, <2>b, <2>c
  <2>2. /\ ActiveOf(stakes', w) = IF w = v THEN a + (amount - loss) ELSE a
        /\ entered'[w] = IF w = v THEN e + amount ELSE e
    BY <1>2, <1>4, <1>7
  <2>3. /\ Wholes(unstakes', w) = t /\ Parts(unstakes', w) = f
        /\ leftWhole'[w] = lw /\ leftPart'[w] = lp
    BY <1>4
  <2> HIDE DEF a, t, f, lw, lp, e
  <2> DEFINE y == e - (a + t + f + lw + lp)
             y2 == (e + amount) - ((a + (amount - loss)) + t + f + lw + lp)
  <2>4. y \in Int /\ y2 = y + StakeModulus * k
    BY <1>3, <1>c, <2>1
  <2>5. y % StakeModulus = 0
    BY <2>1
  <2>6. CASE w = v
    <3>1. (entered'[w] - (ActiveOf(stakes', w) + Wholes(unstakes', w) + Parts(unstakes', w)
                            + leftWhole'[w] + leftPart'[w])) = y2
      BY <2>2, <2>3, <2>6
    <3> HIDE DEF y, y2
    <3>2. y2 % StakeModulus = 0
      BY <2>4, <2>5, WrapKeeps
    <3> QED BY <3>1, <3>2 DEF Conserved
  <2>7. CASE w # v
    BY <2>2, <2>3, <2>5, <2>7 DEF Conserved
  <2> QED BY <2>6, <2>7
<1>11. ASSUME NEW w \in Validator PROVE SharedRight(stakes, unstakes, w)'
  <2>1. IsUnstaking(stakes', w) <=> IsUnstaking(stakes, w)
    BY <1>4, <1>5, <1>6 DEF IsUnstaking
  <2>2. IsUnstaking(stakes, w) => stakes'[w] = stakes[w]
    BY <1>4, <1>6
  <2> QED BY <1>1, <1>4, <2>1, <2>2 DEF SharedRight, SharedOf
<1>12. StakeTypeOK'
  <2>1. totalStaked' \in 0 .. StakeModulus - 1
    <3>1. totalStaked + amount \in Int
      BY <1>1, <1>3 DEF StakeTypeOK
    <3> QED BY <1>3, <1>4, <3>1, DivMod
  <2> QED BY <1>1, <1>4, <1>6, <1>8, <2>1 DEF StakeTypeOK, StakeMap
<1> QED BY <1>9, <1>10, <1>11, <1>12, StakeInvIsNext

\* What a request moves: of v the active stake, the full and the partial
\* requests that wait, of the others nothing.
Moved(ss, us, ss2, us2, v, a, t, f) ==
    /\ ActiveOf(ss2, v) = ActiveOf(ss, v) + a
    /\ Wholes(us2, v) = Wholes(us, v) + t
    /\ Parts(us2, v) = Parts(us, v) + f
    /\ \A w \in Validator \ {v} :
          ActiveOf(ss2, w) = ActiveOf(ss, w) /\ Wholes(us2, w) = Wholes(us, w) /\ Parts(us2, w) = Parts(us, w)

LEMMA MoveKeeps ==
  ASSUME StakeInv, NEW v \in Validator, NEW a \in Int, NEW t \in Int, NEW f \in Int, a + t + f = 0,
         stakes' \in StakeMap, unstakes' \in Seq(Unstaking),
         Moved(stakes, unstakes, stakes', unstakes', v, a, t, f),
         totalStaked' = (totalStaked + (a + t)) % StakeModulus,
         UNCHANGED <<validators, stakeNow, entered, leftWhole, leftPart>>,
         \A w \in Validator : SharedRight(stakes', unstakes', w)
  PROVE  StakeInv'
<1>1. StakeTypeOK /\ (\A w \in Validator : Conserved(stakes, unstakes, w))
      /\ totalStaked = SumOver(Counts(stakes, unstakes, leftPart), Validator) % StakeModulus
  BY StakeInvIs
<1>2. /\ stakes \in StakeMap /\ unstakes \in Seq(Unstaking) /\ leftPart \in [Validator -> Nat]
      /\ leftWhole \in [Validator -> Nat]
  BY <1>1 DEF StakeTypeOK, StakeMap
<1>3. a + t \in Int
  OBVIOUS
<1>4. totalStaked' = SumOver(Counts(stakes', unstakes', leftPart'), Validator) % StakeModulus
  <2> DEFINE ss == stakes
             ss2 == stakes'
             us == unstakes
             us2 == unstakes'
             l == leftPart
             d == a + t
  <2>1. /\ ss \in StakeMap /\ ss2 \in StakeMap /\ us \in Seq(Unstaking) /\ us2 \in Seq(Unstaking)
        /\ l \in [Validator -> Nat] /\ d \in Int
        /\ Moved(ss, us, ss2, us2, v, a, t, f)
    BY <1>2, <1>3
  <2>2. leftPart' = l
    OBVIOUS
  <2>3. totalStaked' = ((SumOver(Counts(ss, us, l), Validator) % StakeModulus) + d) % StakeModulus
    BY <1>1
  <2> HIDE DEF ss, ss2, us, us2, l
  <2>4. \A w \in Validator \ {v} : ActiveOf(ss2, w) = ActiveOf(ss, w) /\ Wholes(us2, w) = Wholes(us, w)
    BY <2>1 DEF Moved
  <2>5. ActiveOf(ss2, v) + Wholes(us2, v) = ActiveOf(ss, v) + Wholes(us, v) + d
    <3>1. ActiveOf(ss, v) \in Nat /\ Wholes(us, v) \in Nat
      BY <2>1, CountsType, PartsType
    <3> QED BY <2>1, <3>1 DEF Moved
  <2> HIDE DEF d
  <2>6. ((SumOver(Counts(ss, us, l), Validator) % StakeModulus) + d) % StakeModulus
            = SumOver(Counts(ss2, us2, l), Validator) % StakeModulus
    BY <2>1, <2>4, <2>5, CountsChange
  <2> QED BY <2>2, <2>3, <2>6 DEF ss2, us2
<1>5. ASSUME NEW w \in Validator PROVE Conserved(stakes, unstakes, w)'
  <2> DEFINE b == ActiveOf(stakes, w)
             x == Wholes(unstakes, w)
             y == Parts(unstakes, w)
             lw == leftWhole[w]
             lp == leftPart[w]
             e == entered[w]
  <2>1. /\ b \in Nat /\ x \in Nat /\ y \in Nat /\ lw \in Nat /\ lp \in Nat
        /\ (e - (b + x + y + lw + lp)) % StakeModulus = 0
    BY <1>1, <1>2, CountsType, PartsType DEF Conserved
  <2>2. /\ ActiveOf(stakes', w) = IF w = v THEN b + a ELSE b
        /\ Wholes(unstakes', w) = IF w = v THEN x + t ELSE x
        /\ Parts(unstakes', w) = IF w = v THEN y + f ELSE y
    BY DEF Moved
  <2>3. entered'[w] = e /\ leftWhole'[w] = lw /\ leftPart'[w] = lp
    OBVIOUS
  <2> HIDE DEF b, x, y, lw, lp, e
  <2>4. CASE w = v
    <3>1. (b + a) + (x + t) + (y + f) + lw + lp = b + x + y + lw + lp
      BY <2>1
    <3> QED BY <2>1, <2>2, <2>3, <2>4, <3>1 DEF Conserved
  <2>5. CASE w # v
    BY <2>1, <2>2, <2>3, <2>5 DEF Conserved
  <2> QED BY <2>4, <2>5
<1>6. \A w \in Validator : SharedRight(stakes, unstakes, w)'
  BY DEF SharedRight, SharedOf, IsUnstaking
<1>7. StakeTypeOK'
  <2>1. totalStaked' \in 0 .. StakeModulus - 1
    <3>1. totalStaked + (a + t) \in Int
      BY <1>1, <1>3, StakeAssumption DEF StakeTypeOK
    <3>2. StakeModulus \in Nat /\ StakeModulus > 0
      BY StakeAssumption
    <3> QED BY <3>1, <3>2, DivMod
  <2> QED BY <1>1, <2>1 DEF StakeTypeOK, StakeMap
<1> QED BY <1>4, <1>5, <1>6, <1>7, StakeInvIsNext

\* What both requests to unstake have in common.
LEMMA RequestFacts ==
  ASSUME StakeInv, NEW v \in Validator, NEW amount \in Amounts, MayUnstake(v, amount)
  PROVE  /\ stakes \in StakeMap /\ unstakes \in Seq(Unstaking) /\ stakeNow \in Nat
         /\ amount \in Nat /\ amount \in 0 .. StakeModulus - 1
         /\ stakes[v] \in StakeRecord /\ stakes[v] # NoRecord
         /\ stakes[v].status = "active" /\ amount <= stakes[v].amount
         /\ ActiveOf(stakes, v) = stakes[v].amount
         /\ \A w \in Validator : SharedRight(stakes, unstakes, w)
         /\ totalStaked \in 0 .. StakeModulus - 1
         /\ totalStaked = SumOver(Counts(stakes, unstakes, leftPart), Validator) % StakeModulus
<1>1. /\ StakeTypeOK /\ (\A w \in Validator : SharedRight(stakes, unstakes, w))
      /\ totalStaked = SumOver(Counts(stakes, unstakes, leftPart), Validator) % StakeModulus
  BY StakeInvIs
<1>2. /\ stakes \in StakeMap /\ unstakes \in Seq(Unstaking) /\ stakeNow \in Nat
      /\ totalStaked \in 0 .. StakeModulus - 1
  BY <1>1, StakeAssumption DEF StakeTypeOK, StakeMap
<1>3. stakes[v] # NoRecord /\ stakes[v].status = "active" /\ amount <= stakes[v].amount
  BY DEF MayUnstake, IsActive
<1>4. /\ stakes[v] \in StakeRecord /\ amount \in Nat /\ amount \in 0 .. StakeModulus - 1
      /\ ActiveOf(stakes, v) = stakes[v].amount
  BY <1>2, <1>3, StakeAssumption DEF StakeMap, ActiveOf
<1> QED BY <1>1, <1>2, <1>3, <1>4

\* What a request adds to what waits in full and in part.
FullOf(u, w) == IF u.who = w /\ u.whole = TRUE THEN u.amount ELSE 0
PartOf(u, w) == IF u.who = w /\ u.whole = FALSE THEN u.amount ELSE 0

LEMMA AppendSums ==
  ASSUME NEW us \in Seq(Unstaking), NEW u \in Unstaking, NEW w
  PROVE  /\ Append(us, u) \in Seq(Unstaking)
         /\ Wholes(Append(us, u), w) = Wholes(us, w) + FullOf(u, w)
         /\ Parts(Append(us, u), w) = Parts(us, w) + PartOf(u, w)
<1> DEFINE T == TRUE
           F == FALSE
           d == IF u.who = w /\ u.whole = T THEN u.amount ELSE 0
           e == IF u.who = w /\ u.whole = F THEN u.amount ELSE 0
<1>1. \A x : SumOf(w, x, T) = Wholes(x, w) /\ SumOf(w, x, F) = Parts(x, w)
  BY Zenon DEF Wholes, Parts
<1>2. d = FullOf(u, w) /\ e = PartOf(u, w)
  BY DEF FullOf, PartOf
<1> HIDE DEF T, F
<1>3. SumOf(w, Append(us, u), T) = SumOf(w, us, T) + d
  BY SumOfAppend
<1>4. SumOf(w, Append(us, u), F) = SumOf(w, us, F) + e
  BY SumOfAppend
<1> HIDE DEF d, e
<1> QED BY <1>1, <1>2, <1>3, <1>4

LEMMA AppendShared ==
  ASSUME NEW us \in Seq(Unstaking), NEW u \in Unstaking, NEW w
  PROVE  /\ (u.who = w /\ u.shared) => SharedOf(Append(us, u), w) = SharedOf(us, w) \cup {Len(us) + 1}
         /\ ~ (u.who = w /\ u.shared) => SharedOf(Append(us, u), w) = SharedOf(us, w)
<1> DEFINE n == Len(us)
<1>1. /\ n \in Nat /\ DOMAIN us = 1 .. n /\ DOMAIN Append(us, u) = 1 .. (n + 1)
      /\ Append(us, u)[n + 1] = u /\ \A i \in 1 .. n : Append(us, u)[i] = us[i]
  OBVIOUS
<1>2. 1 .. (n + 1) = (1 .. n) \cup {n + 1} /\ n + 1 \notin 1 .. n
  BY <1>1
<1> HIDE DEF n
<1> QED BY <1>1, <1>2 DEF SharedOf, n

LEMMA UnstakeWholeKeeps ==
  ASSUME StakeInv, NEW v \in Validator, NEW amount \in Amounts, UnstakeWhole(v, amount)
  PROVE  StakeInv'
<1> DEFINE u == [who |-> v, amount |-> amount, at |-> stakeNow, whole |-> TRUE, shared |-> TRUE]
           rec == [stakes[v] EXCEPT !.status = "unstaking"]
<1>1. /\ stakes \in StakeMap /\ unstakes \in Seq(Unstaking) /\ stakeNow \in Nat
      /\ amount \in Nat /\ amount \in 0 .. StakeModulus - 1
      /\ stakes[v] \in StakeRecord /\ stakes[v] # NoRecord
      /\ stakes[v].status = "active" /\ ActiveOf(stakes, v) = stakes[v].amount
      /\ \A w \in Validator : SharedRight(stakes, unstakes, w)
      /\ totalStaked \in 0 .. StakeModulus - 1
  BY RequestFacts DEF UnstakeWhole
<1>2. /\ amount = stakes[v].amount /\ stakes' = [stakes EXCEPT ![v] = rec]
      /\ unstakes' = Append(unstakes, u)
      /\ UNCHANGED <<totalStaked, validators, stakeNow, entered, leftWhole, leftPart>>
  BY DEF UnstakeWhole, Queued
<1>3. rec \in StakeRecord /\ rec # NoRecord /\ rec.status = "unstaking" /\ rec.amount = amount
  <2>1. rec \in StakeRecord /\ rec.status = "unstaking" /\ rec.amount = amount
    BY <1>1, <1>2 DEF StakeRecord
  <2> QED BY <2>1, NoRecordAssumption
<1> HIDE DEF rec
<1>4. stakes' \in StakeMap /\ stakes'[v] = rec /\ \A w \in Validator \ {v} : stakes'[w] = stakes[w]
  BY <1>1, <1>2, <1>3 DEF StakeMap
<1>5. ActiveOf(stakes', v) = 0 /\ \A w \in Validator \ {v} : ActiveOf(stakes', w) = ActiveOf(stakes, w)
  BY <1>3, <1>4 DEF ActiveOf
<1>6. /\ u \in Unstaking /\ unstakes' \in Seq(Unstaking)
      /\ Wholes(unstakes', v) = Wholes(unstakes, v) + amount /\ Parts(unstakes', v) = Parts(unstakes, v) + 0
      /\ \A w \in Validator \ {v} : Wholes(unstakes', w) = Wholes(unstakes, w) /\ Parts(unstakes', w) = Parts(unstakes, w)
      /\ \A w \in Validator : SharedOf(unstakes', w)
                = IF w = v THEN SharedOf(unstakes, w) \cup {Len(unstakes) + 1} ELSE SharedOf(unstakes, w)
  <2>1. u \in Unstaking /\ u.who = v /\ u.amount = amount /\ u.whole = TRUE /\ u.shared = TRUE
    BY <1>1 DEF Unstaking
  <2> HIDE DEF u
  <2>2. /\ FullOf(u, v) = amount /\ PartOf(u, v) = 0
        /\ \A w \in Validator \ {v} : FullOf(u, w) = 0 /\ PartOf(u, w) = 0
    BY <2>1 DEF FullOf, PartOf
  <2>3. \A w \in Validator :
           /\ unstakes' \in Seq(Unstaking)
           /\ Wholes(unstakes', w) = Wholes(unstakes, w) + FullOf(u, w)
           /\ Parts(unstakes', w) = Parts(unstakes, w) + PartOf(u, w)
           /\ Wholes(unstakes, w) \in Nat /\ Parts(unstakes, w) \in Nat
    BY <1>1, <1>2, <2>1, AppendSums, PartsType
  <2>4. \A w \in Validator : SharedOf(unstakes', w)
                = IF w = v THEN SharedOf(unstakes, w) \cup {Len(unstakes) + 1} ELSE SharedOf(unstakes, w)
    BY <1>1, <1>2, <2>1, AppendShared
  <2> QED BY <2>1, <2>2, <2>3, <2>4
<1>7. Moved(stakes, unstakes, stakes', unstakes', v, - amount, amount, 0)
  <2>1. ActiveOf(stakes', v) = ActiveOf(stakes, v) + (- amount)
    BY <1>1, <1>2, <1>5
  <2> QED BY <1>5, <1>6, <2>1 DEF Moved
<1>8. unstakes'[Len(unstakes) + 1] = u /\ \A i \in DOMAIN unstakes : unstakes'[i] = unstakes[i]
  BY <1>1, <1>2, <1>6
<1>9. ASSUME NEW w \in Validator PROVE SharedRight(stakes', unstakes', w)
  <2>1. CASE w = v
    <3>1. SharedOf(unstakes, v) = {}
      BY <1>1 DEF SharedRight, IsUnstaking
    <3>2. SharedOf(unstakes', v) = {Len(unstakes) + 1}
      BY <1>6, <3>1
    <3>3. unstakes'[Len(unstakes) + 1].amount = stakes'[v].amount
      BY <1>3, <1>4, <1>8
    <3>4. IsUnstaking(stakes', v)
      BY <1>3, <1>4 DEF IsUnstaking
    <3> QED BY <2>1, <3>2, <3>3, <3>4 DEF SharedRight
  <2>2. CASE w # v
    <3>1. SharedOf(unstakes', w) = SharedOf(unstakes, w) /\ stakes'[w] = stakes[w]
      BY <1>4, <1>6, <2>2
    <3>2. \A i \in SharedOf(unstakes, w) : unstakes'[i] = unstakes[i]
      BY <1>8 DEF SharedOf
    <3> QED BY <1>1, <3>1, <3>2 DEF SharedRight, IsUnstaking
  <2> QED BY <2>1, <2>2
<1> HIDE DEF u
<1>10. totalStaked' = (totalStaked + (- amount + amount)) % StakeModulus
  <2>1. totalStaked + (- amount + amount) = totalStaked
    BY <1>1, StakeAssumption
  <2>2. StakeModulus \in Nat /\ StakeModulus > 0 /\ totalStaked \in 0 .. (StakeModulus - 1)
    BY <1>1, StakeAssumption
  <2>3. totalStaked % StakeModulus = totalStaked
    BY <2>2, ModSmall
  <2> QED BY <1>2, <2>1, <2>3
<1>11. - amount \in Int /\ amount \in Int /\ 0 \in Int /\ (- amount) + amount + 0 = 0
  BY <1>1
<1> QED BY <1>2, <1>4, <1>6, <1>7, <1>9, <1>10, <1>11, MoveKeeps

LEMMA UnstakePartKeeps ==
  ASSUME StakeInv, NEW v \in Validator, NEW amount \in Amounts, UnstakePart(v, amount)
  PROVE  StakeInv'
<1> DEFINE u == [who |-> v, amount |-> amount, at |-> stakeNow, whole |-> FALSE, shared |-> FALSE]
           rec == [stakes[v] EXCEPT !.amount = stakes[v].amount - amount]
<1>1. /\ stakes \in StakeMap /\ unstakes \in Seq(Unstaking) /\ stakeNow \in Nat
      /\ amount \in Nat /\ stakes[v] \in StakeRecord /\ stakes[v] # NoRecord /\ amount <= stakes[v].amount
      /\ stakes[v].status = "active" /\ ActiveOf(stakes, v) = stakes[v].amount
      /\ \A w \in Validator : SharedRight(stakes, unstakes, w)
      /\ totalStaked \in 0 .. StakeModulus - 1
  BY RequestFacts DEF UnstakePart
<1>2. /\ stakes' = [stakes EXCEPT ![v] = rec] /\ unstakes' = Append(unstakes, u)
      /\ totalStaked' = (totalStaked - amount) % StakeModulus
      /\ UNCHANGED <<validators, stakeNow, entered, leftWhole, leftPart>>
  BY DEF UnstakePart, Queued
<1>3. rec \in StakeRecord /\ rec # NoRecord /\ rec.status = "active" /\ rec.amount = ActiveOf(stakes, v) - amount
  <2>1. stakes[v].amount \in Nat /\ stakes[v].amount - amount \in 0 .. StakeModulus - 1
    BY <1>1, StakeAssumption DEF StakeRecord
  <2>2. rec \in StakeRecord /\ rec.status = "active" /\ rec.amount = stakes[v].amount - amount
    BY <1>1, <2>1 DEF StakeRecord
  <2> QED BY <1>1, <2>2, NoRecordAssumption
<1> HIDE DEF rec
<1>4. stakes' \in StakeMap /\ stakes'[v] = rec /\ \A w \in Validator \ {v} : stakes'[w] = stakes[w]
  BY <1>1, <1>2, <1>3 DEF StakeMap
<1>5. /\ ActiveOf(stakes', v) = ActiveOf(stakes, v) - amount
      /\ \A w \in Validator \ {v} : ActiveOf(stakes', w) = ActiveOf(stakes, w)
  BY <1>3, <1>4 DEF ActiveOf
<1>6. /\ u \in Unstaking /\ unstakes' \in Seq(Unstaking)
      /\ Wholes(unstakes', v) = Wholes(unstakes, v) + 0 /\ Parts(unstakes', v) = Parts(unstakes, v) + amount
      /\ \A w \in Validator \ {v} : Wholes(unstakes', w) = Wholes(unstakes, w) /\ Parts(unstakes', w) = Parts(unstakes, w)
      /\ \A w \in Validator : SharedOf(unstakes', w) = SharedOf(unstakes, w)
  <2>0. amount \in 0 .. StakeModulus - 1
    BY StakeAssumption
  <2>1. u \in Unstaking /\ u.who = v /\ u.amount = amount /\ u.whole = FALSE /\ u.shared = FALSE
    BY <1>1, <2>0 DEF Unstaking
  <2> HIDE DEF u
  <2>2. /\ FullOf(u, v) = 0 /\ PartOf(u, v) = amount
        /\ \A w \in Validator \ {v} : FullOf(u, w) = 0 /\ PartOf(u, w) = 0
    BY <2>1 DEF FullOf, PartOf
  <2>3. \A w \in Validator :
           /\ unstakes' \in Seq(Unstaking)
           /\ Wholes(unstakes', w) = Wholes(unstakes, w) + FullOf(u, w)
           /\ Parts(unstakes', w) = Parts(unstakes, w) + PartOf(u, w)
           /\ Wholes(unstakes, w) \in Nat /\ Parts(unstakes, w) \in Nat
    BY <1>1, <1>2, <2>1, AppendSums, PartsType
  <2>4. \A w \in Validator : SharedOf(unstakes', w) = SharedOf(unstakes, w)
    BY <1>1, <1>2, <2>1, AppendShared
  <2> QED BY <2>1, <2>2, <2>3, <2>4
<1>7. Moved(stakes, unstakes, stakes', unstakes', v, - amount, 0, amount)
  <2>1. ActiveOf(stakes', v) = ActiveOf(stakes, v) + (- amount)
    <3>1. ActiveOf(stakes, v) \in Nat
      BY <1>1, CountsType DEF StakeRecord
    <3> QED BY <1>1, <1>5, <3>1
  <2> QED BY <1>5, <1>6, <2>1 DEF Moved
<1>8. \A i \in DOMAIN unstakes : unstakes'[i] = unstakes[i]
  BY <1>1, <1>2, <1>6
<1>9. ASSUME NEW w \in Validator PROVE SharedRight(stakes', unstakes', w)
  <2>1. SharedOf(unstakes', w) = SharedOf(unstakes, w)
    BY <1>6
  <2>2. \A i \in SharedOf(unstakes, w) : unstakes'[i] = unstakes[i]
    BY <1>8 DEF SharedOf
  <2>3. (IsUnstaking(stakes', w) <=> IsUnstaking(stakes, w)) /\ (IsUnstaking(stakes, w) => stakes'[w] = stakes[w])
    BY <1>1, <1>3, <1>4 DEF IsUnstaking
  <2> QED BY <1>1, <2>1, <2>2, <2>3 DEF SharedRight
<1> HIDE DEF u
<1>10. totalStaked' = (totalStaked + (- amount + 0)) % StakeModulus
  <2>1. totalStaked + (- amount + 0) = totalStaked - amount
    BY <1>1, StakeAssumption
  <2> QED BY <1>2, <2>1
<1>11. - amount \in Int /\ amount \in Int /\ 0 \in Int /\ (- amount) + 0 + amount = 0
  BY <1>1
<1> QED BY <1>2, <1>4, <1>6, <1>7, <1>9, <1>10, <1>11, MoveKeeps

\* The validator manager, the clock and a step that changes nothing.
LEMMA ManagerKeeps ==
  ASSUME StakeInv, UNCHANGED <<stakes, unstakes, totalStaked, entered, leftWhole, leftPart>>,
         validators' \in [Validator -> ValidatorInfo \cup {NoRecord}], stakeNow' \in 0 .. StakeMaxTime
  PROVE  StakeInv'
<1>1. StakeTypeOK'
  BY DEF StakeInv, StakeTypeOK
<1>2. /\ \A v \in Validator : Conserved(stakes, unstakes, v)
      /\ totalStaked = SumOver(Counts(stakes, unstakes, leftPart), Validator) % StakeModulus
      /\ \A v \in Validator : SharedRight(stakes, unstakes, v)
  BY StakeInvIs
<1>3. /\ \A v \in Validator : Conserved(stakes, unstakes, v)'
      /\ \A v \in Validator : SharedRight(stakes, unstakes, v)'
  BY <1>2 DEF Conserved, SharedRight, SharedOf, IsUnstaking
<1>4. totalStaked' = SumOver(Counts(stakes', unstakes', leftPart'), Validator) % StakeModulus
  BY <1>2
<1> QED BY <1>1, <1>3, <1>4, StakeInvIsNext

-----------------------------------------------------------------------------
(* The stake pool: the queue in two parts.                                 *)

DueAt(now) == {u \in Unstaking : now - u.at >= UnstakePeriod}

\* Parted keeps the members on one side of DueAt.
LEMMA PartedIs ==
  ASSUME NEW us \in Seq(Unstaking)
  PROVE  /\ Parted(us, TRUE) = SelectIn(us, DueAt(stakeNow))
         /\ Parted(us, FALSE) = SelectIn(us, Unstaking \ DueAt(stakeNow))
<1> DEFINE W == DueAt(stakeNow)
           X == Unstaking \ W
           One(f, t) == IF Due(us[Max(t)]) THEN Append(f[t \ {Max(t)}], us[Max(t)]) ELSE f[t \ {Max(t)}]
           Two(f, t) == IF ~ Due(us[Max(t)]) THEN Append(f[t \ {Max(t)}], us[Max(t)]) ELSE f[t \ {Max(t)}]
           InW(f, t) == IF us[Max(t)] \in W THEN Append(f[t \ {Max(t)}], us[Max(t)]) ELSE f[t \ {Max(t)}]
           InX(f, t) == IF us[Max(t)] \in X THEN Append(f[t \ {Max(t)}], us[Max(t)]) ELSE f[t \ {Max(t)}]
<1>1. /\ Parted(us, TRUE) =
            (CHOOSE f : f = [t \in SUBSET DOMAIN us |-> IF t = {} THEN <<>> ELSE One(f, t)])[DOMAIN us]
      /\ Parted(us, FALSE) =
            (CHOOSE f : f = [t \in SUBSET DOMAIN us |-> IF t = {} THEN <<>> ELSE Two(f, t)])[DOMAIN us]
  BY DEF Parted, FoldLeft, MapThenFoldSet
<1>2. /\ SelectIn(us, W) =
            (CHOOSE f : f = [t \in SUBSET DOMAIN us |-> IF t = {} THEN <<>> ELSE InW(f, t)])[DOMAIN us]
      /\ SelectIn(us, X) =
            (CHOOSE f : f = [t \in SUBSET DOMAIN us |-> IF t = {} THEN <<>> ELSE InX(f, t)])[DOMAIN us]
  BY SelectInDef DEF SelectFcn
<1>3. \A t \in SUBSET DOMAIN us : t # {} => us[Max(t)] \in Unstaking
  <2> SUFFICES ASSUME NEW t \in SUBSET DOMAIN us, t # {} PROVE us[Max(t)] \in Unstaking
    OBVIOUS
  <2>1. DOMAIN us = 1 .. Len(us) /\ Len(us) \in Nat
    OBVIOUS
  <2>2. t \in SUBSET (0 .. Len(us))
    BY <2>1
  <2>3. Max(t) \in t
    BY <2>1, <2>2, MaxBounded
  <2> QED BY <2>3
<1>4. \A t \in SUBSET DOMAIN us : t # {} => /\ us[Max(t)] \in W <=> Due(us[Max(t)])
                                            /\ us[Max(t)] \in X <=> ~ Due(us[Max(t)])
  BY <1>3 DEF DueAt, Due
<1> HIDE DEF W, X
<1>5. \A f : [t \in SUBSET DOMAIN us |-> IF t = {} THEN <<>> ELSE One(f, t)]
                = [t \in SUBSET DOMAIN us |-> IF t = {} THEN <<>> ELSE InW(f, t)]
  <2> SUFFICES ASSUME NEW f
               PROVE  \A t \in SUBSET DOMAIN us : t # {} => One(f, t) = InW(f, t)
    <3> HIDE DEF One, InW
    <3> QED OBVIOUS
  <2> QED BY <1>4
<1>6. \A f : [t \in SUBSET DOMAIN us |-> IF t = {} THEN <<>> ELSE Two(f, t)]
                = [t \in SUBSET DOMAIN us |-> IF t = {} THEN <<>> ELSE InX(f, t)]
  <2> SUFFICES ASSUME NEW f
               PROVE  \A t \in SUBSET DOMAIN us : t # {} => Two(f, t) = InX(f, t)
    <3> HIDE DEF Two, InX
    <3> QED OBVIOUS
  <2> QED BY <1>4
<1> HIDE DEF One, Two, InW, InX
<1> DEFINE IsOne(f) == f = [t \in SUBSET DOMAIN us |-> IF t = {} THEN <<>> ELSE One(f, t)]
           IsTwo(f) == f = [t \in SUBSET DOMAIN us |-> IF t = {} THEN <<>> ELSE Two(f, t)]
           IsInW(f) == f = [t \in SUBSET DOMAIN us |-> IF t = {} THEN <<>> ELSE InW(f, t)]
           IsInX(f) == f = [t \in SUBSET DOMAIN us |-> IF t = {} THEN <<>> ELSE InX(f, t)]
<1>7. /\ Parted(us, TRUE) = (CHOOSE f : IsOne(f))[DOMAIN us] /\ SelectIn(us, W) = (CHOOSE f : IsInW(f))[DOMAIN us]
      /\ Parted(us, FALSE) = (CHOOSE f : IsTwo(f))[DOMAIN us] /\ SelectIn(us, X) = (CHOOSE f : IsInX(f))[DOMAIN us]
  BY <1>1, <1>2
<1>8. \A f : (IsOne(f) <=> IsInW(f)) /\ (IsTwo(f) <=> IsInX(f))
  BY <1>5, <1>6
<1> HIDE DEF IsOne, IsTwo, IsInW, IsInX
<1>9. (CHOOSE f : IsOne(f)) = (CHOOSE f : IsInW(f)) /\ (CHOOSE f : IsTwo(f)) = (CHOOSE f : IsInX(f))
  BY <1>8
<1>10. Parted(us, TRUE) = SelectIn(us, W) /\ Parted(us, FALSE) = SelectIn(us, X)
  BY <1>7, <1>9, Zenon
<1> QED BY <1>10 DEF W, X

Chosen(us, W) == {j \in DOMAIN us : us[j] \in W}

\* What the selected requests of a queue hold.
LEMMA SelectSum ==
  ASSUME NEW us \in Seq(Unstaking), NEW W, NEW q \in Seq(Unstaking), NEW h, Selects(q, us, Len(us), W, h),
         NEW v, NEW whole
  PROVE  SumOf(v, q, whole) = SumOver(Waits(us, v, whole), Chosen(us, W))
<1> DEFINE g == Waits(us, v, whole)
           k == Waits(q, v, whole)
           S == DOMAIN q
           U == DOMAIN us
<1>1. S = 1 .. Len(q) /\ U = 1 .. Len(us)
  OBVIOUS
<1>2. /\ h \in [S -> U] /\ \A x, y \in S : h[x] = h[y] => x = y
      /\ {h[x] : x \in S} = {j \in U : us[j] \in W}
      /\ \A x \in S : q[x] = us[h[x]]
  BY <1>1 DEF Selects
<1>3. /\ IsFiniteSet(S) /\ IsFiniteSet(U) /\ \A i \in U : g[i] \in Int
  <2>1. IsFiniteSet(S) /\ IsFiniteSet(U) /\ \A i \in U : g[i] \in Nat
    BY SumOfType
  <2> HIDE DEF g, S, U
  <2> QED BY <2>1
<1>4. \A x \in S : k[x] = g[h[x]]
  BY <1>2 DEF Waits
<1>5. SumOf(v, q, whole) = SumOver(k, S)
  BY SumOfIs
<1> HIDE DEF g, k, S, U
<1>6. SumOver(k, S) = SumOver(g, ImageOf(h, S))
  <2>1. h \in [S -> U] /\ \A x, y \in S : h[x] = h[y] => x = y
    BY <1>2
  <2> QED BY <2>1, <1>3, <1>4, SumOverImage
<1>7. ImageOf(h, S) = Chosen(us, W)
  BY <1>2 DEF ImageOf, Chosen, U
<1> QED BY <1>5, <1>6, <1>7 DEF g

InTwo(us, due, rest) == due = Parted(us, TRUE) /\ rest = Parted(us, FALSE)

\* The two parts of the queue, and what they hold together.
LEMMA PartedFacts ==
  ASSUME NEW us \in Seq(Unstaking), NEW due, NEW rest, InTwo(us, due, rest)
  PROVE  /\ due \in Seq(Unstaking) /\ rest \in Seq(Unstaking)
         /\ \E h : Selects(due, us, Len(us), DueAt(stakeNow), h)
         /\ \E h : Selects(rest, us, Len(us), Unstaking \ DueAt(stakeNow), h)
         /\ \A v, whole : SumOf(v, us, whole) = SumOf(v, due, whole) + SumOf(v, rest, whole)
<1> DEFINE W == DueAt(stakeNow)
           X == Unstaking \ W
<1>1. due = SelectIn(us, W) /\ rest = SelectIn(us, X)
  BY PartedIs DEF InTwo
<1>2. \A j \in DOMAIN us : us[j] \in X <=> us[j] \notin W
  OBVIOUS
<1> HIDE DEF W, X
<1>3. due \in Seq(Unstaking) /\ \E h : Selects(due, us, Len(us), W, h)
  BY <1>1, SelectIndex
<1>4. rest \in Seq(Unstaking) /\ \E h : Selects(rest, us, Len(us), X, h)
  BY <1>1, SelectIndex
<1>5. ASSUME NEW v, NEW whole
      PROVE  SumOf(v, us, whole) = SumOf(v, due, whole) + SumOf(v, rest, whole)
  <2> DEFINE g == Waits(us, v, whole)
             S == DOMAIN us
             A == Chosen(us, W)
             B == Chosen(us, X)
  <2>1. A \in SUBSET S /\ B = S \ A
    BY <1>2 DEF Chosen
  <2>2. SumOf(v, due, whole) = SumOver(g, A)
    <3>1. PICK h : Selects(due, us, Len(us), W, h)
      BY <1>3
    <3> QED BY <1>3, <3>1, SelectSum
  <2>3. SumOf(v, rest, whole) = SumOver(g, B)
    <3>1. PICK h : Selects(rest, us, Len(us), X, h)
      BY <1>4
    <3> QED BY <1>4, <3>1, SelectSum
  <2>4. IsFiniteSet(S) /\ \A x \in S : g[x] \in Int
    <3>1. IsFiniteSet(S) /\ \A x \in S : g[x] \in Nat
      BY SumOfType
    <3> HIDE DEF g, S
    <3> QED BY <3>1
  <2>5. SumOf(v, us, whole) = SumOver(g, S)
    BY SumOfIs
  <2> HIDE DEF g, S, A, B
  <2>6. SumOver(g, S) = SumOver(g, A) + SumOver(g, S \ A)
    BY <2>1, <2>4, SumOverSplit
  <2> QED BY <2>1, <2>2, <2>3, <2>5, <2>6
<1> QED BY <1>3, <1>4, <1>5 DEF W, X

LEMMA PartedParts ==
  ASSUME NEW us \in Seq(Unstaking), NEW due, NEW rest, InTwo(us, due, rest), NEW v
  PROVE  Wholes(us, v) = Wholes(due, v) + Wholes(rest, v) /\ Parts(us, v) = Parts(due, v) + Parts(rest, v)
<1> DEFINE T == TRUE
           F == FALSE
<1>1. \A x : SumOf(v, x, T) = Wholes(x, v) /\ SumOf(v, x, F) = Parts(x, v)
  BY Zenon DEF Wholes, Parts
<1> HIDE DEF T, F
<1>2. \A whole : SumOf(v, us, whole) = SumOf(v, due, whole) + SumOf(v, rest, whole)
  BY PartedFacts
<1>3. /\ SumOf(v, us, T) = SumOf(v, due, T) + SumOf(v, rest, T)
      /\ SumOf(v, us, F) = SumOf(v, due, F) + SumOf(v, rest, F)
  BY <1>2
<1> QED BY <1>1, <1>3

\* All that is due, by position and by validator.
Amounts1(us) == [j \in DOMAIN us |-> us[j].amount]
BothOf(us) == [v \in Validator |-> Wholes(us, v) + Parts(us, v)]

LEMMA AmountsByValidator ==
  ASSUME NEW us \in Seq(Unstaking)
  PROVE  /\ SumOver(Amounts1(us), DOMAIN us) = SumOver(BothOf(us), Validator)
         /\ SumOver(BothOf(us), Validator) \in Nat
         /\ \A v \in Validator : BothOf(us)[v] = Wholes(us, v) + Parts(us, v) /\ BothOf(us)[v] \in Nat
<1> DEFINE S == DOMAIN us
           g == Amounts1(us)
           h == [j \in S |-> us[j].who]
           cell == [v \in Validator |-> [j \in S |-> IF us[j].who = v THEN us[j].amount ELSE 0]]
           k == BothOf(us)
<1>1. \A j \in S : us[j].who \in Validator /\ us[j].amount \in Nat /\ us[j].whole \in BOOLEAN
  <2>1. \A j \in S : us[j] \in Unstaking
    OBVIOUS
  <2>2. \A u \in Unstaking : u.who \in Validator /\ u.amount \in Nat /\ u.whole \in BOOLEAN
    BY DEF Unstaking
  <2> QED BY <2>1, <2>2, Zenon
<1>2. /\ IsFiniteSet(S) /\ IsFiniteSet(Validator) /\ h \in [S -> Validator] /\ \A x \in S : g[x] \in Int
      /\ \A v \in Validator : \A x \in S : cell[v][x] = IF h[x] = v THEN g[x] ELSE 0
  <2>1. IsFiniteSet(S)
    BY SumOfType
  <2>2. IsFiniteSet(Validator)
    BY StakeAssumption
  <2>3. h \in [S -> Validator] /\ \A x \in S : g[x] \in Int
    BY <1>1 DEF Amounts1
  <2>4. \A v \in Validator : \A x \in S : cell[v][x] = IF h[x] = v THEN g[x] ELSE 0
    BY DEF Amounts1
  <2> QED BY <2>1, <2>2, <2>3, <2>4
<1>3. ASSUME NEW v \in Validator PROVE k[v] = SumOver(cell[v], S)
  <2> DEFINE T == TRUE
             F == FALSE
             a == Waits(us, v, T)
             b == Waits(us, v, F)
             c == cell[v]
  <2>1. \A x : SumOf(v, x, T) = Wholes(x, v) /\ SumOf(v, x, F) = Parts(x, v)
    BY Zenon DEF Wholes, Parts
  <2>2. \A j \in S : c[j] = a[j] + b[j] /\ a[j] \in Int /\ b[j] \in Int
    BY <1>1 DEF Waits
  <2> HIDE DEF T, F
  <2>3. Wholes(us, v) = SumOver(a, S) /\ Parts(us, v) = SumOver(b, S)
    BY <2>1, SumOfIs
  <2> HIDE DEF a, b, c
  <2>4. SumOver(c, S) = SumOver(a, S) + SumOver(b, S)
    BY <1>2, <2>2, SumOverPlus
  <2>5. k[v] = Wholes(us, v) + Parts(us, v)
    BY DEF BothOf
  <2> QED BY <2>3, <2>4, <2>5 DEF c
<1>4. \A v \in Validator : k[v] = Wholes(us, v) + Parts(us, v) /\ k[v] \in Nat
  <2>1. \A v \in Validator : Wholes(us, v) \in Nat /\ Parts(us, v) \in Nat
    BY PartsType
  <2> QED BY <2>1 DEF BothOf
<1> HIDE DEF S, g, h, cell, k
<1>5. SumOver(g, S) = SumOver(k, Validator)
  BY <1>2, <1>3, SumOverNames
<1>6. SumOver(k, Validator) \in Nat
  BY <1>2, <1>4, SumOverNat
<1> QED BY <1>4, <1>5, <1>6 DEF g, S, k

-----------------------------------------------------------------------------
(* The stake pool: the loop of ProcessUnstakes.                            *)

\* What the loop would make of a record that is shared and not there.
Stray == [NoRecord EXCEPT !.status = "unstaked"]

Pool == [stakes : [Validator -> StakeRecord \cup {NoRecord, Stray}], orphans : SUBSET Validator, total : Int]

Unstaked(r) == [r EXCEPT !.status = "unstaked"]

LEMMA UnstakedIs ==
  /\ \A r \in StakeRecord : /\ Unstaked(r) \in StakeRecord /\ Unstaked(r).status = "unstaked"
                            /\ Unstaked(r) # NoRecord
  /\ Unstaked(NoRecord) = Stray /\ Unstaked(Stray) = Stray
<1>1. \A r \in StakeRecord : Unstaked(r) \in StakeRecord /\ Unstaked(r).status = "unstaked"
  BY DEF Unstaked, StakeRecord
<1>2. Unstaked(NoRecord) = Stray /\ Unstaked(Stray) = Stray
  BY DEF Unstaked, Stray
<1> QED BY <1>1, <1>2, NoRecordAssumption

Deletes(pool, u) ==
    ~ u.shared /\ pool.stakes[u.who] # NoRecord /\ pool.stakes[u.who].status = "unstaking"

\* What one round of the loop does.
Round(pool, u, r) ==
    /\ r \in Pool
    /\ r.total = (pool.total - u.amount) % StakeModulus
    /\ \A w \in Validator \ {u.who} : r.stakes[w] = pool.stakes[w] /\ (w \in r.orphans <=> w \in pool.orphans)
    /\ Deletes(pool, u) => r.stakes[u.who] = NoRecord /\ u.who \in r.orphans
    /\ ~ Deletes(pool, u) => /\ u.who \in r.orphans <=> u.who \in pool.orphans
                             /\ u.shared => r.stakes[u.who] = Unstaked(pool.stakes[u.who])
                             /\ ~ u.shared => r.stakes[u.who] = pool.stakes[u.who]

LEMMA ProcessOneIs ==
  ASSUME NEW pool \in Pool, NEW u \in Unstaking
  PROVE  Round(pool, u, ProcessOne(pool, u))
<1> DEFINE m == pool.stakes
           v == u.who
           x == IF Deletes(pool, u) THEN NoRecord ELSE IF u.shared THEN Unstaked(m[v]) ELSE m[v]
           m2 == [m EXCEPT ![v] = x]
           o2 == IF Deletes(pool, u) THEN pool.orphans \cup {v} ELSE pool.orphans
           t2 == (pool.total - u.amount) % StakeModulus
           r == ProcessOne(pool, u)
<1>1. r = [stakes |-> m2, orphans |-> o2, total |-> t2]
  BY DEF ProcessOne, Deletes, Leaves, Unstaked
<1>2. /\ m \in [Validator -> StakeRecord \cup {NoRecord, Stray}] /\ v \in Validator /\ pool.orphans \in SUBSET Validator
      /\ pool.total \in Int /\ u.amount \in Nat
  BY DEF Pool, Unstaking
<1>3. x \in StakeRecord \cup {NoRecord, Stray}
  <2>1. \A y \in StakeRecord \cup {NoRecord, Stray} : Unstaked(y) \in StakeRecord \cup {NoRecord, Stray}
    BY UnstakedIs
  <2> QED BY <1>2, <2>1
<1>4. /\ Deletes(pool, u) => x = NoRecord
      /\ ~ Deletes(pool, u) /\ u.shared => x = Unstaked(m[v])
      /\ ~ Deletes(pool, u) /\ ~ u.shared => x = m[v]
  OBVIOUS
<1>5. t2 \in Int
  <2>1. pool.total - u.amount \in Int /\ StakeModulus \in Nat /\ StakeModulus > 0
    BY <1>2, StakeAssumption
  <2>2. (pool.total - u.amount) % StakeModulus \in 0 .. (StakeModulus - 1)
    BY <2>1, DivMod
  <2> QED BY <2>1, <2>2
<1>6. r.stakes = m2 /\ r.orphans = o2 /\ r.total = t2
  BY <1>1
<1> HIDE DEF x
<1>7. m2 \in [Validator -> StakeRecord \cup {NoRecord, Stray}] /\ m2[v] = x /\ \A w \in Validator \ {v} : m2[w] = m[w]
  BY <1>2, <1>3
<1>8. o2 \in SUBSET Validator
  BY <1>2
<1>9. r \in Pool
  <2> HIDE DEF m2, o2, t2, r
  <2> QED BY <1>1, <1>5, <1>7, <1>8 DEF Pool
<1>10. \A w \in Validator \ {v} : r.stakes[w] = m[w] /\ (w \in r.orphans <=> w \in pool.orphans)
  BY <1>6, <1>7
<1>11. Deletes(pool, u) => r.stakes[v] = NoRecord /\ v \in r.orphans
  BY <1>4, <1>6, <1>7
<1>12. ~ Deletes(pool, u) => /\ v \in r.orphans <=> v \in pool.orphans
                             /\ u.shared => r.stakes[v] = Unstaked(m[v])
                             /\ ~ u.shared => r.stakes[v] = m[v]
  BY <1>4, <1>6, <1>7
<1>13. r.total = (pool.total - u.amount) % StakeModulus
  BY <1>6
<1> HIDE DEF r
<1>14. Round(pool, u, r)
  BY <1>9, <1>10, <1>11, <1>12, <1>13, Zenon DEF Round
<1> QED BY <1>14 DEF r

\* A request as the loop sees it: one whose entry is deleted is not shared.
Seen(pool, u) == [u EXCEPT !.shared = u.shared /\ u.who \notin pool.orphans]

LEMMA SeenIs ==
  ASSUME NEW pool, NEW u \in Unstaking
  PROVE  /\ Seen(pool, u) \in Unstaking /\ Seen(pool, u).who = u.who /\ Seen(pool, u).amount = u.amount
         /\ Seen(pool, u).whole = u.whole
         /\ Seen(pool, u).shared <=> u.shared /\ u.who \notin pool.orphans
<1> DEFINE b == u.shared /\ u.who \notin pool.orphans
<1>1. b \in BOOLEAN
  OBVIOUS
<1>2. Seen(pool, u) = [u EXCEPT !.shared = b]
  BY DEF Seen
<1>3. Seen(pool, u).shared = b
  BY <1>2 DEF Unstaking
<1>4. Seen(pool, u).who = u.who /\ Seen(pool, u).amount = u.amount /\ Seen(pool, u).whole = u.whole
  BY <1>2 DEF Unstaking
<1> HIDE DEF b
<1>5. Seen(pool, u) \in Unstaking
  BY <1>1, <1>2 DEF Unstaking
<1> QED BY <1>3, <1>4, <1>5 DEF b

LEMMA ProcessFoldIs ==
  ASSUME NEW pool \in Pool, NEW u \in Unstaking
  PROVE  ProcessFold(pool, u) = ProcessOne(pool, Seen(pool, u)) /\ Round(pool, Seen(pool, u), ProcessFold(pool, u))
<1>1. ProcessFold(pool, u) = ProcessOne(pool, Seen(pool, u))
  BY DEF ProcessFold, Seen
<1> QED BY <1>1, SeenIs, ProcessOneIs

PoolFcn(base, due) ==
    CHOOSE f : f = [t \in SUBSET DOMAIN due |-> IF t = {} THEN base ELSE
        ProcessFold(f[t \ {Max(t)}], due[Max(t)])]

LEMMA PoolDef ==
  ASSUME NEW base, NEW due
  PROVE  FoldLeft(ProcessFold, base, due) = PoolFcn(base, due)[DOMAIN due]
  BY DEF FoldLeft, MapThenFoldSet, PoolFcn

LEMMA PoolStep ==
  ASSUME NEW base \in Pool, NEW due \in Seq(Unstaking)
  PROVE  /\ PoolFcn(base, due)[{}] = base
         /\ \A i \in 0 .. Len(due) : PoolFcn(base, due)[1 .. i] \in Pool
         /\ \A i \in 1 .. Len(due) :
                PoolFcn(base, due)[1 .. i] = ProcessFold(PoolFcn(base, due)[1 .. (i - 1)], due[i])
<1> DEFINE n == Len(due)
           step == [i \in 1 .. n |-> [v \in Pool |-> ProcessFold(v, due[i])]]
           Eq(f) == f = [t \in SUBSET (1 .. n) |-> IF t = {} THEN base ELSE
                            ProcessFold(f[t \ {Max(t)}], due[Max(t)])]
<1>1. n \in Nat /\ DOMAIN due = 1 .. n /\ \A i \in 1 .. n : due[i] \in Unstaking
  OBVIOUS
<1> HIDE DEF n
<1>2. step \in [1 .. n -> [Pool -> Pool]]
  <2>1. \A i \in 1 .. n : \A v \in Pool : ProcessFold(v, due[i]) \in Pool
    BY <1>1, ProcessFoldIs DEF Round
  <2> QED BY <2>1
<1>3. \A i \in 1 .. n : \A v \in Pool : step[i][v] = ProcessFold(v, due[i])
  OBVIOUS
<1> HIDE DEF step
<1>4. PICK f \in [SUBSET (1 .. n) -> Pool] : IsLoop(n, base, step, f)
  BY <1>1, <1>2, LoopExists
<1>5. Eq(f)
  <2>1. ASSUME NEW t \in SUBSET (1 .. n)
        PROVE  f[t] = IF t = {} THEN base ELSE ProcessFold(f[t \ {Max(t)}], due[Max(t)])
    <3>1. CASE t # {}
      <4>1. t \in SUBSET (0 .. n)
        BY <1>1
      <4>2. Max(t) \in 1 .. n
        BY <1>1, <3>1, <4>1, MaxBounded
      <4>3. f[t \ {Max(t)}] \in Pool
        BY <1>4
      <4>4. f[t] = step[Max(t)][f[t \ {Max(t)}]]
        BY <1>4, <3>1 DEF IsLoop
      <4> QED BY <1>3, <3>1, <4>2, <4>3, <4>4
    <3> QED BY <1>4, <3>1 DEF IsLoop
  <2> QED BY <1>4, <2>1
<1>6. Eq(PoolFcn(base, due))
  BY <1>1, <1>5 DEF PoolFcn
<1> DEFINE p == PoolFcn(base, due)
<1>7. \A t \in SUBSET (1 .. n) : p[t] = IF t = {} THEN base ELSE ProcessFold(p[t \ {Max(t)}], due[Max(t)])
  BY <1>6
<1> HIDE DEF p
<1>8. p[{}] = base
  BY <1>7
<1>9. \A i \in 1 .. n : p[1 .. i] = ProcessFold(p[1 .. (i - 1)], due[i])
  <2> SUFFICES ASSUME NEW i \in 1 .. n PROVE p[1 .. i] = ProcessFold(p[1 .. (i - 1)], due[i])
    OBVIOUS
  <2>1. 1 .. i \in SUBSET (1 .. n) /\ i \in Nat /\ i > 0
    BY <1>1
  <2>2. Max(1 .. i) = i /\ (1 .. i) \ {i} = 1 .. (i - 1) /\ 1 .. i # {}
    BY <2>1, MaxInterval
  <2> QED BY <1>7, <2>1, <2>2
<1>10. \A i \in 0 .. n : p[1 .. i] \in Pool
  <2> DEFINE Good == {i \in 0 .. n : p[1 .. i] \in Pool}
  <2>1. 0 \in Good
    <3>1. 1 .. 0 = {} /\ 0 \in 0 .. n
      BY <1>1
    <3> QED BY <1>8, <3>1
  <2>2. ASSUME NEW i \in 1 .. n, i - 1 \in Good PROVE i \in Good
    <3>1. p[1 .. (i - 1)] \in Pool /\ i \in 0 .. n
      BY <2>2
    <3>2. ProcessFold(p[1 .. (i - 1)], due[i]) \in Pool
      BY <1>1, <3>1, ProcessFoldIs DEF Round
    <3> QED BY <1>9, <3>1, <3>2
  <2>3. Good \in SUBSET (0 .. n)
    OBVIOUS
  <2> HIDE DEF Good
  <2>4. Good = 0 .. n
    BY <1>1, <2>1, <2>2, <2>3, UpInduction
  <2> QED BY <2>4 DEF Good
<1> QED BY <1>8, <1>9, <1>10 DEF p, n

\* The requests that are due fit the map: a shared one finds its record.
Fits(ss, due) ==
    /\ \A j \in DOMAIN due : due[j].shared => IsUnstaking(ss, due[j].who)
    /\ \A j, k \in DOMAIN due : due[j].shared /\ due[k].shared /\ due[j].who = due[k].who => j = k

\* What the loop has made of the record of v after i requests.
Record(ss, due, i, pool, v) ==
    IF ~ IsUnstaking(ss, v) THEN pool.stakes[v] = ss[v] /\ v \notin pool.orphans
    ELSE \/ pool.stakes[v] = ss[v] /\ v \notin pool.orphans /\ \A j \in 1 .. i : due[j].who # v
         \/ /\ pool.stakes[v] = Unstaked(ss[v]) /\ v \notin pool.orphans
            /\ \E j \in 1 .. i : due[j].who = v /\ due[j].shared
         \/ pool.stakes[v] = NoRecord /\ v \in pool.orphans

LEMMA RecordStep ==
  ASSUME NEW ss \in StakeMap, NEW due \in Seq(Unstaking), Fits(ss, due), NEW i \in 1 .. Len(due),
         NEW pool \in Pool, NEW next, Round(pool, Seen(pool, due[i]), next),
         NEW v \in Validator, Record(ss, due, i - 1, pool, v)
  PROVE  Record(ss, due, i, next, v)
<1> DEFINE u == due[i]
           s == Seen(pool, u)
<1>1. u \in Unstaking /\ i \in DOMAIN due /\ 1 .. i = (1 .. (i - 1)) \cup {i} /\ i \notin 1 .. (i - 1)
      /\ 1 .. i \in SUBSET DOMAIN due
  OBVIOUS
<1>2. s.who = u.who /\ (s.shared <=> u.shared /\ u.who \notin pool.orphans)
  BY <1>1, SeenIs
<1>3. Round(pool, s, next)
  OBVIOUS
<1> HIDE DEF s
<1>4. CASE u.who # v
  <2>1. next.stakes[v] = pool.stakes[v] /\ (v \in next.orphans <=> v \in pool.orphans)
    BY <1>2, <1>3, <1>4 DEF Round
  <2> QED BY <1>1, <1>4, <2>1 DEF Record
<1>5. CASE u.who = v
  <2>1. CASE ~ IsUnstaking(ss, v)
    <3>1. ~ u.shared
      BY <1>1, <1>5, <2>1 DEF Fits
    <3>2. pool.stakes[v] = ss[v] /\ v \notin pool.orphans
      BY <2>1 DEF Record
    <3>3. ~ Deletes(pool, s)
      BY <1>2, <1>5, <2>1, <3>2 DEF Deletes, IsUnstaking
    <3>4. next.stakes[v] = pool.stakes[v] /\ (v \in next.orphans <=> v \in pool.orphans)
      BY <1>2, <1>3, <1>5, <3>1, <3>3 DEF Round
    <3> QED BY <2>1, <3>2, <3>4 DEF Record
  <2>2. CASE IsUnstaking(ss, v)
    <3>0. ss[v] \in StakeRecord /\ ss[v] # NoRecord /\ ss[v].status = "unstaking"
      BY <2>2 DEF IsUnstaking, StakeMap
    <3>1. CASE pool.stakes[v] = ss[v] /\ v \notin pool.orphans /\ u.shared
      <4>1. s.shared /\ ~ Deletes(pool, s)
        BY <1>2, <1>5, <3>1 DEF Deletes
      <4>2. next.stakes[v] = Unstaked(ss[v]) /\ v \notin next.orphans
        BY <1>2, <1>3, <1>5, <3>1, <4>1 DEF Round
      <4> QED BY <1>1, <1>5, <2>2, <3>1, <4>2 DEF Record
    <3>2. CASE pool.stakes[v] = ss[v] /\ v \notin pool.orphans /\ ~ u.shared
      <4>1. Deletes(pool, s)
        BY <1>2, <1>5, <3>0, <3>2 DEF Deletes
      <4>2. next.stakes[v] = NoRecord /\ v \in next.orphans
        BY <1>2, <1>3, <1>5, <4>1 DEF Round
      <4> QED BY <2>2, <4>2 DEF Record
    <3>3. CASE /\ pool.stakes[v] = Unstaked(ss[v]) /\ v \notin pool.orphans
               /\ \E j \in 1 .. (i - 1) : due[j].who = v /\ due[j].shared
      <4>1. PICK j \in 1 .. (i - 1) : due[j].who = v /\ due[j].shared
        BY <3>3
      <4>2. j \in DOMAIN due /\ j # i /\ j \in 1 .. i
        BY <1>1
      <4>3. ~ u.shared
        BY <1>1, <1>5, <4>1, <4>2 DEF Fits
      <4>4. pool.stakes[v].status = "unstaked"
        BY <3>0, <3>3, UnstakedIs
      <4>5. ~ Deletes(pool, s)
        BY <1>2, <1>5, <4>4 DEF Deletes
      <4>6. next.stakes[v] = pool.stakes[v] /\ (v \in next.orphans <=> v \in pool.orphans)
        BY <1>2, <1>3, <1>5, <4>3, <4>5 DEF Round
      <4> QED BY <2>2, <3>3, <4>1, <4>2, <4>6 DEF Record
    <3>4. CASE pool.stakes[v] = NoRecord /\ v \in pool.orphans
      <4>1. ~ Deletes(pool, s) /\ ~ s.shared
        BY <1>2, <1>5, <3>4 DEF Deletes
      <4>2. next.stakes[v] = NoRecord /\ v \in next.orphans
        BY <1>2, <1>3, <1>5, <3>4, <4>1 DEF Round
      <4> QED BY <2>2, <4>2 DEF Record
    <3> QED BY <2>2, <3>1, <3>2, <3>3, <3>4 DEF Record
  <2> QED BY <2>1, <2>2
<1> QED BY <1>4, <1>5

\* The total after i requests.
LEMMA TotalStep ==
  ASSUME NEW due \in Seq(Unstaking), NEW tot \in Int, NEW i \in 1 .. Len(due),
         NEW x, x = (tot - SumOver(Amounts1(due), 1 .. (i - 1))) % StakeModulus
  PROVE  (x - due[i].amount) % StakeModulus = (tot - SumOver(Amounts1(due), 1 .. i)) % StakeModulus
<1> DEFINE g == Amounts1(due)
           y == SumOver(g, 1 .. (i - 1))
           a == due[i].amount
<1>1. /\ i \in Nat /\ i \in 1 .. i /\ (1 .. i) \ {i} = 1 .. (i - 1) /\ 1 .. i \in SUBSET DOMAIN due
      /\ 1 .. (i - 1) \in SUBSET DOMAIN due
  OBVIOUS
<1>2. (\A j \in DOMAIN due : g[j] \in Int) /\ g[i] = a /\ a \in Int
  <2>1. \A j \in DOMAIN due : due[j].amount \in Nat
    <3>1. \A j \in DOMAIN due : due[j] \in Unstaking
      OBVIOUS
    <3> QED BY <3>1 DEF Unstaking
  <2> QED BY <1>1, <2>1 DEF Amounts1
<1>3. IsFiniteSet(1 .. i) /\ IsFiniteSet(1 .. (i - 1))
  <2>1. IsFiniteSet(DOMAIN due)
    BY SumOfType
  <2> QED BY <1>1, <2>1, FS_Subset
<1> HIDE DEF g
<1>4. SumOver(g, 1 .. i) = g[i] + SumOver(g, (1 .. i) \ {i})
  BY <1>1, <1>2, <1>3, SumOverStep
<1>5. y \in Int
  BY <1>1, <1>2, <1>3, SumOverType
<1>6. SumOver(g, 1 .. i) = a + y
  BY <1>1, <1>2, <1>4
<1> HIDE DEF a, y
<1>7. tot - y \in Int /\ - a \in Int /\ (tot - y) + (- a) = tot - (a + y)
  BY <1>2, <1>5
<1>8. x = (tot - y) % StakeModulus /\ x \in Int
  <2>1. x = (tot - y) % StakeModulus
    BY DEF y, g
  <2>2. StakeModulus \in Nat /\ StakeModulus > 0
    BY StakeAssumption
  <2>3. (tot - y) % StakeModulus \in 0 .. (StakeModulus - 1)
    BY <1>7, <2>2, DivMod
  <2> QED BY <2>1, <2>2, <2>3
<1>9. x - a = x + (- a)
  BY <1>2, <1>8
<1>10. (x + (- a)) % StakeModulus = ((tot - y) + (- a)) % StakeModulus
  BY <1>7, <1>8, StakeMod
<1>11. (x - a) % StakeModulus = (tot - SumOver(g, 1 .. i)) % StakeModulus
  BY <1>6, <1>7, <1>9, <1>10
<1> QED BY <1>11 DEF a, g

PoolAfter(ss, tot, due) == FoldLeft(ProcessFold, [stakes |-> ss, orphans |-> {}, total |-> tot], due)

\* What the loop has done when it ends.
LEMMA PoolIs ==
  ASSUME NEW ss \in StakeMap, NEW tot \in 0 .. (StakeModulus - 1), NEW due \in Seq(Unstaking), Fits(ss, due),
         NEW pool, pool = PoolAfter(ss, tot, due)
  PROVE  /\ pool \in Pool
         /\ pool.total = (tot - SumOver(Amounts1(due), DOMAIN due)) % StakeModulus
         /\ \A v \in Validator : Record(ss, due, Len(due), pool, v)
<1> DEFINE n == Len(due)
           base == [stakes |-> ss, orphans |-> {}, total |-> tot]
           p == PoolFcn(base, due)
           Good == {i \in 0 .. n : /\ p[1 .. i].total = (tot - SumOver(Amounts1(due), 1 .. i)) % StakeModulus
                                   /\ \A v \in Validator : Record(ss, due, i, p[1 .. i], v)}
<1>1. n \in Nat /\ DOMAIN due = 1 .. n /\ \A i \in 1 .. n : due[i] \in Unstaking
  OBVIOUS
<1>2. StakeModulus \in Nat /\ StakeModulus > 0 /\ tot \in Int
  BY StakeAssumption
<1>3. base \in Pool /\ base.stakes = ss /\ base.orphans = {} /\ base.total = tot
  BY <1>2 DEF Pool, StakeMap
<1>4. pool = p[DOMAIN due]
  BY PoolDef DEF PoolAfter
<1> HIDE DEF base
<1>5. /\ p[{}] = base /\ \A i \in 0 .. n : p[1 .. i] \in Pool
      /\ \A i \in 1 .. n : p[1 .. i] = ProcessFold(p[1 .. (i - 1)], due[i])
  BY <1>3, PoolStep
<1> HIDE DEF n, p
<1>6. 0 \in Good
  <2>1. 1 .. 0 = {} /\ 0 \in 0 .. n
    BY <1>1
  <2>2. SumOver(Amounts1(due), {}) = 0
    BY SumOverEmpty
  <2>3. (tot - 0) % StakeModulus = tot
    <3>1. tot - 0 = tot /\ tot % StakeModulus = tot
      BY <1>2, ModSmall
    <3> QED BY <3>1
  <2>4. p[1 .. 0] = base
    BY <1>5, <2>1
  <2>5. p[1 .. 0].total = (tot - SumOver(Amounts1(due), 1 .. 0)) % StakeModulus
    BY <1>3, <2>1, <2>2, <2>3, <2>4
  <2>6. \A v \in Validator : Record(ss, due, 0, p[1 .. 0], v)
    BY <1>3, <2>1, <2>4 DEF Record
  <2> QED BY <2>1, <2>5, <2>6
<1>7. ASSUME NEW i \in 1 .. n, i - 1 \in Good PROVE i \in Good
  <2> DEFINE q == p[1 .. (i - 1)]
             r == p[1 .. i]
  <2>1. i \in 0 .. n /\ i - 1 \in 0 .. n /\ i \in 1 .. Len(due)
    BY <1>1 DEF n
  <2>2. q \in Pool /\ r = ProcessFold(q, due[i]) /\ due[i] \in Unstaking
    BY <1>1, <1>5, <2>1
  <2>3. Round(q, Seen(q, due[i]), r)
    BY <2>2, ProcessFoldIs
  <2>4. /\ q.total = (tot - SumOver(Amounts1(due), 1 .. (i - 1))) % StakeModulus
        /\ \A v \in Validator : Record(ss, due, i - 1, q, v)
    BY <1>7
  <2> HIDE DEF q, r
  <2>5. r.total = (q.total - due[i].amount) % StakeModulus
    BY <2>2, <2>3, SeenIs DEF Round
  <2>6. r.total = (tot - SumOver(Amounts1(due), 1 .. i)) % StakeModulus
    BY <1>2, <2>1, <2>4, <2>5, TotalStep
  <2>7. \A v \in Validator : Record(ss, due, i, r, v)
    BY <2>1, <2>2, <2>3, <2>4, RecordStep
  <2> QED BY <2>1, <2>6, <2>7 DEF r
<1>8. Good \in SUBSET (0 .. n)
  OBVIOUS
<1> HIDE DEF Good
<1>9. Good = 0 .. n
  BY <1>1, <1>6, <1>7, <1>8, UpInduction
<1>10. n \in Good /\ n \in 0 .. n
  BY <1>1, <1>9
<1> QED BY <1>1, <1>4, <1>5, <1>10 DEF Good, n

\* The requests that are due fit the map, because the whole queue does.
LEMMA DueFits ==
  ASSUME NEW ss, NEW us \in Seq(Unstaking), \A v \in Validator : SharedRight(ss, us, v),
         NEW due \in Seq(Unstaking), NEW W, NEW h, Selects(due, us, Len(us), W, h)
  PROVE  Fits(ss, due)
<1>1. /\ DOMAIN due = 1 .. Len(due) /\ DOMAIN us = 1 .. Len(us)
      /\ \A j \in DOMAIN us : us[j] \in Unstaking
  OBVIOUS
<1>2. /\ \A j \in DOMAIN due : h[j] \in DOMAIN us /\ due[j] = us[h[j]]
      /\ \A j, k \in DOMAIN due : h[j] = h[k] => j = k
  BY <1>1 DEF Selects
<1>3. \A j \in DOMAIN us : us[j].who \in Validator
  BY <1>1 DEF Unstaking
<1>4. ASSUME NEW j \in DOMAIN due, due[j].shared
      PROVE  IsUnstaking(ss, due[j].who) /\ SharedOf(us, due[j].who) = {h[j]}
  <2> DEFINE v == due[j].who
  <2>1. v \in Validator /\ h[j] \in SharedOf(us, v)
    BY <1>2, <1>3, <1>4 DEF SharedOf
  <2> HIDE DEF v
  <2>2. IsUnstaking(ss, v) /\ SharedOf(us, v) = {h[j]}
    BY <2>1 DEF SharedRight
  <2> QED BY <2>2 DEF v
<1>5. ASSUME NEW j \in DOMAIN due, NEW k \in DOMAIN due, due[j].shared, due[k].shared, due[j].who = due[k].who
      PROVE  j = k
  <2>1. SharedOf(us, due[j].who) = {h[j]} /\ SharedOf(us, due[k].who) = {h[k]}
    BY <1>4, <1>5
  <2>2. h[j] = h[k]
    BY <1>5, <2>1
  <2> QED BY <1>2, <2>2
<1> QED BY <1>4, <1>5 DEF Fits

\* What stays in the queue, with the requests whose entry was deleted marked.
Kept(rest, pool) == [i \in DOMAIN rest |-> Seen(pool, rest[i])]

LEMMA KeptIs ==
  ASSUME NEW rest \in Seq(Unstaking), NEW pool
  PROVE  /\ Kept(rest, pool) \in Seq(Unstaking) /\ DOMAIN Kept(rest, pool) = DOMAIN rest
         /\ \A v : Wholes(Kept(rest, pool), v) = Wholes(rest, v) /\ Parts(Kept(rest, pool), v) = Parts(rest, v)
         /\ \A v : SharedOf(Kept(rest, pool), v) = {i \in SharedOf(rest, v) : v \notin pool.orphans}
         /\ \A i \in DOMAIN rest : Kept(rest, pool)[i].amount = rest[i].amount
<1> DEFINE k == Kept(rest, pool)
<1>1. /\ DOMAIN rest = 1 .. Len(rest) /\ Len(rest) \in Nat /\ \A i \in DOMAIN rest : rest[i] \in Unstaking
  OBVIOUS
<1>2. /\ DOMAIN k = DOMAIN rest
      /\ \A i \in DOMAIN rest : /\ k[i] \in Unstaking /\ k[i].who = rest[i].who /\ k[i].amount = rest[i].amount
                                /\ k[i].whole = rest[i].whole
                                /\ k[i].shared <=> rest[i].shared /\ rest[i].who \notin pool.orphans
  <2>1. DOMAIN k = DOMAIN rest /\ \A i \in DOMAIN rest : k[i] = Seen(pool, rest[i])
    BY DEF Kept
  <2> HIDE DEF k
  <2> QED BY <1>1, <2>1, SeenIs
<1>3. k \in Seq(Unstaking)
  <2>1. k \in [1 .. Len(rest) -> Unstaking]
    BY <1>1, <1>2 DEF Kept
  <2> QED BY <1>1, <2>1
<1> HIDE DEF k
<1>4. ASSUME NEW v, NEW whole PROVE SumOf(v, k, whole) = SumOf(v, rest, whole)
  <2>1. Waits(k, v, whole) = Waits(rest, v, whole)
    BY <1>2 DEF Waits
  <2> QED BY <1>2, <2>1, SumOfIs
<1>5. \A v : Wholes(k, v) = Wholes(rest, v) /\ Parts(k, v) = Parts(rest, v)
  BY <1>4, Zenon DEF Wholes, Parts
<1>6. \A v : SharedOf(k, v) = {i \in SharedOf(rest, v) : v \notin pool.orphans}
  BY <1>2 DEF SharedOf
<1> QED BY <1>2, <1>3, <1>5, <1>6 DEF k

\* A record that is still unstaking has its request in the queue that is left,
\* and no other record is shared with it.
LEMMA ProcessShared ==
  ASSUME NEW ss \in StakeMap, NEW us \in Seq(Unstaking), NEW due \in Seq(Unstaking), NEW rest \in Seq(Unstaking),
         NEW W, NEW h, Selects(due, us, Len(us), W, h),
         NEW hr, Selects(rest, us, Len(us), Unstaking \ W, hr),
         NEW pool \in Pool, NEW v \in Validator, SharedRight(ss, us, v),
         Record(ss, due, Len(due), pool, v)
  PROVE  SharedRight(pool.stakes, Kept(rest, pool), v)
<1>1. /\ DOMAIN due = 1 .. Len(due) /\ DOMAIN us = 1 .. Len(us) /\ DOMAIN rest = 1 .. Len(rest)
      /\ \A j \in DOMAIN us : us[j] \in Unstaking
  OBVIOUS
<1>2. /\ \A j \in DOMAIN due : h[j] \in DOMAIN us /\ due[j] = us[h[j]] /\ us[h[j]] \in W
      /\ \A j \in DOMAIN us : us[j] \in W => \E k \in DOMAIN due : h[k] = j
  <2>1. {h[j] : j \in DOMAIN due} = {j \in DOMAIN us : us[j] \in W}
    BY <1>1 DEF Selects
  <2> QED BY <1>1, <2>1 DEF Selects
<1>3. /\ \A j \in DOMAIN rest : hr[j] \in DOMAIN us /\ rest[j] = us[hr[j]] /\ us[hr[j]] \notin W
      /\ \A j \in DOMAIN us : us[j] \notin W => \E k \in DOMAIN rest : hr[k] = j
      /\ \A j, k \in DOMAIN rest : hr[j] = hr[k] => j = k
  <2>1. {hr[j] : j \in DOMAIN rest} = {j \in DOMAIN us : us[j] \in Unstaking \ W}
    BY <1>1 DEF Selects
  <2>2. \A j, k \in DOMAIN rest : hr[j] = hr[k] => j = k
    BY <1>1 DEF Selects
  <2> QED BY <1>1, <2>1, <2>2 DEF Selects
<1>4. /\ SharedOf(Kept(rest, pool), v) = {i \in SharedOf(rest, v) : v \notin pool.orphans}
      /\ \A i \in DOMAIN rest : Kept(rest, pool)[i].amount = rest[i].amount
  BY KeptIs
<1>5. \A i \in SharedOf(rest, v) : hr[i] \in SharedOf(us, v)
  BY <1>3 DEF SharedOf
<1>6. CASE ~ IsUnstaking(ss, v)
  <2>1. SharedOf(rest, v) = {}
    BY <1>5, <1>6 DEF SharedRight
  <2>2. ~ IsUnstaking(pool.stakes, v)
    BY <1>6 DEF Record, IsUnstaking
  <2> QED BY <1>4, <2>1, <2>2 DEF SharedRight
<1>7. CASE IsUnstaking(ss, v)
  <2>1. PICK i \in SharedOf(us, v) : SharedOf(us, v) = {i} /\ us[i].amount = ss[v].amount
    BY <1>7 DEF SharedRight
  <2>2. i \in DOMAIN us /\ us[i].who = v /\ us[i].shared
    BY <2>1 DEF SharedOf
  <2>3. CASE pool.stakes[v] = ss[v] /\ v \notin pool.orphans /\ \A j \in 1 .. Len(due) : due[j].who # v
    <3>1. us[i] \notin W
      BY <1>1, <1>2, <2>2, <2>3
    <3>2. PICK k \in DOMAIN rest : hr[k] = i
      BY <1>3, <2>2, <3>1
    <3>3. SharedOf(rest, v) = {k}
      <4>1. k \in SharedOf(rest, v)
        BY <1>3, <2>2, <3>2 DEF SharedOf
      <4>2. \A x \in SharedOf(rest, v) : x = k
        BY <1>3, <1>5, <2>1, <3>2 DEF SharedOf
      <4> QED BY <4>1, <4>2
    <3>4. SharedOf(Kept(rest, pool), v) = {k} /\ Kept(rest, pool)[k].amount = pool.stakes[v].amount
      BY <1>3, <1>4, <2>1, <2>3, <3>2, <3>3
    <3>5. IsUnstaking(pool.stakes, v)
      BY <1>7, <2>3 DEF IsUnstaking
    <3> QED BY <3>4, <3>5 DEF SharedRight
  <2>4. CASE /\ pool.stakes[v] = Unstaked(ss[v]) /\ v \notin pool.orphans
             /\ \E j \in 1 .. Len(due) : due[j].who = v /\ due[j].shared
    <3>1. PICK j \in DOMAIN due : due[j].who = v /\ due[j].shared
      BY <1>1, <2>4
    <3>2. h[j] \in SharedOf(us, v) /\ us[h[j]] \in W
      BY <1>2, <3>1 DEF SharedOf
    <3>3. h[j] = i /\ us[i] \in W
      BY <2>1, <3>2
    <3>4. SharedOf(rest, v) = {}
      <4> SUFFICES ASSUME NEW x \in SharedOf(rest, v) PROVE FALSE
        OBVIOUS
      <4>1. hr[x] = i /\ x \in DOMAIN rest
        BY <1>5, <2>1 DEF SharedOf
      <4> QED BY <1>3, <3>3, <4>1
    <3>5. ~ IsUnstaking(pool.stakes, v)
      <4>1. ss[v] \in StakeRecord
        BY <1>7 DEF IsUnstaking, StakeMap
      <4> QED BY <2>4, <4>1, UnstakedIs DEF IsUnstaking
    <3> QED BY <1>4, <3>4, <3>5 DEF SharedRight
  <2>5. CASE pool.stakes[v] = NoRecord /\ v \in pool.orphans
    <3>1. SharedOf(Kept(rest, pool), v) = {}
      BY <1>4, <2>5
    <3>2. ~ IsUnstaking(pool.stakes, v)
      BY <2>5 DEF IsUnstaking
    <3> QED BY <3>1, <3>2 DEF SharedRight
  <2> QED BY <1>7, <2>3, <2>4, <2>5 DEF Record
<1> QED BY <1>6, <1>7

\* The records stay records, and no active stake changes.
LEMMA ProcessActive ==
  ASSUME NEW ss \in StakeMap, NEW due, NEW n, NEW pool \in Pool, \A v \in Validator : Record(ss, due, n, pool, v)
  PROVE  pool.stakes \in StakeMap /\ \A v \in Validator : ActiveOf(pool.stakes, v) = ActiveOf(ss, v)
<1>1. ASSUME NEW v \in Validator
      PROVE  pool.stakes[v] \in StakeRecord \cup {NoRecord} /\ ActiveOf(pool.stakes, v) = ActiveOf(ss, v)
  <2>1. ss[v] \in StakeRecord \cup {NoRecord} /\ (IsUnstaking(ss, v) => ss[v] \in StakeRecord)
    BY DEF StakeMap, IsUnstaking
  <2>2. CASE pool.stakes[v] = ss[v]
    BY <2>1, <2>2 DEF ActiveOf
  <2>3. CASE IsUnstaking(ss, v) /\ (pool.stakes[v] = Unstaked(ss[v]) \/ pool.stakes[v] = NoRecord)
    <3>1. ActiveOf(ss, v) = 0
      BY <2>3 DEF ActiveOf, IsUnstaking
    <3>2. ActiveOf(pool.stakes, v) = 0 /\ pool.stakes[v] \in StakeRecord \cup {NoRecord}
      BY <2>1, <2>3, UnstakedIs DEF ActiveOf
    <3> QED BY <3>1, <3>2
  <2> QED BY <2>2, <2>3 DEF Record
<1>2. pool.stakes \in [Validator -> StakeRecord \cup {NoRecord, Stray}]
  BY DEF Pool
<1> DEFINE m == pool.stakes
<1> HIDE DEF m
<1>3. m \in [Validator -> StakeRecord \cup {NoRecord, Stray}] /\ \A v \in Validator : m[v] \in StakeRecord \cup {NoRecord}
  BY <1>1, <1>2 DEF m
<1>4. m \in [Validator -> StakeRecord \cup {NoRecord}]
  BY <1>3
<1> QED BY <1>1, <1>4 DEF m, StakeMap

\* What was due is gone from the queue, and its partial requests are counted.
Taken(us, due, us2, left, left2) ==
    \A v \in Validator : Wholes(us, v) = Wholes(due, v) + Wholes(us2, v) /\ left2[v] = left[v] + Parts(due, v)

IsTotal(tot, ss, us, left) == tot = SumOver(Counts(ss, us, left), Validator) % StakeModulus

Less(tot, due) == (tot - SumOver(Amounts1(due), DOMAIN due)) % StakeModulus

\* What leaves the queue leaves the total with it.
LEMMA ProcessTotal ==
  ASSUME NEW ss \in StakeMap, NEW ss2 \in StakeMap, \A v \in Validator : ActiveOf(ss2, v) = ActiveOf(ss, v),
         NEW us \in Seq(Unstaking), NEW due \in Seq(Unstaking), NEW us2 \in Seq(Unstaking),
         NEW left \in [Validator -> Nat], NEW left2 \in [Validator -> Nat],
         Taken(us, due, us2, left, left2),
         NEW tot, IsTotal(tot, ss, us, left)
  PROVE  IsTotal(Less(tot, due), ss2, us2, left2)
<1> DEFINE c == Counts(ss, us, left)
           c2 == Counts(ss2, us2, left2)
           k == BothOf(due)
           x == SumOver(c, Validator)
           y == SumOver(k, Validator)
           z == SumOver(c2, Validator)
<1>1. (\A v \in Validator : c[v] \in Int /\ c2[v] \in Int) /\ x \in Int /\ z \in Int
  BY CountsType
<1>2. SumOver(Amounts1(due), DOMAIN due) = y /\ y \in Int /\ \A v \in Validator : k[v] \in Int
  BY AmountsByValidator
<1>3. ASSUME NEW v \in Validator PROVE c[v] = c2[v] + k[v]
  <2> DEFINE a == ActiveOf(ss, v)
             wd == Wholes(due, v)
             w2 == Wholes(us2, v)
             pd == Parts(due, v)
             l == left[v]
  <2>1. a \in Nat /\ wd \in Nat /\ w2 \in Nat /\ pd \in Nat /\ l \in Nat
    BY CountsType, PartsType
  <2>2. c[v] = a + (wd + w2) - l /\ c2[v] = a + w2 - (l + pd) /\ k[v] = wd + pd
    <3>1. c[v] = a + Wholes(us, v) - l
      BY CountsType
    <3>2. c2[v] = ActiveOf(ss2, v) + w2 - left2[v]
      BY CountsType
    <3>3. k[v] = wd + pd
      BY AmountsByValidator
    <3>4. Wholes(us, v) = wd + w2 /\ left2[v] = l + pd /\ ActiveOf(ss2, v) = a
      BY DEF Taken
    <3> HIDE DEF a, wd, w2, pd, l, c, c2, k
    <3> QED BY <3>1, <3>2, <3>3, <3>4
  <2> HIDE DEF a, wd, w2, pd, l, c, c2, k
  <2>3. a + (wd + w2) - l = (a + w2 - (l + pd)) + (wd + pd)
    BY <2>1
  <2> QED BY <2>2, <2>3
<1> HIDE DEF c, c2, k
<1>4. x = z + y
  BY <1>1, <1>2, <1>3, StakeAssumption, SumOverPlus
<1>5. tot = x % StakeModulus
  BY DEF x, c, IsTotal
<1> HIDE DEF x, y, z
<1>6. - y \in Int /\ x + (- y) = z
  BY <1>1, <1>2, <1>4
<1>7. ((x % StakeModulus) + (- y)) % StakeModulus = (x + (- y)) % StakeModulus
  BY <1>1, <1>6, StakeMod
<1>8. tot \in Int
  <2>1. StakeModulus \in Nat /\ StakeModulus > 0
    BY StakeAssumption
  <2>2. x % StakeModulus \in 0 .. (StakeModulus - 1)
    BY <1>1, <2>1, DivMod
  <2> QED BY <1>5, <2>1, <2>2
<1>9. tot - y = tot + (- y)
  BY <1>2, <1>8
<1>10. (tot - y) % StakeModulus = z % StakeModulus
  BY <1>5, <1>6, <1>7, <1>9
<1> QED BY <1>2, <1>10 DEF y, z, c2, IsTotal, Less

LEMMA ProcessKeeps == StakeInv /\ ProcessUnstakes => StakeInv'
<1> SUFFICES ASSUME StakeInv, ProcessUnstakes PROVE StakeInv'
  OBVIOUS
<1> DEFINE ss == stakes
           us == unstakes
           tot == totalStaked
           now == stakeNow
           due == Parted(unstakes, TRUE)
           rest == Parted(unstakes, FALSE)
           pool == FoldLeft(ProcessFold, [stakes |-> stakes, orphans |-> {}, total |-> totalStaked], due)
<1>1. StakeTypeOK /\ (\A v \in Validator : Conserved(stakes, unstakes, v))
      /\ totalStaked = SumOver(Counts(stakes, unstakes, leftPart), Validator) % StakeModulus
      /\ \A v \in Validator : SharedRight(stakes, unstakes, v)
  BY StakeInvIs
<1>2. /\ ss \in StakeMap /\ us \in Seq(Unstaking) /\ tot \in 0 .. (StakeModulus - 1)
      /\ leftPart \in [Validator -> Nat] /\ leftWhole \in [Validator -> Nat]
  BY <1>1 DEF StakeTypeOK, StakeMap
<1>3. /\ stakes' = pool.stakes /\ totalStaked' = pool.total
      /\ unstakes' = Kept(rest, pool)
      /\ leftWhole' = [v \in Validator |-> leftWhole[v] + Wholes(due, v)]
      /\ leftPart' = [v \in Validator |-> leftPart[v] + Parts(due, v)]
      /\ UNCHANGED <<validators, stakeNow, entered>>
  BY Zenon DEF ProcessUnstakes, Kept, Seen, Wholes, Parts
<1>4. InTwo(us, due, rest)
  BY Zenon DEF InTwo
<1>5. pool = PoolAfter(ss, tot, due)
  BY DEF PoolAfter
<1> HIDE DEF pool, due, rest
<1>6. /\ due \in Seq(Unstaking) /\ rest \in Seq(Unstaking)
      /\ \E h : Selects(due, us, Len(us), DueAt(stakeNow), h)
      /\ \E h : Selects(rest, us, Len(us), Unstaking \ DueAt(stakeNow), h)
  BY <1>2, <1>4, PartedFacts
<1>7. \A v \in Validator : Wholes(us, v) = Wholes(due, v) + Wholes(rest, v) /\ Parts(us, v) = Parts(due, v) + Parts(rest, v)
  BY <1>2, <1>4, PartedParts
<1>8. Fits(ss, due)
  <2>1. PICK h : Selects(due, us, Len(us), DueAt(stakeNow), h)
    BY <1>6
  <2> QED BY <1>1, <1>2, <1>6, <2>1, DueFits
<1>9. /\ pool \in Pool
      /\ pool.total = (tot - SumOver(Amounts1(due), DOMAIN due)) % StakeModulus
      /\ \A v \in Validator : Record(ss, due, Len(due), pool, v)
  BY <1>2, <1>5, <1>6, <1>8, PoolIs
<1>10. stakes' \in StakeMap /\ \A v \in Validator : ActiveOf(stakes', v) = ActiveOf(stakes, v)
  BY <1>2, <1>3, <1>9, ProcessActive
<1>11. /\ unstakes' \in Seq(Unstaking)
       /\ \A v : Wholes(unstakes', v) = Wholes(rest, v) /\ Parts(unstakes', v) = Parts(rest, v)
  BY <1>3, <1>6, KeptIs
<1>12. \A v \in Validator : /\ Wholes(due, v) \in Nat /\ Parts(due, v) \in Nat
                            /\ Wholes(rest, v) \in Nat /\ Parts(rest, v) \in Nat
  BY <1>6, PartsType
<1>13. leftWhole' \in [Validator -> Nat] /\ leftPart' \in [Validator -> Nat]
  BY <1>2, <1>3, <1>12
<1>14. ASSUME NEW v \in Validator PROVE SharedRight(stakes, unstakes, v)'
  <2>1. PICK h : Selects(due, us, Len(us), DueAt(stakeNow), h)
    BY <1>6
  <2>2. PICK hr : Selects(rest, us, Len(us), Unstaking \ DueAt(stakeNow), hr)
    BY <1>6
  <2>3. SharedRight(ss, us, v) /\ Record(ss, due, Len(due), pool, v)
    BY <1>1, <1>9
  <2>4. SharedRight(pool.stakes, Kept(rest, pool), v)
    BY <1>2, <1>6, <1>9, <2>1, <2>2, <2>3, ProcessShared
  <2>5. SharedRight(stakes', unstakes', v)
    BY <1>3, <2>4
  <2> QED BY <2>5 DEF SharedRight, SharedOf, IsUnstaking
<1>15. totalStaked' = SumOver(Counts(stakes', unstakes', leftPart'), Validator) % StakeModulus
  <2> DEFINE ss2 == stakes'
             us2 == unstakes'
             left == leftPart
             left2 == leftPart'
  <2>1. /\ ss \in StakeMap /\ ss2 \in StakeMap /\ (\A v \in Validator : ActiveOf(ss2, v) = ActiveOf(ss, v))
        /\ us \in Seq(Unstaking) /\ due \in Seq(Unstaking) /\ us2 \in Seq(Unstaking)
        /\ left \in [Validator -> Nat] /\ left2 \in [Validator -> Nat]
    BY <1>2, <1>6, <1>10, <1>11, <1>13
  <2>2. Taken(us, due, us2, left, left2)
    BY <1>3, <1>7, <1>11 DEF Taken
  <2>3. IsTotal(tot, ss, us, left)
    BY <1>1 DEF IsTotal
  <2>4. totalStaked' = Less(tot, due)
    BY <1>3, <1>9 DEF Less
  <2> HIDE DEF ss, us, tot, ss2, us2, left, left2
  <2>5. IsTotal(Less(tot, due), ss2, us2, left2)
    BY <2>1, <2>2, <2>3, ProcessTotal
  <2> QED BY <2>4, <2>5 DEF IsTotal, ss2, us2, left2
<1>16. ASSUME NEW v \in Validator PROVE Conserved(stakes, unstakes, v)'
  <2> DEFINE a == ActiveOf(stakes, v)
             wd == Wholes(due, v)
             pd == Parts(due, v)
             wr == Wholes(rest, v)
             pr == Parts(rest, v)
             lw == leftWhole[v]
             lp == leftPart[v]
  <2>1. a \in Nat /\ wd \in Nat /\ pd \in Nat /\ wr \in Nat /\ pr \in Nat /\ lw \in Nat /\ lp \in Nat
    BY <1>2, <1>12, CountsType
  <2>2. (entered[v] - (a + (wd + wr) + (pd + pr) + lw + lp)) % StakeModulus = 0
    BY <1>1, <1>7 DEF Conserved
  <2>3. /\ entered'[v] = entered[v] /\ ActiveOf(stakes', v) = a /\ Wholes(unstakes', v) = wr
        /\ Parts(unstakes', v) = pr /\ leftWhole'[v] = lw + wd /\ leftPart'[v] = lp + pd
    BY <1>3, <1>10, <1>11
  <2> HIDE DEF a, wd, pd, wr, pr, lw, lp
  <2>4. a + (wd + wr) + (pd + pr) + lw + lp = a + wr + pr + (lw + wd) + (lp + pd)
    BY <2>1
  <2> QED BY <2>2, <2>3, <2>4 DEF Conserved
<1>17. StakeTypeOK'
  <2>1. pool.total \in 0 .. (StakeModulus - 1)
    <3>1. StakeModulus \in Nat /\ StakeModulus > 0 /\ tot \in Int
      BY <1>2, StakeAssumption
    <3>2. SumOver(Amounts1(due), DOMAIN due) \in Int
      BY <1>6, AmountsByValidator
    <3>3. tot - SumOver(Amounts1(due), DOMAIN due) \in Int
      BY <3>1, <3>2
    <3> QED BY <1>9, <3>1, <3>3, DivMod
  <2> QED BY <1>1, <1>3, <1>10, <1>11, <1>13, <2>1 DEF StakeTypeOK, StakeMap
<1> QED BY <1>14, <1>15, <1>16, <1>17, StakeInvIsNext

LEMMA StakeNextOK == StakeInv /\ [StakeNext]_stakeVars => StakeInv'
<1> SUFFICES ASSUME StakeInv, [StakeNext]_stakeVars PROVE StakeInv'
  OBVIOUS
<1>0. /\ stakes \in StakeMap /\ validators \in [Validator -> ValidatorInfo \cup {NoRecord}]
      /\ stakeNow \in 0 .. StakeMaxTime /\ StakeMaxTime \in Nat
  BY StakeAssumption DEF StakeInv, StakeTypeOK, StakeMap
<1>1. ASSUME NEW v \in Validator, NEW amount \in Amounts, Stake(v, amount) PROVE StakeInv'
  BY <1>1, StakeKeeps
<1>2. ASSUME NEW v \in Validator, NEW amount \in Amounts, UnstakeWhole(v, amount) PROVE StakeInv'
  BY <1>2, UnstakeWholeKeeps
<1>3. ASSUME NEW v \in Validator, NEW amount \in Amounts, UnstakePart(v, amount) PROVE StakeInv'
  BY <1>3, UnstakePartKeeps
<1>4. CASE ProcessUnstakes
  BY <1>4, ProcessKeeps
<1>5. ASSUME NEW v \in Validator, AddOrUpdateValidator(v) PROVE StakeInv'
  <2>1. GetValidatorStake(v) = ActiveOf(stakes, v) /\ ActiveOf(stakes, v) \in Nat
    BY <1>0 DEF GetValidatorStake, IsActive, ActiveOf, StakeMap, StakeRecord
  <2>2. [stake |-> GetValidatorStake(v), online |-> 0] \in ValidatorInfo
    BY <2>1 DEF ValidatorInfo
  <2>3. validators' \in [Validator -> ValidatorInfo \cup {NoRecord}]
    BY <1>0, <1>5, <2>2 DEF AddOrUpdateValidator
  <2> QED BY <1>0, <1>5, <2>3, ManagerKeeps DEF AddOrUpdateValidator
<1>6. ASSUME NEW v \in Validator, UpdateOnlineTime(v, 1) PROVE StakeInv'
  <2> DEFINE rec == [validators[v] EXCEPT !.online = validators[v].online + 1]
  <2>1. validators[v] \in ValidatorInfo
    BY <1>0, <1>6 DEF UpdateOnlineTime
  <2>2. rec \in ValidatorInfo
    <3>1. validators[v].online + 1 \in Nat
      BY <2>1 DEF ValidatorInfo
    <3> QED BY <2>1, <3>1 DEF ValidatorInfo
  <2>3. validators' = [validators EXCEPT ![v] = rec]
    BY <1>6 DEF UpdateOnlineTime
  <2> HIDE DEF rec
  <2>4. validators' \in [Validator -> ValidatorInfo \cup {NoRecord}]
    BY <1>0, <2>2, <2>3
  <2> QED BY <1>0, <1>6, <2>4, ManagerKeeps DEF UpdateOnlineTime
<1>7. ASSUME NEW v \in Validator, RemoveValidator(v) PROVE StakeInv'
  <2>1. validators' \in [Validator -> ValidatorInfo \cup {NoRecord}]
    BY <1>0, <1>7 DEF RemoveValidator
  <2> QED BY <1>0, <1>7, <2>1, ManagerKeeps DEF RemoveValidator
<1>8. CASE StakeTick
  <2>1. stakeNow' \in 0 .. StakeMaxTime
    BY <1>0, <1>8 DEF StakeTick
  <2> QED BY <1>0, <1>8, <2>1, ManagerKeeps DEF StakeTick
<1>9. CASE UNCHANGED stakeVars
  BY <1>0, <1>9, ManagerKeeps DEF stakeVars
<1> QED BY <1>1, <1>2, <1>3, <1>4, <1>5, <1>6, <1>7, <1>8, <1>9 DEF StakeNext

\* No stake of a validator is lost and none leaves twice, up to the wrap of a
\* uint64; GetTotalStaked is right until a partial unstake is processed; and
\* the queue and the map agree on the records they share, whatever the
\* amounts, the periods and the order of the calls (pool.go, Stake, Unstake
\* and ProcessUnstakes).
THEOREM StakesAccountedCorrect == StakeSpec => []StakesAccounted
<1>1. StakeInv => StakesAccounted
  <2> SUFFICES ASSUME StakeInv, \A v \in Validator : leftPart[v] = 0
               PROVE  totalStaked = MapThenSumSet(LAMBDA v : GetValidatorStake(v) + SumOf(v, unstakes, TRUE),
                                                  Validator) % StakeModulus
    BY DEF StakeInv, StakesAccounted, TotalUntilPart
  <2>1. stakes \in StakeMap /\ unstakes \in Seq(Unstaking)
    BY DEF StakeInv, StakeTypeOK, StakeMap
  <2>2. MapThenSumSet(LAMBDA v : GetValidatorStake(v) + SumOf(v, unstakes, TRUE), Validator)
           = SumOver(Counts(stakes, unstakes, leftPart), Validator)
    BY <2>1, CountsIs DEF GetValidatorStake, IsActive
  <2> QED BY <2>2 DEF StakeInv, TotalIsCounted
<1> QED BY <1>1, StakeInitOK, StakeNextOK, PTL DEF StakeSpec

-----------------------------------------------------------------------------
(* The rewards.                                                            *)

LEMMA TwoBounds ==
  ASSUME NEW a \in Nat, NEW b \in Nat
  PROVE  /\ Min({a, b}) \in Nat /\ Min({a, b}) <= a /\ Min({a, b}) <= b
         /\ a >= b => Min({a, b}) = b
         /\ Max({a, b}) \in Nat
<1>1. \E x \in {a, b} : \A y \in {a, b} : x <= y
  OBVIOUS
<1>2. Min({a, b}) \in {a, b} /\ \A y \in {a, b} : Min({a, b}) <= y
  BY <1>1 DEF Min
<1>3. \E x \in {a, b} : \A y \in {a, b} : x >= y
  OBVIOUS
<1>4. Max({a, b}) \in {a, b}
  BY <1>3 DEF Max
<1> DEFINE m == Min({a, b})
<1>5. m \in {a, b} /\ m <= a /\ m <= b
  BY <1>2
<1> HIDE DEF m
<1>6. m \in Nat /\ m <= a /\ m <= b /\ (a >= b => m = b)
  BY <1>5
<1> QED BY <1>4, <1>6 DEF m

LEMMA RewardType == \A height \in Heights : calculateBlockRewardByHeight(height) \in Nat
<1> SUFFICES ASSUME NEW height \in Heights PROVE calculateBlockRewardByHeight(height) \in Nat
  OBVIOUS
<1> DEFINE d == 2^(height \div HalvingInterval)
<1>1. d \in Nat /\ d > 0
  BY PowerAssumption
<1> HIDE DEF d
<1>2. BaseReward \div d \in Nat
  BY <1>1, StakeAssumption, DivNat
<1>3. calculateBlockRewardByHeight(height) = Max({BaseReward \div d, 1})
  BY DEF calculateBlockRewardByHeight, d
<1>4. Max({BaseReward \div d, 1}) \in Nat
  BY <1>2, TwoBounds
<1> QED BY <1>3, <1>4

\* The weight as a function of the map of validators.
WeightIn(vals, v) ==
    6 * Min({vals[v].online, OnlineWindow}) * MinStakeAmount + 4 * Min({vals[v].stake, 2 * MinStakeAmount}) * OnlineWindow

WeightsOf(vals, R) == [v \in R |-> WeightIn(vals, v)]

Whole(vals, v) == vals[v].online >= OnlineWindow /\ vals[v].stake >= 2 * MinStakeAmount

\* WeightsOf are naturals, and none is above that of a validator at both caps.
LEMMA WeightBounds ==
  ASSUME NEW R, NEW vals, \A v \in R : vals[v] \in ValidatorInfo
  PROVE  /\ \A v \in R : WeightIn(vals, v) \in Nat
         /\ \A v, w \in R : Whole(vals, w) => WeightIn(vals, v) <= WeightIn(vals, w)
<1>1. OnlineWindow \in Nat /\ MinStakeAmount \in Nat /\ 2 * MinStakeAmount \in Nat
  BY StakeAssumption
<1> DEFINE on(v) == Min({vals[v].online, OnlineWindow})
           st(v) == Min({vals[v].stake, 2 * MinStakeAmount})
<1>2. ASSUME NEW v \in R
      PROVE  /\ on(v) \in Nat /\ st(v) \in Nat /\ on(v) <= OnlineWindow /\ st(v) <= 2 * MinStakeAmount
             /\ Whole(vals, v) => on(v) = OnlineWindow /\ st(v) = 2 * MinStakeAmount
  <2>1. vals[v].online \in Nat /\ vals[v].stake \in Nat
    BY DEF ValidatorInfo
  <2>2. /\ on(v) \in Nat /\ on(v) <= OnlineWindow /\ (vals[v].online >= OnlineWindow => on(v) = OnlineWindow)
    BY <1>1, <2>1, TwoBounds
  <2> DEFINE cap == 2 * MinStakeAmount
  <2>3. cap \in Nat
    BY <1>1
  <2> HIDE DEF cap
  <2>4. /\ Min({vals[v].stake, cap}) \in Nat /\ Min({vals[v].stake, cap}) <= cap
        /\ vals[v].stake >= cap => Min({vals[v].stake, cap}) = cap
    BY <2>1, <2>3, TwoBounds
  <2> QED BY <2>2, <2>4 DEF Whole, cap
<1>3. \A v \in R : WeightIn(vals, v) = (6 * on(v)) * MinStakeAmount + (4 * st(v)) * OnlineWindow
  BY DEF WeightIn
<1> HIDE DEF on, st
<1>4. \A v \in R : 6 * on(v) \in Nat /\ 4 * st(v) \in Nat
  BY <1>2
<1>5. \A v \in R : WeightIn(vals, v) \in Nat
  <2> SUFFICES ASSUME NEW v \in R PROVE WeightIn(vals, v) \in Nat
    OBVIOUS
  <2> DEFINE a == 6 * on(v)
             b == 4 * st(v)
  <2>1. a \in Nat /\ b \in Nat /\ WeightIn(vals, v) = a * MinStakeAmount + b * OnlineWindow
    BY <1>3, <1>4
  <2> HIDE DEF a, b
  <2>2. a * MinStakeAmount \in Nat /\ b * OnlineWindow \in Nat
    BY <1>1, <2>1
  <2> QED BY <2>1, <2>2
<1>6. ASSUME NEW v \in R, NEW w \in R, Whole(vals, w) PROVE WeightIn(vals, v) <= WeightIn(vals, w)
  <2> DEFINE a == 6 * on(v)
             b == 4 * st(v)
             c == 6 * on(w)
             d == 4 * st(w)
  <2>1. /\ a \in Nat /\ b \in Nat /\ WeightIn(vals, v) = a * MinStakeAmount + b * OnlineWindow
        /\ c \in Nat /\ d \in Nat /\ WeightIn(vals, w) = c * MinStakeAmount + d * OnlineWindow
    BY <1>3, <1>4
  <2>2. on(v) <= on(w) /\ st(v) <= st(w)
    BY <1>2, <1>6
  <2>3. a <= c /\ b <= d
    BY <1>2, <2>2
  <2> HIDE DEF a, b, c, d
  <2> DEFINE x == a * MinStakeAmount
             y == b * OnlineWindow
             xw == c * MinStakeAmount
             yw == d * OnlineWindow
  <2>4. x \in Nat /\ xw \in Nat /\ x <= xw /\ y \in Nat /\ yw \in Nat /\ y <= yw
    BY <1>1, <2>1, <2>3, TimesMono
  <2>5. WeightIn(vals, v) = x + y /\ WeightIn(vals, w) = xw + yw
    BY <2>1
  <2> HIDE DEF x, y, xw, yw
  <2> QED BY <2>4, <2>5
<1> QED BY <1>5, <1>6

\* The shares that weights w give of a reward.
Shares(w, R, reward) ==
    [v \in R |-> IF SumOver(w, R) > 0 THEN (reward * w[v]) \div SumOver(w, R) ELSE 0]

LEMMA SharesBounded ==
  ASSUME NEW R, IsFiniteSet(R), NEW w, \A v \in R : w[v] \in Nat, NEW reward \in Nat
  PROVE  /\ SumOver(Shares(w, R, reward), R) <= reward
         /\ \A v, x \in R : w[v] <= w[x] => Shares(w, R, reward)[v] <= Shares(w, R, reward)[x]
<1> DEFINE t == SumOver(w, R)
           p == Shares(w, R, reward)
<1>1. t \in Nat
  BY SumOverNat
<1>2. CASE t = 0
  <2>1. \A v \in R : p[v] = 0
    BY <1>2 DEF Shares
  <2> HIDE DEF p
  <2>2. SumOver(p, R) = 0
    BY <2>1, SumOverZero
  <2> QED BY <2>1, <2>2 DEF p
<1>3. CASE t > 0
  <2>1. \A v \in R : p[v] = (reward * w[v]) \div t
    BY <1>3 DEF Shares
  <2> DEFINE k == [v \in R |-> reward * w[v]]
             l == [v \in R |-> t * p[v]]
  <2> HIDE DEF t, p
  <2>2. \A v \in R : reward * w[v] \in Nat
    OBVIOUS
  <2>3. \A v \in R : p[v] \in Nat /\ t * p[v] <= reward * w[v]
    <3> SUFFICES ASSUME NEW v \in R PROVE p[v] \in Nat /\ t * p[v] <= reward * w[v]
      OBVIOUS
    <3> DEFINE a == reward * w[v]
    <3>1. a \in Nat /\ p[v] = a \div t
      BY <2>1, <2>2
    <3> HIDE DEF a
    <3>2. p[v] \in Nat /\ t * p[v] <= a
      BY <1>1, <1>3, <3>1, DivNat
    <3> QED BY <3>2 DEF a
  <2>4. \A v \in R : t * p[v] \in Int
    BY <1>1, <2>3
  <2>5. \A v \in R : /\ l[v] \in Int /\ k[v] \in Int /\ l[v] <= k[v]
                     /\ l[v] = t * p[v] /\ k[v] = reward * w[v]
    BY <2>2, <2>3, <2>4
  <2>6. t \in Int /\ (\A v \in R : p[v] \in Int) /\ reward \in Int /\ (\A v \in R : w[v] \in Int)
    BY <1>1, <2>3
  <2> HIDE DEF k, l
  <2>7. SumOver(l, R) <= SumOver(k, R)
    BY <2>5, SumOverLeq
  <2>8. SumOver(l, R) = t * SumOver(p, R)
    BY <2>5, <2>6, SumOverTimes
  <2>9. SumOver(k, R) = reward * SumOver(w, R)
    BY <2>5, <2>6, SumOverTimes
  <2>10. SumOver(p, R) \in Int
    BY <2>6, SumOverType
  <2>11. reward * t = t * reward
    BY <2>6
  <2>12. t * SumOver(p, R) <= t * reward
    BY <2>7, <2>8, <2>9, <2>11 DEF t
  <2>13. SumOver(p, R) <= reward
    <3> DEFINE z == SumOver(p, R)
    <3>1. z \in Int /\ t * z <= t * reward
      BY <2>10, <2>12
    <3> HIDE DEF z
    <3>2. z <= reward
      BY <1>1, <1>3, <2>6, <3>1, TimesCancel
    <3> QED BY <3>2 DEF z
  <2>14. ASSUME NEW v \in R, NEW x \in R, w[v] <= w[x] PROVE p[v] <= p[x]
    <3> DEFINE a == w[v] * reward
               b == w[x] * reward
    <3>1. a \in Nat /\ b \in Nat /\ a <= b
      BY <2>14, TimesMono
    <3>2. a = reward * w[v] /\ b = reward * w[x]
      BY <2>6
    <3>3. p[v] = a \div t /\ p[x] = b \div t
      BY <2>1, <3>2
    <3> HIDE DEF a, b
    <3>4. a \in Int /\ b \in Int
      BY <3>1
    <3>5. a \div t <= b \div t
      BY <1>1, <1>3, <3>1, <3>4, DivMono
    <3> QED BY <3>3, <3>5
  <2> QED BY <2>13, <2>14 DEF p
<1> QED BY <1>1, <1>2, <1>3

\* What CalculateRewardDistribution pays are these shares.
LEMMA WeightsSum ==
  ASSUME NEW vals, NEW R
  PROVE  MapThenSumSet(LAMBDA v : 6 * Min({vals[v].online, OnlineWindow}) * MinStakeAmount
                                    + 4 * Min({vals[v].stake, 2 * MinStakeAmount}) * OnlineWindow, R)
            = SumOver(WeightsOf(vals, R), R)
<1> DEFINE g == WeightsOf(vals, R)
           Cell(v) == 6 * Min({vals[v].online, OnlineWindow}) * MinStakeAmount
                         + 4 * Min({vals[v].stake, 2 * MinStakeAmount}) * OnlineWindow
           IsOne(f) == f = [s \in SUBSET R |-> IF s = {} THEN 0 ELSE Cell(Pick(s)) + f[s \ {Pick(s)}]]
<1>1. MapThenSumSet(LAMBDA v : 6 * Min({vals[v].online, OnlineWindow}) * MinStakeAmount
                                    + 4 * Min({vals[v].stake, 2 * MinStakeAmount}) * OnlineWindow, R)
         = (CHOOSE f : IsOne(f))[R]
  BY DEF MapThenSumSet, MapThenFoldSet, Pick
<1>2. \A s \in SUBSET R : s # {} => g[Pick(s)] = Cell(Pick(s))
  <2>1. \A v \in R : g[v] = Cell(v)
    BY DEF WeightsOf, WeightIn
  <2>2. \A s \in SUBSET R : s # {} => Pick(s) \in R
    BY DEF Pick
  <2> HIDE DEF Cell, g
  <2> QED BY <2>1, <2>2
<1> HIDE DEF g, Cell
<1>3. \A f : IsOne(f) <=> IsSum(g, R, f)
  <2> SUFFICES ASSUME NEW f
               PROVE  [s \in SUBSET R |-> IF s = {} THEN 0 ELSE Cell(Pick(s)) + f[s \ {Pick(s)}]]
                        = [s \in SUBSET R |-> IF s = {} THEN 0 ELSE g[Pick(s)] + f[s \ {Pick(s)}]]
    BY DEF IsSum
  <2> QED BY <1>2
<1> HIDE DEF IsOne
<1>4. (CHOOSE f : IsOne(f)) = CHOOSE f : IsSum(g, R, f)
  BY <1>3
<1> QED BY <1>1, <1>4, SumOverDef DEF SumFcn, g

LEMMA DistributionIs ==
  \A reward \in Nat : CalculateRewardDistribution(Registered, reward)
                        = Shares(WeightsOf(validators, Registered), Registered, reward)
<1> DEFINE R == Registered
           w == WeightsOf(validators, R)
<1>1. MapThenSumSet(Weight, R) = SumOver(w, R)
  BY WeightsSum DEF Weight, calculateOnlineScore, calculateStakeScore
<1>2. \A v \in R : w[v] = Weight(v)
  BY DEF WeightsOf, WeightIn, Weight, calculateOnlineScore, calculateStakeScore
<1>3. \A reward : CalculateRewardDistribution(R, reward)
         = [v \in R |-> IF MapThenSumSet(Weight, R) > 0 THEN (reward * Weight(v)) \div MapThenSumSet(Weight, R) ELSE 0]
  BY DEF CalculateRewardDistribution
<1> HIDE DEF R, w
<1>4. \A reward : CalculateRewardDistribution(R, reward)
         = [v \in R |-> IF SumOver(w, R) > 0 THEN (reward * w[v]) \div SumOver(w, R) ELSE 0]
  BY <1>1, <1>2, <1>3
<1> QED BY <1>4 DEF Shares, R, w

LEMMA PaidIs ==
  ASSUME NEW R, NEW paid
  PROVE  MapThenSumSet(LAMBDA v : paid[v], R) = SumOver(paid, R)
  BY DEF SumOver

LEMMA InvSharesFair == StakeInv => SharesFair
<1> SUFFICES ASSUME StakeInv PROVE SharesFair
  OBVIOUS
<1> DEFINE R == Registered
           w == WeightsOf(validators, R)
<1>1. IsFiniteSet(R) /\ \A v \in R : validators[v] \in ValidatorInfo
  <2>1. R \in SUBSET Validator /\ \A v \in R : validators[v] \in ValidatorInfo
    BY DEF StakeInv, StakeTypeOK, Registered
  <2> QED BY <2>1, StakeAssumption, FS_Subset
<1>2. /\ \A v \in R : w[v] = WeightIn(validators, v) /\ WeightIn(validators, v) \in Nat
      /\ \A v, x \in R : Whole(validators, x) => WeightIn(validators, v) <= WeightIn(validators, x)
  BY <1>1, WeightBounds DEF WeightsOf
<1>3. ASSUME NEW height \in Heights
      PROVE  LET paid == CalculateRewardDistribution(Registered, calculateBlockRewardByHeight(height))
             IN  /\ SumOver(paid, Registered) <= calculateBlockRewardByHeight(height)
                 /\ \A v, x \in Registered : Whole(validators, x) => paid[v] <= paid[x]
  <2> DEFINE reward == calculateBlockRewardByHeight(height)
             paid == CalculateRewardDistribution(R, reward)
  <2>1. reward \in Nat
    BY RewardType
  <2>2. paid = Shares(w, R, reward)
    BY <2>1, DistributionIs
  <2> HIDE DEF R, w, reward, paid
  <2>3. \A v \in R : w[v] \in Nat
    BY <1>2
  <2>4. /\ SumOver(Shares(w, R, reward), R) <= reward
        /\ \A v, x \in R : w[v] <= w[x] => Shares(w, R, reward)[v] <= Shares(w, R, reward)[x]
    BY <1>1, <2>1, <2>3, SharesBounded
  <2>5. SumOver(paid, R) <= reward /\ \A v, x \in R : Whole(validators, x) => paid[v] <= paid[x]
    BY <1>2, <2>2, <2>4
  <2> QED BY <2>5 DEF R, reward, paid
<1> HIDE DEF R, w
<1>4. NeverOverpaid
  BY <1>3, PaidIs DEF NeverOverpaid
<1>5. ShareCapped
  BY <1>3 DEF ShareCapped, Whole
<1> QED BY <1>4, <1>5 DEF SharesFair

\* A block reward is shared out within its amount, whatever the scores of the
\* registered validators, and within the caps of the scores
\* (reward.go, CalculateRewardDistribution).
THEOREM SharesFairCorrect == StakeSpec => []SharesFair
  BY StakeInitOK, StakeNextOK, InvSharesFair, PTL DEF StakeSpec

-----------------------------------------------------------------------------
(* The consensus engine: UpdateValidators.                                 *)

Known(cs) == {n \in PeerID : cs[n] # NoContribution}

\* ValidatorsAreTop of the contributions cs and the validators v.
TopOf(cs, v) ==
    /\ Len(v) = Min({ValidatorCount, Cardinality(Known(cs))})
    /\ Cardinality(Range(v)) = Len(v)
    /\ \A i, j \in DOMAIN v : i < j => cs[v[i]].score >= cs[v[j]].score
    /\ \A i \in DOMAIN v : \A n \in Known(cs) \ Range(v) : cs[v[i]].score >= cs[n].score

ContributionMap == [PeerID -> Contribution \cup {NoContribution}]

LEMMA UpdateIsTop ==
  ASSUME NEW cs \in ContributionMap, NEW nodes \in SetToSeqs(Known(cs))
  PROVE  LET v == UpdateValidators(nodes, [n \in Known(cs) |-> cs[n].score])
         IN  v \in Seq(PeerID) /\ TopOf(cs, v)
<1> DEFINE S == Known(cs)
           n == Cardinality(S)
           score == [x \in S |-> cs[x].score]
           t == ExchangeSort(nodes, ByScore(score))
           k == Min({ValidatorCount, n})
           v == SubSeq(t, 1, k)
<1>1. S \in SUBSET PeerID /\ IsFiniteSet(S) /\ n \in Nat
  BY EngineAssumption, FS_Subset, FS_CardinalityType DEF Known
<1>2. \A x \in S : score[x] = cs[x].score /\ score[x] \in Nat
  BY DEF Known, ContributionMap, Contribution
<1>2a. DOMAIN score = S
  OBVIOUS
<1> HIDE DEF S, n, score
<1>3. nodes \in Orders(S, n)
  BY OrdersAre DEF S, n
<1>4. t \in Orders(S, n) /\ \A x, y \in 1 .. n : x < y => score[t[x]] >= score[t[y]]
  <2>1. StrictOrder(S, ByScore(score))
    BY <1>2, <1>2a DEF StrictOrder, ByScore
  <2>2. t \in Orders(S, n) /\ \A x, y \in 1 .. n : x < y => <<t[y], t[x]>> \notin ByScore(score)
    BY <1>1, <1>3, <2>1, SortOK
  <2>3. ASSUME NEW x \in 1 .. n, NEW y \in 1 .. n, x < y PROVE score[t[x]] >= score[t[y]]
    <3>1. t[x] \in S /\ t[y] \in S
      BY <1>1, <2>2, OrderIsSeq
    <3>2. <<t[y], t[x]>> \notin ByScore(score)
      BY <2>2, <2>3
    <3>3. score[t[x]] \in Nat /\ score[t[y]] \in Nat
      BY <1>2, <3>1
    <3> HIDE DEF t
    <3>4. ~ (score[t[y]] > score[t[x]])
      BY <1>2a, <3>1, <3>2 DEF ByScore
    <3> QED BY <3>3, <3>4
  <2> QED BY <2>2, <2>3
<1>5. Len(nodes) = n
  BY <1>1, <1>3, OrderIsSeq
<1>6. UpdateValidators(nodes, score) = v
  BY <1>5 DEF UpdateValidators
<1>7. k \in Nat /\ k <= n
  BY <1>1, EngineAssumption, MinTwo
<1> HIDE DEF t, k
<1>8. t \in Seq(S) /\ Len(t) = n /\ \A i \in 1 .. n : t[i] \in S
  BY <1>1, <1>4, OrderIsSeq
<1>9. /\ v = [i \in 1 .. k |-> v[i]] /\ v \in Seq(S) /\ Len(v) = k /\ DOMAIN v = 1 .. k
      /\ \A i \in 1 .. k : v[i] = t[i] /\ i \in 1 .. n /\ v[i] \in S
  BY <1>1, <1>7, <1>8
<1> HIDE DEF v
<1>10. v \in Seq(PeerID)
  BY <1>1, <1>9
<1>11. \A i, j \in 1 .. k : i # j => v[i] # v[j]
  BY <1>4, <1>9 DEF Orders
<1>12. Cardinality(Range(v)) = k
  BY <1>7, <1>9, <1>11, NoneTwice
<1>13. ASSUME NEW i \in 1 .. k, NEW j \in 1 .. k, i < j PROVE cs[v[i]].score >= cs[v[j]].score
  BY <1>2, <1>4, <1>9, <1>13
<1>14. ASSUME NEW i \in 1 .. k, NEW x \in S \ Range(v) PROVE cs[v[i]].score >= cs[x].score
  <2>1. PICK j \in 1 .. n : t[j] = x
    BY <1>1, <1>4, OrderHoldsAll DEF n
  <2>2. j \notin 1 .. k
    BY <1>9, <2>1 DEF Range
  <2>3. i < j /\ i \in 1 .. n
    BY <1>1, <1>7, <2>2
  <2>4. score[t[i]] >= score[t[j]]
    BY <1>4, <2>3
  <2> QED BY <1>2, <1>9, <2>1, <2>4
<1>15. TopOf(cs, v)
  BY <1>9, <1>12, <1>13, <1>14 DEF TopOf, k, n, S
<1> QED BY <1>6, <1>10, <1>15 DEF score, S

LEMMA ScoreType ==
  ASSUME NEW c \in Contribution
  PROVE  calculateScoreLocked(c) \in Contribution
<1> DEFINE a == Min({c.online, Window})
           b == Min({c.forwarded, Gigabyte})
           l == 1 - c.loss
           x == calculateScoreLocked(c).score
<1>1. /\ c \in [online : Nat, loss : {0, 1}, forwarded : Nat, score : Nat]
      /\ c.online \in Nat /\ c.forwarded \in Nat /\ c.loss \in {0, 1}
      /\ Window \in Nat /\ Gigabyte \in Nat
  BY EngineAssumption DEF Contribution
<1>2. a \in Nat /\ b \in Nat /\ l \in Nat
  BY <1>1, MinTwo
<1> DEFINE e == 6 * a * Gigabyte + l * Window * Gigabyte + 3 * b * Window
<1>3. calculateScoreLocked(c) = [c EXCEPT !.score = e]
  BY DEF calculateScoreLocked
<1> HIDE DEF a, b, l
<1>4. e \in Nat
  <2>1. 6 * a * Gigabyte \in Nat
    BY <1>1, <1>2
  <2>2. l * Window * Gigabyte \in Nat
    BY <1>1, <1>2
  <2>3. 3 * b * Window \in Nat
    BY <1>1, <1>2
  <2> QED BY <2>1, <2>2, <2>3
<1> HIDE DEF e
<1> QED BY <1>1, <1>3, <1>4 DEF Contribution

LEMMA UpdatesType ==
  ASSUME NEW c \in Contribution
  PROVE  Updates(c) \subseteq Contribution
<1>1. \A l \in {0, 1} : [c EXCEPT !.loss = l] \in Contribution
  BY DEF Contribution
<1>2. [c EXCEPT !.online = c.online + 1] \in Contribution /\ [c EXCEPT !.forwarded = c.forwarded + 1] \in Contribution
  BY DEF Contribution
<1>3. \A l \in {0, 1} : calculateScoreLocked([c EXCEPT !.loss = l]) \in Contribution
  BY <1>1, ScoreType
<1>4. /\ calculateScoreLocked([c EXCEPT !.online = c.online + 1]) \in Contribution
      /\ calculateScoreLocked([c EXCEPT !.forwarded = c.forwarded + 1]) \in Contribution
  BY <1>2, ScoreType
<1> QED BY <1>3, <1>4 DEF Updates

-----------------------------------------------------------------------------
(* The prefix monitor.                                                     *)

DevicesOf(lv, p) == [d \in Device |-> IF GetPrefix[d] = p THEN lv[d] ELSE 0]

LEMMA DevicesIs ==
  ASSUME NEW lv, NEW p
  PROVE  MapThenSumSet(LAMBDA d : IF GetPrefix[d] = p THEN lv[d] ELSE 0, Device) = SumOver(DevicesOf(lv, p), Device)
<1> DEFINE g == DevicesOf(lv, p)
           Cell(d) == IF GetPrefix[d] = p THEN lv[d] ELSE 0
           IsCount(f) == f = [s \in SUBSET Device |-> IF s = {} THEN 0 ELSE Cell(Pick(s)) + f[s \ {Pick(s)}]]
<1>1. MapThenSumSet(LAMBDA d : IF GetPrefix[d] = p THEN lv[d] ELSE 0, Device) = (CHOOSE f : IsCount(f))[Device]
  BY DEF MapThenSumSet, MapThenFoldSet, Pick
<1>2. \A s \in SUBSET Device : s # {} => g[Pick(s)] = Cell(Pick(s))
  BY DEF DevicesOf, Pick
<1> HIDE DEF g, Cell
<1>3. ASSUME NEW f PROVE IsCount(f) <=> IsSum(g, Device, f)
  BY <1>2 DEF IsSum
<1> HIDE DEF IsCount
<1>4. (CHOOSE f : IsCount(f)) = (CHOOSE f : IsSum(g, Device, f))
  BY <1>3
<1> QED BY <1>1, <1>4, SumOverDef DEF SumFcn, g

\* The count of a prefix is right.
CountRight(counts, lv, p) ==
    LET devices == SumOver(DevicesOf(lv, p), Device)
    IN  counts[p] = IF devices = 0 THEN NoCount ELSE devices

LEMMA CountsDevicesIs == CountsDevices <=> (matched => \A p \in Prefix : CountRight(prefixCounts, live, p))
  BY DevicesIs DEF CountsDevices, CountRight

LEMMA CountsDevicesIsNext == (CountsDevices <=> (matched => \A p \in Prefix : CountRight(prefixCounts, live, p)))'
  BY CountsDevicesIs, PTL

LiveMap == [Device -> 0 .. MaxDevices]

SetTo(lv, d, x, after) ==
    /\ lv \in LiveMap /\ after \in LiveMap /\ d \in Device /\ x \in Nat
    /\ after = [lv EXCEPT ![d] = x]

\* What a change of one device does to the devices of every prefix.
LEMMA DevicesChange ==
  ASSUME NEW lv, NEW d, NEW x, NEW after, SetTo(lv, d, x, after), NEW p
  PROVE  /\ SumOver(DevicesOf(lv, p), Device) \in Nat
         /\ SumOver(DevicesOf(after, p), Device) \in Nat
         /\ GetPrefix[d] = p => /\ SumOver(DevicesOf(lv, p), Device) >= lv[d]
                                /\ SumOver(DevicesOf(after, p), Device) = SumOver(DevicesOf(lv, p), Device) + (x - lv[d])
         /\ GetPrefix[d] # p => SumOver(DevicesOf(after, p), Device) = SumOver(DevicesOf(lv, p), Device)
<1> DEFINE g == DevicesOf(lv, p)
           h == DevicesOf(after, p)
<1>0. /\ IsFiniteSet(Device) /\ lv \in LiveMap /\ after \in LiveMap /\ d \in Device /\ x \in Nat
      /\ after = [lv EXCEPT ![d] = x]
  BY EngineAssumption DEF SetTo
<1>1. /\ \A y \in Device : lv[y] \in Nat /\ after[y] \in Nat
      /\ after[d] = x /\ \A y \in Device \ {d} : after[y] = lv[y]
  BY <1>0, EngineAssumption DEF LiveMap
<1>2. /\ \A y \in Device : g[y] \in Nat /\ h[y] \in Nat
      /\ \A y \in Device \ {d} : h[y] = g[y]
      /\ GetPrefix[d] = p => g[d] = lv[d] /\ h[d] = x
      /\ GetPrefix[d] # p => g[d] = 0 /\ h[d] = 0
  BY <1>0, <1>1 DEF DevicesOf
<1> HIDE DEF g, h
<1>3. SumOver(g, Device) \in Nat /\ SumOver(h, Device) \in Nat
  <2>1. (\A y \in Device : g[y] \in Nat) /\ (\A y \in Device : h[y] \in Nat)
    BY <1>2
  <2> QED BY <1>0, <2>1, SumOverNat
<1>4. SumOver(h, Device) = SumOver(g, Device) + (h[d] - g[d])
  <2>1. (\A y \in Device : g[y] \in Int) /\ h[d] \in Int
    BY <1>0, <1>2
  <2> QED BY <1>0, <1>2, <2>1, SumOverChange
<1>5. SumOver(g, Device) = g[d] + SumOver(g, Device \ {d}) /\ SumOver(g, Device \ {d}) \in Nat
  <2>1. (\A y \in Device : g[y] \in Int) /\ (\A y \in Device \ {d} : g[y] \in Nat) /\ IsFiniteSet(Device \ {d})
    BY <1>0, <1>2, FS_RemoveElement
  <2> QED BY <1>0, <2>1, SumOverStep, SumOverNat
<1>6. SumOver(g, Device) >= g[d] /\ g[d] \in Nat /\ h[d] \in Nat
  BY <1>0, <1>2, <1>5
<1> QED BY <1>0, <1>1, <1>2, <1>3, <1>4, <1>6 DEF g, h

\* One device more, or one less, of its prefix; the counts of the others stay.
LEMMA CountKept ==
  ASSUME NEW lv, NEW d, NEW x, NEW after, SetTo(lv, d, x, after),
         NEW counts \in [Prefix -> Nat \cup {NoCount}], NEW c, \A p \in Prefix : CountRight(counts, lv, p),
         \/ x = lv[d] + 1 /\ c = IF counts[GetPrefix[d]] = NoCount THEN 1 ELSE counts[GetPrefix[d]] + 1
         \/ lv[d] > 0 /\ x = lv[d] - 1 /\ c = WithoutOne(counts[GetPrefix[d]])
  PROVE  \A p \in Prefix : CountRight([counts EXCEPT ![GetPrefix[d]] = c], after, p)
<1> SUFFICES ASSUME NEW p \in Prefix PROVE CountRight([counts EXCEPT ![GetPrefix[d]] = c], after, p)
  OBVIOUS
<1> DEFINE a == SumOver(DevicesOf(lv, p), Device)
           b == SumOver(DevicesOf(after, p), Device)
           l == lv[d]
           q == GetPrefix[d]
           new == [counts EXCEPT ![GetPrefix[d]] = c]
<1>1. /\ a \in Nat /\ b \in Nat
      /\ q = p => a >= l /\ b = a + (x - l)
      /\ q # p => b = a
  BY DevicesChange
<1>2. l \in Nat /\ x \in Nat /\ q \in Prefix
  BY EngineAssumption DEF LiveMap, SetTo, Prefix
<1>3. counts[p] = IF a = 0 THEN NoCount ELSE a
  BY DEF CountRight
<1>4. (q = p => new[p] = c) /\ (q # p => new[p] = counts[p])
  OBVIOUS
<1>5. NoCount \notin Nat
  BY EngineAssumption
<1>6. \/ x = l + 1 /\ c = IF counts[q] = NoCount THEN 1 ELSE counts[q] + 1
      \/ l > 0 /\ x = l - 1 /\ c = WithoutOne(counts[q])
  OBVIOUS
<1> HIDE DEF a, b, l, q, new
<1>7. new[p] = IF b = 0 THEN NoCount ELSE b
  <2>1. CASE q # p
    BY <1>1, <1>3, <1>4, <2>1
  <2>2. CASE q = p /\ x = l + 1 /\ c = IF counts[q] = NoCount THEN 1 ELSE counts[q] + 1
    BY <1>1, <1>2, <1>3, <1>4, <1>5, <2>2
  <2>3. CASE q = p /\ l > 0 /\ x = l - 1 /\ c = WithoutOne(counts[q])
    <3>1. a \in Nat /\ a > 0 /\ b = a - 1 /\ counts[q] = a
      BY <1>1, <1>2, <1>3, <2>3
    <3>2. c = IF a <= 1 THEN NoCount ELSE a - 1
      BY <2>3, <3>1 DEF WithoutOne
    <3> QED BY <1>4, <2>3, <3>1, <3>2
  <2> QED BY <1>6, <2>1, <2>2, <2>3
<1> QED BY <1>7 DEF CountRight, new, b

LEMMA ValidatorsAreTopIs == ValidatorsAreTop <=> TopOf(contributions, validatorSet)
  BY DEF ValidatorsAreTop, TopOf, Known

LEMMA ValidatorsAreTopIsNext == (ValidatorsAreTop <=> TopOf(contributions, validatorSet))'
  BY ValidatorsAreTopIs, PTL

ConsensusInv == ConsensusTypeOK /\ ValidatorsAreTop /\ CountsDevices

LEMMA ConsensusInitOK == ConsensusInit => ConsensusInv
<1> SUFFICES ASSUME ConsensusInit PROVE ConsensusInv
  OBVIOUS
<1>1. ConsensusTypeOK
  BY EngineAssumption DEF ConsensusInit, ConsensusTypeOK
<1>2. TopOf(contributions, validatorSet)
  <2>1. Known(contributions) = {} /\ validatorSet = <<>>
    BY DEF ConsensusInit, Known
  <2>2. Cardinality(Known(contributions)) = 0
    BY <2>1, FS_EmptySet
  <2>3. Min({ValidatorCount, 0}) = 0
    BY EngineAssumption, MinTwo
  <2>4. Range(validatorSet) = {} /\ Len(validatorSet) = 0 /\ DOMAIN validatorSet = {}
    BY <2>1 DEF Range
  <2>5. Cardinality(Range(validatorSet)) = 0
    BY <2>4, FS_EmptySet
  <2> QED BY <2>2, <2>3, <2>4, <2>5 DEF TopOf
<1>3. \A p \in Prefix : CountRight(prefixCounts, live, p)
  <2> SUFFICES ASSUME NEW p \in Prefix PROVE CountRight(prefixCounts, live, p)
    OBVIOUS
  <2>1. \A d \in Device : DevicesOf(live, p)[d] = 0
    BY DEF ConsensusInit, DevicesOf
  <2>2. SumOver(DevicesOf(live, p), Device) = 0
    BY <2>1, EngineAssumption, SumOverZero
  <2> QED BY <2>2 DEF CountRight, ConsensusInit
<1> QED BY <1>1, <1>2, <1>3, ValidatorsAreTopIs, CountsDevicesIs DEF ConsensusInv

LEMMA UpdateContributionKeeps ==
  ASSUME ConsensusInv, NEW n \in PeerID,
         NEW c \in Updates(IF contributions[n] = NoContribution THEN NewNodeContribution ELSE contributions[n]),
         UpdateContribution(n, c)
  PROVE  ConsensusInv'
<1> DEFINE old == IF contributions[n] = NoContribution THEN NewNodeContribution ELSE contributions[n]
           cs == [contributions EXCEPT ![n] = c]
<1>0. ConsensusTypeOK /\ ValidatorsAreTop /\ CountsDevices
  BY DEF ConsensusInv
<1>1. contributions \in ContributionMap
  BY <1>0 DEF ConsensusTypeOK, ContributionMap
<1>2. old \in Contribution
  <2>1. NewNodeContribution \in Contribution
    BY DEF NewNodeContribution, Contribution
  <2> QED BY <1>1, <2>1 DEF ContributionMap
<1>3. c \in Contribution
  <2>1. Updates(old) \subseteq Contribution
    BY <1>2, UpdatesType
  <2> QED BY <2>1
<1> HIDE DEF old
<1>4. cs \in ContributionMap
  BY <1>1, <1>3 DEF ContributionMap
<1>5. /\ contributions' = cs
      /\ \E nodes \in SetToSeqs(Known(cs)) :
            validatorSet' = UpdateValidators(nodes, [x \in Known(cs) |-> cs[x].score])
      /\ UNCHANGED <<engineTxs, chainHead, engineNow, prefixVars>>
  BY DEF UpdateContribution, Known
<1>6. validatorSet' \in Seq(PeerID) /\ TopOf(cs, validatorSet')
  BY <1>4, <1>5, UpdateIsTop
<1>7. ConsensusTypeOK'
  <2>1. contributions' \in [PeerID -> Contribution \cup {NoContribution}]
    BY <1>4, <1>5 DEF ContributionMap
  <2> QED BY <1>0, <1>5, <1>6, <2>1 DEF ConsensusTypeOK, prefixVars
<1>8. ValidatorsAreTop'
  BY <1>5, <1>6, ValidatorsAreTopIsNext
<1>9. CountsDevices'
  BY <1>0, <1>5, CountsDevicesIs, CountsDevicesIsNext DEF prefixVars
<1> QED BY <1>7, <1>8, <1>9 DEF ConsensusInv

LEMMA RegisterPrefixKeeps ==
  ASSUME ConsensusInv, NEW d \in Device, RegisterPrefix(d)
  PROVE  ConsensusInv'
<1> DEFINE q == GetPrefix[d]
           c == IF prefixCounts[q] = NoCount THEN 1 ELSE prefixCounts[q] + 1
           x == live[d] + 1
<1>0. ConsensusTypeOK /\ ValidatorsAreTop /\ CountsDevices
  BY DEF ConsensusInv
<1>1. /\ prefixCounts \in [Prefix -> Nat \cup {NoCount}] /\ live \in LiveMap /\ q \in Prefix
      /\ live[d] \in Nat /\ live[d] <= MaxDevices /\ MaxDevices \in Nat
  BY <1>0, EngineAssumption DEF ConsensusTypeOK, Prefix, LiveMap
<1>2. /\ live[d] < MaxDevices /\ prefixCounts' = [prefixCounts EXCEPT ![q] = c]
      /\ live' = [live EXCEPT ![d] = x] /\ matched' = matched
      /\ UNCHANGED <<contributions, validatorSet, engineTxs, chainHead, engineNow>>
  BY DEF RegisterPrefix, engineVars
<1>3. x \in 0 .. MaxDevices /\ x \in Nat /\ c \in Nat
  BY <1>1, <1>2
<1> HIDE DEF c, x, q
<1>4. live' \in LiveMap /\ prefixCounts' \in [Prefix -> Nat \cup {NoCount}]
  BY <1>1, <1>2, <1>3 DEF LiveMap
<1>5. ConsensusTypeOK'
  BY <1>0, <1>2, <1>4 DEF ConsensusTypeOK, LiveMap
<1>6. ValidatorsAreTop'
  BY <1>0, <1>2, ValidatorsAreTopIs, ValidatorsAreTopIsNext
<1>7. ASSUME matched PROVE \A p \in Prefix : CountRight(prefixCounts', live', p)
  <2>1. SetTo(live, d, x, live')
    BY <1>1, <1>2, <1>3, <1>4 DEF SetTo
  <2>2. \A p \in Prefix : CountRight(prefixCounts, live, p)
    BY <1>0, <1>7, CountsDevicesIs
  <2>3. x = live[d] + 1 /\ c = IF prefixCounts[GetPrefix[d]] = NoCount THEN 1 ELSE prefixCounts[GetPrefix[d]] + 1
    BY DEF x, c, q
  <2>4. \A p \in Prefix : CountRight([prefixCounts EXCEPT ![GetPrefix[d]] = c], live', p)
    BY <1>1, <2>1, <2>2, <2>3, CountKept
  <2> QED BY <1>2, <2>4 DEF q
<1>8. CountsDevices'
  BY <1>2, <1>7, CountsDevicesIsNext
<1> QED BY <1>5, <1>6, <1>8 DEF ConsensusInv

LEMMA UnregisterPrefixKeeps ==
  ASSUME ConsensusInv, NEW d \in Device, UnregisterPrefix(d)
  PROVE  ConsensusInv'
<1> DEFINE q == GetPrefix[d]
           c == WithoutOne(prefixCounts[q])
           x == Max({live[d] - 1, 0})
<1>0. ConsensusTypeOK /\ ValidatorsAreTop /\ CountsDevices
  BY DEF ConsensusInv
<1>1. /\ prefixCounts \in [Prefix -> Nat \cup {NoCount}] /\ live \in LiveMap /\ q \in Prefix
      /\ live[d] \in Nat /\ live[d] <= MaxDevices /\ MaxDevices \in Nat
      /\ matched \in BOOLEAN
  BY <1>0, EngineAssumption DEF ConsensusTypeOK, Prefix, LiveMap
<1>2. /\ prefixCounts[q] # NoCount /\ prefixCounts' = [prefixCounts EXCEPT ![q] = c]
      /\ live' = [live EXCEPT ![d] = x] /\ matched' = (matched /\ live[d] > 0)
      /\ UNCHANGED <<contributions, validatorSet, engineTxs, chainHead, engineNow>>
  BY DEF UnregisterPrefix, engineVars
<1>3. x = IF live[d] - 1 >= 0 THEN live[d] - 1 ELSE 0
  <2> DEFINE y == live[d] - 1
  <2>1. y \in Int /\ x = Max({y, 0})
    BY <1>1
  <2> HIDE DEF x, y
  <2>2. x = IF y >= 0 THEN y ELSE 0
    BY <2>1, MaxTwo
  <2> QED BY <2>2 DEF y
<1>4. x \in 0 .. MaxDevices /\ x \in Nat /\ c \in Nat \cup {NoCount}
  BY <1>1, <1>2, <1>3 DEF WithoutOne
<1> HIDE DEF c, x, q
<1>5. live' \in LiveMap /\ prefixCounts' \in [Prefix -> Nat \cup {NoCount}]
  BY <1>1, <1>2, <1>4 DEF LiveMap
<1>6. ConsensusTypeOK'
  <2>1. matched' \in BOOLEAN
    BY <1>2, Zenon
  <2> QED BY <1>0, <1>2, <1>5, <2>1 DEF ConsensusTypeOK, LiveMap
<1>7. ValidatorsAreTop'
  BY <1>0, <1>2, ValidatorsAreTopIs, ValidatorsAreTopIsNext
<1>8. ASSUME matched, live[d] > 0 PROVE \A p \in Prefix : CountRight(prefixCounts', live', p)
  <2>1. SetTo(live, d, x, live')
    BY <1>1, <1>2, <1>4, <1>5 DEF SetTo
  <2>2. \A p \in Prefix : CountRight(prefixCounts, live, p)
    BY <1>0, <1>8, CountsDevicesIs
  <2>3. x = live[d] - 1 /\ c = WithoutOne(prefixCounts[GetPrefix[d]])
    BY <1>1, <1>3, <1>8 DEF c, q
  <2>4. \A p \in Prefix : CountRight([prefixCounts EXCEPT ![GetPrefix[d]] = c], live', p)
    BY <1>1, <1>8, <2>1, <2>2, <2>3, CountKept
  <2> QED BY <1>2, <2>4 DEF q
<1>9. CountsDevices'
  <2>1. matched' => matched /\ live[d] > 0
    BY <1>2, Zenon
  <2>2. matched' => \A p \in Prefix : CountRight(prefixCounts', live', p)
    BY <1>8, <2>1, Zenon
  <2> QED BY <2>2, CountsDevicesIsNext
<1> QED BY <1>6, <1>7, <1>9 DEF ConsensusInv

LEMMA ConsensusNextOK == ConsensusInv /\ [ConsensusNext]_consensusVars => ConsensusInv'
<1> SUFFICES ASSUME ConsensusInv, [ConsensusNext]_consensusVars PROVE ConsensusInv'
  OBVIOUS
<1>0. ConsensusTypeOK /\ ValidatorsAreTop /\ CountsDevices
  BY DEF ConsensusInv
<1>1. ASSUME UNCHANGED <<contributions, validatorSet, prefixVars>>, ConsensusTypeOK' PROVE ConsensusInv'
  <2>1. ValidatorsAreTop'
    BY <1>0, <1>1, ValidatorsAreTopIs, ValidatorsAreTopIsNext
  <2>2. CountsDevices'
    BY <1>0, <1>1, CountsDevicesIs, CountsDevicesIsNext DEF prefixVars
  <2> QED BY <1>1, <2>1, <2>2 DEF ConsensusInv
<1>2. ASSUME NEW tx \in EngineTx, EngineAddTransaction(tx) PROVE ConsensusInv'
  <2>1. ConsensusTypeOK'
    BY <1>0, <1>2 DEF EngineAddTransaction, ConsensusTypeOK, prefixVars
  <2> QED BY <1>1, <1>2, <2>1 DEF EngineAddTransaction
<1>3. ASSUME NEW height \in 0 .. MaxHeight, EngineSetChainHead(height) PROVE ConsensusInv'
  <2>1. ConsensusTypeOK'
    BY <1>0, <1>3, EngineAssumption DEF EngineSetChainHead, ConsensusTypeOK, prefixVars
  <2> QED BY <1>1, <1>3, <2>1 DEF EngineSetChainHead
<1>4. ASSUME EngineTick PROVE ConsensusInv'
  <2>1. ConsensusTypeOK'
    BY <1>0, <1>4, EngineAssumption DEF EngineTick, ConsensusTypeOK, prefixVars
  <2> QED BY <1>1, <1>4, <2>1 DEF EngineTick
<1>5. ASSUME UNCHANGED consensusVars PROVE ConsensusInv'
  <2>1. ConsensusTypeOK'
    BY <1>0, <1>5 DEF ConsensusTypeOK, consensusVars, engineVars, prefixVars
  <2> QED BY <1>1, <1>5, <2>1 DEF consensusVars, engineVars
<1> QED BY <1>2, <1>3, <1>4, <1>5, UpdateContributionKeeps, RegisterPrefixKeeps, UnregisterPrefixKeeps
        DEF ConsensusNext, EngineNext, PrefixNext

-----------------------------------------------------------------------------
(* Proof of connection: the limits of GetTopValidators.                    *)

LimitFcn(s) ==
    CHOOSE f : f = [t \in SUBSET DOMAIN s |-> IF t = {} THEN <<>> ELSE
        Limited(f[t \ {Max(t)}], s[Max(t)])]

LEMMA LimitsDef ==
  ASSUME NEW s
  PROVE  applyPrefixLimits(s) = LimitFcn(s)[DOMAIN s]
  BY DEF applyPrefixLimits, FoldLeft, MapThenFoldSet, LimitFcn

LEMMA LimitedType ==
  ASSUME NEW q \in Seq(PoCNode), NEW n \in PoCNode
  PROVE  Limited(q, n) \in Seq(PoCNode)
  BY DEF Limited

\* q holds, in their order, the places of s that h names; of a prefix at most
\* maxPerPrefix, and whoever of the first k places is left out found its
\* prefix full.
Earlier(q, h, x, p) == {j \in 1 .. Len(q) : h[j] < x /\ extractPrefix[q[j]] = p}

Limits(s, k, q, h) ==
    /\ q \in Seq(PoCNode) /\ h \in [1 .. Len(q) -> 1 .. k]
    /\ \A i, j \in 1 .. Len(q) : i < j => h[i] < h[j]
    /\ \A j \in 1 .. Len(q) : q[j] = s[h[j]]
    /\ \A p : Cardinality(OfPrefix(q, p)) <= maxPerPrefix
    /\ \A x \in 1 .. k : \/ \E j \in 1 .. Len(q) : h[j] = x
                         \/ Cardinality(Earlier(q, h, x, extractPrefix[s[x]])) = maxPerPrefix

LEMMA PlacesFinite ==
  ASSUME NEW q \in Seq(PoCNode), NEW p
  PROVE  /\ OfPrefix(q, p) \in SUBSET (1 .. Len(q)) /\ IsFiniteSet(OfPrefix(q, p))
         /\ Cardinality(OfPrefix(q, p)) \in Nat
<1>1. OfPrefix(q, p) \in SUBSET (1 .. Len(q)) /\ 1 \in Int /\ Len(q) \in Int
  BY DEF OfPrefix
<1>2. IsFiniteSet(1 .. Len(q))
  BY <1>1, FS_Interval
<1> QED BY <1>1, <1>2, FS_Subset, FS_CardinalityType

LEMMA LimitsStep ==
  ASSUME NEW s \in Seq(PoCNode), NEW k \in 1 .. Len(s), NEW q, NEW h, Limits(s, k - 1, q, h)
  PROVE  \E g : Limits(s, k, Limited(q, s[k]), g)
<1> DEFINE n == Len(q)
           p == extractPrefix[s[k]]
           full == ~ (Cardinality(OfPrefix(q, p)) < maxPerPrefix)
<1>1. /\ q \in Seq(PoCNode) /\ h \in [1 .. n -> 1 .. (k - 1)]
      /\ \A i, j \in 1 .. n : i < j => h[i] < h[j]
      /\ \A j \in 1 .. n : q[j] = s[h[j]]
      /\ \A r : Cardinality(OfPrefix(q, r)) <= maxPerPrefix
      /\ \A x \in 1 .. (k - 1) : \/ \E j \in 1 .. n : h[j] = x
                                 \/ Cardinality(Earlier(q, h, x, extractPrefix[s[x]])) = maxPerPrefix
  BY DEF Limits
<1>2. n \in Nat /\ s[k] \in PoCNode /\ k \in Nat /\ k > 0 /\ DOMAIN q = 1 .. n
  BY <1>1
<1>3. CASE full
  <2>1. Limited(q, s[k]) = q
    BY <1>3 DEF Limited
  <2>2. h \in [1 .. n -> 1 .. k]
    BY <1>1, <1>2
  <2>3. Cardinality(Earlier(q, h, k, p)) = maxPerPrefix
    <3>1. Earlier(q, h, k, p) = OfPrefix(q, p)
      <4>1. \A j \in 1 .. n : h[j] < k
        BY <1>1, <1>2
      <4> QED BY <1>2, <4>1 DEF Earlier, OfPrefix
    <3>2. Cardinality(OfPrefix(q, p)) \in Nat /\ Cardinality(OfPrefix(q, p)) <= maxPerPrefix
      BY <1>1, PlacesFinite
    <3> QED BY <1>3, <3>1, <3>2, PoCAssumption
  <2>4. ASSUME NEW x \in 1 .. k
        PROVE  \/ \E j \in 1 .. n : h[j] = x
               \/ Cardinality(Earlier(q, h, x, extractPrefix[s[x]])) = maxPerPrefix
    <3>1. x = k \/ x \in 1 .. (k - 1)
      BY <1>2
    <3> QED BY <1>1, <2>3, <3>1
  <2>5. Limits(s, k, q, h)
    BY <1>1, <2>2, <2>4 DEF Limits
  <2> QED BY <2>1, <2>5
<1>4. CASE ~ full
  <2> DEFINE u == Append(q, s[k])
             g == [j \in 1 .. n + 1 |-> IF j = n + 1 THEN k ELSE h[j]]
  <2>1. Limited(q, s[k]) = u
    BY <1>4 DEF Limited
  <2>2. /\ u \in Seq(PoCNode) /\ Len(u) = n + 1 /\ u[n + 1] = s[k] /\ DOMAIN u = 1 .. n + 1
        /\ \A j \in 1 .. n : u[j] = q[j]
    BY <1>1, <1>2
  <2>3. g \in [1 .. n + 1 -> 1 .. k] /\ g[n + 1] = k /\ \A j \in 1 .. n : g[j] = h[j]
    BY <1>1, <1>2
  <2>4. \A j \in 1 .. n + 1 : j = n + 1 \/ j \in 1 .. n
    BY <1>2
  <2>5. \A j \in 1 .. n : h[j] < k /\ j # n + 1 /\ j \in 1 .. n + 1
    BY <1>1, <1>2
  <2> HIDE DEF u, g, n
  <2>6. ASSUME NEW i \in 1 .. n + 1, NEW j \in 1 .. n + 1, i < j PROVE g[i] < g[j]
    <3>1. i \in 1 .. n
      BY <1>2, <2>6
    <3> QED BY <1>1, <2>3, <2>4, <2>5, <2>6, <3>1
  <2>7. \A j \in 1 .. n + 1 : u[j] = s[g[j]]
    BY <1>1, <2>2, <2>3, <2>4
  <2>8. ASSUME NEW r PROVE Cardinality(OfPrefix(u, r)) <= maxPerPrefix
    <3>1. IsFiniteSet(OfPrefix(q, r)) /\ OfPrefix(q, r) \in SUBSET (1 .. n) /\ Cardinality(OfPrefix(q, r)) \in Nat
      BY <1>1, PlacesFinite DEF n
    <3>2. CASE r = p
      <4>1. OfPrefix(u, r) = OfPrefix(q, r) \cup {n + 1}
        BY <1>2, <2>2, <2>4, <2>5, <3>2 DEF OfPrefix
      <4>2. n + 1 \notin OfPrefix(q, r)
        BY <2>5, <3>1
      <4>3. Cardinality(OfPrefix(u, r)) = Cardinality(OfPrefix(q, r)) + 1
        BY <3>1, <4>1, <4>2, FS_AddElement
      <4> QED BY <1>4, <3>1, <3>2, <4>3, PoCAssumption
    <3>3. CASE r # p
      <4>1. OfPrefix(u, r) = OfPrefix(q, r)
        BY <1>2, <2>2, <2>4, <2>5, <3>3 DEF OfPrefix
      <4> QED BY <1>1, <4>1
    <3> QED BY <3>2, <3>3
  <2>9. ASSUME NEW x \in 1 .. k
        PROVE  \/ \E j \in 1 .. n + 1 : g[j] = x
               \/ Cardinality(Earlier(u, g, x, extractPrefix[s[x]])) = maxPerPrefix
    <3>1. CASE x = k
      <4>1. n + 1 \in 1 .. n + 1
        BY <1>2
      <4> QED BY <2>3, <3>1, <4>1
    <3>2. CASE x # k
      <4>1. x \in 1 .. (k - 1) /\ x < k /\ ~ (k < x)
        BY <1>2, <3>2
      <4>2. Earlier(u, g, x, extractPrefix[s[x]]) = Earlier(q, h, x, extractPrefix[s[x]])
        BY <2>2, <2>3, <2>4, <2>5, <4>1 DEF Earlier, n
      <4>3. CASE \E j \in 1 .. n : h[j] = x
        BY <2>3, <2>5, <4>3
      <4> QED BY <1>1, <4>1, <4>2, <4>3
    <3> QED BY <3>1, <3>2
  <2>10. Limits(s, k, u, g)
    BY <2>2, <2>3, <2>6, <2>7, <2>8, <2>9 DEF Limits
  <2> QED BY <2>1, <2>10
<1> QED BY <1>3, <1>4

LEMMA LimitsHold ==
  ASSUME NEW s \in Seq(PoCNode)
  PROVE  \E h : Limits(s, Len(s), applyPrefixLimits(s), h)
<1> DEFINE m == Len(s)
           V == Seq(PoCNode)
           base == <<>>
           step == [k \in 1 .. m |-> [q \in V |-> Limited(q, s[k])]]
           p == LimitFcn(s)
           Eq(f) == f = [t \in SUBSET (1 .. m) |-> IF t = {} THEN base ELSE Limited(f[t \ {Max(t)}], s[Max(t)])]
<1>1. m \in Nat /\ DOMAIN s = 1 .. m /\ \A k \in 1 .. m : s[k] \in PoCNode
  OBVIOUS
<1>2. step \in [1 .. m -> [V -> V]]
  <2>1. \A k \in 1 .. m : \A q \in V : Limited(q, s[k]) \in V
    BY <1>1, LimitedType
  <2> HIDE DEF V, m
  <2> QED BY <2>1
<1>3. \A k \in 1 .. m : \A q \in V : step[k][q] = Limited(q, s[k])
  <2> HIDE DEF V, m
  <2> QED OBVIOUS
<1>4. p = CHOOSE f : Eq(f)
  BY <1>1 DEF LimitFcn
<1>5. base \in V
  OBVIOUS
<1> HIDE DEF m, V, step, base
<1>6. PICK f \in [SUBSET (1 .. m) -> V] : IsLoop(m, base, step, f)
  BY <1>1, <1>2, <1>5, LoopExists
<1>7. \A t \in SUBSET (1 .. m) : t # {} => Max(t) \in 1 .. m
  <2> SUFFICES ASSUME NEW t \in SUBSET (1 .. m), t # {} PROVE Max(t) \in 1 .. m
    OBVIOUS
  <2>1. t \in SUBSET (0 .. m)
    BY <1>1
  <2> QED BY <1>1, <2>1, MaxBounded
<1>8. Eq(f)
  <2>1. ASSUME NEW t \in SUBSET (1 .. m)
        PROVE  f[t] = IF t = {} THEN base ELSE Limited(f[t \ {Max(t)}], s[Max(t)])
    <3>1. CASE t # {}
      <4>1. f[t \ {Max(t)}] \in V /\ f[t] = step[Max(t)][f[t \ {Max(t)}]]
        BY <1>6, <3>1 DEF IsLoop
      <4> QED BY <1>3, <1>7, <3>1, <4>1
    <3> QED BY <1>6, <3>1 DEF IsLoop
  <2> QED BY <1>6, <2>1
<1>9. Eq(p)
  BY <1>4, <1>8
<1>10. IsRounds(m, V, base, step, p)
  <2>1. \A t \in SUBSET (1 .. m) : p[t] = IF t = {} THEN base ELSE Limited(p[t \ {Max(t)}], s[Max(t)])
    BY <1>9
  <2> HIDE DEF p
  <2> QED BY <1>1, <1>2, <1>3, <1>5, <1>7, <2>1 DEF IsRounds
<1> HIDE DEF p
<1>11. /\ p[1 .. 0] = base
       /\ \A k \in 0 .. m : p[1 .. k] \in V
       /\ \A k \in 1 .. m : p[1 .. k] = step[k][p[1 .. (k - 1)]]
  BY <1>10, LoopPrefixes
<1> DEFINE Good == {k \in 0 .. m : \E h : Limits(s, k, p[1 .. k], h)}
<1>12. 0 \in Good
  <2> DEFINE h == [j \in 1 .. 0 |-> 0]
             q == p[1 .. 0]
  <2>1. q = <<>> /\ q \in Seq(PoCNode) /\ Len(q) = 0
    BY <1>11 DEF base
  <2>2. h \in [1 .. 0 -> 1 .. 0]
    OBVIOUS
  <2>3. \A r : Cardinality(OfPrefix(q, r)) = 0
    <3>1. \A r : OfPrefix(q, r) = {}
      BY <2>1 DEF OfPrefix
    <3> QED BY <3>1, FS_EmptySet
  <2> HIDE DEF q, h
  <2>4. Limits(s, 0, q, h)
    BY <2>1, <2>2, <2>3, PoCAssumption DEF Limits
  <2> QED BY <1>1, <2>4 DEF q
<1>13. ASSUME NEW k \in 1 .. m, k - 1 \in Good PROVE k \in Good
  <2> DEFINE q == p[1 .. (k - 1)]
             u == p[1 .. k]
  <2>1. k - 1 \in 0 .. m /\ k \in 0 .. m
    BY <1>1
  <2>2. u = Limited(q, s[k])
    <3>1. q \in V
      BY <1>11, <2>1
    <3> QED BY <1>3, <1>11, <3>1
  <2>3. PICK h : Limits(s, k - 1, q, h)
    BY <1>13
  <2> HIDE DEF q, u
  <2>4. \E g : Limits(s, k, u, g)
    BY <2>2, <2>3, LimitsStep DEF m
  <2> QED BY <2>1, <2>4 DEF u
<1>14. m \in Good
  <2>1. Good \in SUBSET (0 .. m)
    OBVIOUS
  <2> HIDE DEF Good
  <2>2. Good = 0 .. m
    BY <1>1, <1>12, <1>13, <2>1, UpInduction
  <2> QED BY <1>1, <2>2
<1>15. applyPrefixLimits(s) = p[1 .. m]
  BY <1>1, LimitsDef DEF p
<1> QED BY <1>14, <1>15 DEF m

PeerRec == [score : 0 .. 100 * OnlineMax * ForwardMax, forwards : Nat]

LEMMA InvTopIsFair == PoCTypeOK => TopIsFair
<1> SUFFICES ASSUME PoCTypeOK, NEW top \in PoCTopValidators(validatorCount)
             PROVE  /\ \A n \in PoCNode : Cardinality(OfPrefix(top, extractPrefix[n])) <= maxPerPrefix
                    /\ \A i \in DOMAIN top : \A n \in Tracked \ Range(top) :
                          pocScores[n].score > pocScores[top[i]].score
                              => Cardinality(OfPrefix(top, extractPrefix[n])) = maxPerPrefix
  BY DEF TopIsFair
<1> DEFINE S == Tracked
           N == Cardinality(S)
<1>1. S \in SUBSET PoCNode /\ IsFiniteSet(S) /\ N \in Nat
  BY PoCAssumption, FS_Subset, FS_CardinalityType DEF Tracked
<1>2. \A n \in S : pocScores[n].score \in Int
  <2>1. 100 * OnlineMax * ForwardMax \in Nat
    BY PoCAssumption
  <2>2. \A n \in S : pocScores[n] \in PeerRec
    BY DEF Tracked, PoCTypeOK, PeerRec
  <2> QED BY <2>1, <2>2 DEF PeerRec
<1>3. PICK s \in Descending : top = SubSeq(applyPrefixLimits(s), 1, Min({validatorCount, Len(applyPrefixLimits(s))}))
  BY DEF PoCTopValidators
<1> HIDE DEF S, N
<1>4. s \in Orders(S, N)
  BY <1>3, OrdersAre DEF Descending, S, N
<1>5. /\ s \in Seq(S) /\ Len(s) = N /\ DOMAIN s = 1 .. N /\ \A i \in 1 .. N : s[i] \in S
      /\ s \in Seq(PoCNode)
  <2>1. s \in Seq(S) /\ Len(s) = N /\ DOMAIN s = 1 .. N /\ \A i \in 1 .. N : s[i] \in S
    BY <1>1, <1>4, OrderIsSeq
  <2> QED BY <1>1, <2>1
<1>6. \A x, y \in 1 .. N : x < y => pocScores[s[x]].score >= pocScores[s[y]].score
  BY <1>3, <1>5 DEF Descending
<1> DEFINE q == applyPrefixLimits(s)
           k == Min({validatorCount, Len(q)})
<1>7. PICK h : Limits(s, N, q, h)
  BY <1>5, LimitsHold
<1>8. top = SubSeq(q, 1, k)
  BY <1>3
<1> HIDE DEF q
<1>9. /\ q \in Seq(PoCNode) /\ h \in [1 .. Len(q) -> 1 .. N] /\ Len(q) \in Nat
      /\ \A i, j \in 1 .. Len(q) : i < j => h[i] < h[j]
      /\ \A j \in 1 .. Len(q) : q[j] = s[h[j]]
      /\ \A p : Cardinality(OfPrefix(q, p)) <= maxPerPrefix
      /\ \A x \in 1 .. N : \/ \E j \in 1 .. Len(q) : h[j] = x
                           \/ Cardinality(Earlier(q, h, x, extractPrefix[s[x]])) = maxPerPrefix
  BY <1>7 DEF Limits
<1>10. k \in Nat /\ k <= Len(q)
  BY <1>9, PoCAssumption, MinTwo
<1> HIDE DEF k
<1>11. /\ top \in Seq(PoCNode) /\ Len(top) = k /\ DOMAIN top = 1 .. k
       /\ \A i \in 1 .. k : top[i] = q[i] /\ i \in 1 .. Len(q)
  BY <1>8, <1>9, <1>10
<1>12. ASSUME NEW p
       PROVE  /\ Cardinality(OfPrefix(top, p)) <= maxPerPrefix /\ Cardinality(OfPrefix(top, p)) \in Nat
              /\ IsFiniteSet(OfPrefix(top, p))
  <2>1. OfPrefix(top, p) \in SUBSET OfPrefix(q, p)
    BY <1>9, <1>11 DEF OfPrefix
  <2>2. IsFiniteSet(OfPrefix(q, p)) /\ Cardinality(OfPrefix(q, p)) \in Nat
    BY <1>9, PlacesFinite
  <2>3. Cardinality(OfPrefix(top, p)) <= Cardinality(OfPrefix(q, p)) /\ IsFiniteSet(OfPrefix(top, p))
    BY <2>1, <2>2, FS_Subset
  <2>4. Cardinality(OfPrefix(top, p)) \in Nat /\ Cardinality(OfPrefix(q, p)) <= maxPerPrefix
    BY <1>9, <2>3, FS_CardinalityType
  <2> QED BY <2>2, <2>3, <2>4, PoCAssumption
<1>13. ASSUME NEW i \in 1 .. k, NEW n \in S \ Range(top), pocScores[n].score > pocScores[top[i]].score
       PROVE  Cardinality(OfPrefix(top, extractPrefix[n])) = maxPerPrefix
  <2>1. PICK x \in 1 .. N : s[x] = n
    BY <1>1, <1>4, OrderHoldsAll DEF N
  <2>2. i \in 1 .. Len(q) /\ h[i] \in 1 .. N /\ top[i] = s[h[i]]
    BY <1>9, <1>11
  <2>3. x < h[i]
    <3>1. pocScores[n].score \in Int /\ pocScores[top[i]].score \in Int
      BY <1>2, <1>5, <2>2
    <3>2. x # h[i]
      BY <1>13, <2>1, <2>2, <3>1
    <3>3. ~ (h[i] < x)
      BY <1>6, <1>13, <2>1, <2>2, <3>1
    <3> QED BY <1>1, <2>2, <3>2, <3>3
  <2>4. ASSUME NEW j \in 1 .. Len(q), h[j] <= x PROVE j \in 1 .. k
    <3>1. h[j] \in 1 .. N
      BY <1>9
    <3>2. h[j] < h[i]
      BY <1>1, <2>2, <2>3, <2>4, <3>1
    <3>3. ~ (i < j) /\ i # j
      BY <1>1, <1>9, <2>2, <3>1, <3>2
    <3> QED BY <1>9, <1>10, <2>2, <3>3
  <2>5. \A j \in 1 .. Len(q) : h[j] # x
    <3> SUFFICES ASSUME NEW j \in 1 .. Len(q), h[j] = x PROVE FALSE
      OBVIOUS
    <3>1. j \in 1 .. k
      BY <1>1, <2>4
    <3>2. top[j] = n
      BY <1>9, <1>11, <2>1, <3>1
    <3> QED BY <1>11, <1>13, <3>1, <3>2 DEF Range
  <2> DEFINE p == extractPrefix[n]
             E == Earlier(q, h, x, p)
  <2>6. Cardinality(E) = maxPerPrefix
    BY <1>9, <2>1, <2>5
  <2>7. E \in SUBSET OfPrefix(top, p)
    <3> SUFFICES ASSUME NEW j \in 1 .. Len(q), h[j] < x, extractPrefix[q[j]] = p PROVE j \in OfPrefix(top, p)
      BY DEF Earlier
    <3>1. h[j] \in 1 .. N
      BY <1>9
    <3>2. h[j] <= x
      BY <1>1, <3>1
    <3>3. j \in 1 .. k
      BY <2>4, <3>2
    <3> QED BY <1>11, <3>3 DEF OfPrefix
  <2> HIDE DEF E, p
  <2>8. Cardinality(E) <= Cardinality(OfPrefix(top, p))
    BY <1>12, <2>7, FS_Subset
  <2>9. Cardinality(OfPrefix(top, p)) \in Nat /\ Cardinality(OfPrefix(top, p)) <= maxPerPrefix
    BY <1>12
  <2>10. Cardinality(OfPrefix(top, p)) = maxPerPrefix
    BY <2>6, <2>8, <2>9, PoCAssumption
  <2> QED BY <2>10 DEF p
<1> QED BY <1>11, <1>12, <1>13 DEF S

-----------------------------------------------------------------------------

\* EnforcePrefixLimit on no validators at all.
LEMMA NothingLeft ==
  ASSUME NEW removed
  PROVE  newValidators(<<>>, removed) = <<>>
<1> DEFINE Eq(f) == f = [t \in SUBSET DOMAIN <<>> |-> IF t = {} THEN <<>> ELSE
              IF <<>>[Max(t)] \in removed THEN f[t \ {Max(t)}] ELSE Append(f[t \ {Max(t)}], <<>>[Max(t)])]
           g == [t \in SUBSET {} |-> <<>>]
           p == CHOOSE f : Eq(f)
<1>1. newValidators(<<>>, removed) = p[DOMAIN <<>>]
  BY DEF newValidators, FoldLeft, MapThenFoldSet
<1>2. DOMAIN <<>> = {}
  OBVIOUS
<1>3. Eq(g)
  BY <1>2
<1>4. Eq(p)
  <2> HIDE DEF Eq
  <2> QED BY <1>3
<1>5. p[{}] = <<>>
  BY <1>2, <1>4
<1> QED BY <1>1, <1>2, <1>5

LEMMA UpdateScoreType ==
  ASSUME NEW duration \in Int, NEW forwards \in Nat, NEW measured \in Measurements
  PROVE  UpdateScore(duration, forwards, measured) \in 0 .. 100 * OnlineMax * ForwardMax
<1> DEFINE top == 100 * OnlineMax * ForwardMax
           a == Min({duration, OnlineMax})
           b == Min({forwards, ForwardMax})
           u == 20 * measured.uptime - 10 * measured.latency
           e == 40 * a * ForwardMax + 30 * b * OnlineMax + u * OnlineMax * ForwardMax
           m == Min({top, e})
<1>0. OnlineMax \in Nat /\ ForwardMax \in Nat
  BY PoCAssumption
<1>1. top \in Nat
  BY <1>0
<1>2. a \in Int /\ b \in Int
  BY <1>0, MinTwo
<1>3. u \in Int
  BY PoCAssumption
<1>4. UpdateScore(duration, forwards, measured) = Max({0, m})
  BY DEF UpdateScore
<1> HIDE DEF a, b, u
<1>5. e \in Int
  <2>1. 40 * a * ForwardMax \in Int
    BY <1>0, <1>2
  <2>2. 30 * b * OnlineMax \in Int
    BY <1>0, <1>2
  <2>3. u * OnlineMax * ForwardMax \in Int
    BY <1>0, <1>3
  <2> QED BY <2>1, <2>2, <2>3
<1> HIDE DEF e, top
<1>6. m \in Int /\ m <= top
  BY <1>1, <1>5, MinTwo
<1> HIDE DEF m
<1>7. Max({0, m}) = IF 0 >= m THEN 0 ELSE m
  BY <1>6, MaxTwo
<1>8. Max({0, m}) \in 0 .. top
  BY <1>1, <1>6, <1>7
<1> QED BY <1>4, <1>8 DEF top

\* A peer with a connection has a score; nothing has returned that would seat
\* a validator.
PoCInv ==
    /\ PoCTypeOK /\ pocValidators = <<>>
    /\ \A n \in PoCNode : connections[n] # NoPeer => pocScores[n] \in PeerRec

LEMMA PoCInitOK == PoCInit => PoCInv
  BY PoCAssumption DEF PoCInit, PoCInv, PoCTypeOK

LEMMA PoCNextOK == PoCInv /\ [PoCNext]_pocVars => PoCInv'
<1> SUFFICES ASSUME PoCInv, [PoCNext]_pocVars PROVE PoCInv'
  OBVIOUS
<1>0. /\ connections \in [PoCNode -> Nat \cup {NoPeer}]
      /\ pocScores \in [PoCNode -> PeerRec \cup {NoPeer}]
      /\ pocValidators = <<>> /\ pocMutex \in {"free", "stuck"} /\ pocNow \in 0 .. PoCMaxTime
      /\ PoCMaxTime \in Nat /\ pocNow \in Nat
      /\ \A n \in PoCNode : connections[n] # NoPeer => pocScores[n] \in PeerRec
  BY PoCAssumption DEF PoCInv, PoCTypeOK, PeerRec
<1>1. ASSUME connections' \in [PoCNode -> Nat \cup {NoPeer}], pocScores' \in [PoCNode -> PeerRec \cup {NoPeer}],
             pocValidators' = <<>>, pocMutex' \in {"free", "stuck"}, pocNow' \in 0 .. PoCMaxTime,
             \A n \in PoCNode : connections'[n] # NoPeer => pocScores'[n] \in PeerRec
      PROVE  PoCInv'
  <2>1. PoCTypeOK'
    BY <1>1 DEF PoCTypeOK, PeerRec
  <2> QED BY <1>1, <2>1 DEF PoCInv, PeerRec
<1>2. ASSUME NEW n \in PoCNode, NEW t \in Nat, NEW r \in PeerRec,
             connections' = [connections EXCEPT ![n] = t], pocScores' = [pocScores EXCEPT ![n] = r],
             UNCHANGED <<pocValidators, pocMutex, pocNow>>
      PROVE  PoCInv'
  BY <1>0, <1>1, <1>2
<1>3. ASSUME NEW n \in PoCNode, TrackConnection(n) PROVE PoCInv'
  <2> DEFINE r == IF pocScores[n] = NoPeer THEN [score |-> 0, forwards |-> 0] ELSE pocScores[n]
  <2>1. r \in PeerRec
    <3>1. 100 * OnlineMax * ForwardMax \in Nat
      BY PoCAssumption
    <3>2. [score |-> 0, forwards |-> 0] \in PeerRec
      BY <3>1 DEF PeerRec
    <3> QED BY <1>0, <3>2
  <2>2. connections' = [connections EXCEPT ![n] = pocNow] /\ pocScores' = [pocScores EXCEPT ![n] = r]
        /\ UNCHANGED <<pocValidators, pocMutex, pocNow>>
    BY <1>3 DEF TrackConnection
  <2> HIDE DEF r
  <2> QED BY <1>0, <1>2, <2>1, <2>2
<1>4. ASSUME NEW n \in PoCNode, NEW measured \in Measurements, UpdateConnectionQuality(n, measured) PROVE PoCInv'
  <2> DEFINE old == pocScores[n]
             sc == UpdateScore(pocNow - connections[n], old.forwards, measured)
             r == [score |-> sc, forwards |-> old.forwards]
  <2>1. connections[n] # NoPeer /\ connections[n] \in Nat /\ old \in PeerRec
    BY <1>0, <1>4 DEF UpdateConnectionQuality
  <2>2. pocNow - connections[n] \in Int /\ old.forwards \in Nat
    BY <1>0, <2>1 DEF PeerRec
  <2>3. sc \in 0 .. 100 * OnlineMax * ForwardMax
    BY <2>2, UpdateScoreType
  <2>4. connections' = [connections EXCEPT ![n] = pocNow] /\ pocScores' = [pocScores EXCEPT ![n] = r]
        /\ UNCHANGED <<pocValidators, pocMutex, pocNow>>
    BY <1>4 DEF UpdateConnectionQuality
  <2> HIDE DEF sc, old
  <2>5. r \in PeerRec
    BY <2>2, <2>3 DEF PeerRec
  <2> HIDE DEF r
  <2> QED BY <1>0, <1>2, <2>4, <2>5
<1>5. ASSUME NEW n \in PoCNode, UpdateForwardCount(n) PROVE PoCInv'
  <2> DEFINE r == [pocScores[n] EXCEPT !.forwards = pocScores[n].forwards + 1]
  <2>1. pocScores[n] \in PeerRec
    BY <1>0, <1>5 DEF UpdateForwardCount
  <2>2. r \in PeerRec
    BY <2>1 DEF PeerRec
  <2>3. pocScores' = [pocScores EXCEPT ![n] = r] /\ UNCHANGED <<connections, pocValidators, pocMutex, pocNow>>
    BY <1>0, <1>5 DEF UpdateForwardCount
  <2> HIDE DEF r
  <2> QED BY <1>0, <1>1, <2>2, <2>3
<1>6. ASSUME NEW n \in PoCNode, RemovePeer(n) PROVE PoCInv'
  BY <1>0, <1>1, <1>6 DEF RemovePeer
<1>7. ASSUME NEW n \in PoCNode, EnforcePrefixLimit(extractPrefix[n], maxPerPrefix) PROVE PoCInv'
  <2>1. PICK removed : pocValidators' = newValidators(pocValidators, removed)
    BY <1>7 DEF EnforcePrefixLimit
  <2>2. pocValidators' = <<>>
    BY <1>0, <2>1, NothingLeft
  <2>3. UNCHANGED <<connections, pocScores, pocMutex, pocNow>>
    BY <1>7 DEF EnforcePrefixLimit
  <2> QED BY <1>0, <1>1, <2>2, <2>3
<1>8. ASSUME PoCUpdateValidators PROVE PoCInv'
  BY <1>0, <1>1, <1>8 DEF PoCUpdateValidators
<1>9. ASSUME PoCTick PROVE PoCInv'
  BY <1>0, <1>1, <1>9 DEF PoCTick
<1>10. ASSUME UNCHANGED pocVars PROVE PoCInv'
  BY <1>0, <1>1, <1>10 DEF pocVars
<1> QED BY <1>3, <1>4, <1>5, <1>6, <1>7, <1>8, <1>9, <1>10 DEF PoCNext

-----------------------------------------------------------------------------
(* All parts: a step of the whole is a step of one of them.                *)

EconomyInv == StakeInv /\ GovInv /\ ConsensusInv /\ PoCInv /\ WalletInv

LEMMA EconomyInitOK == EconomyInit => EconomyInv
  BY StakeInitOK, GovInitOK, ConsensusInitOK, PoCInitOK, WalletInitOK DEF EconomyInit, EconomyInv

LEMMA EconomyNextOK == EconomyInv /\ [EconomyNext]_allVars => EconomyInv'
<1> SUFFICES ASSUME EconomyInv, [EconomyNext]_allVars PROVE EconomyInv'
  OBVIOUS
<1>1. /\ [StakeNext]_stakeVars /\ [GovNext]_govVars /\ [ConsensusNext]_consensusVars
      /\ [PoCNext]_pocVars /\ [WalletNext]_walletVars
  BY DEF EconomyNext, allVars, ConsensusNext
<1> QED BY <1>1, StakeNextOK, GovNextOK, ConsensusNextOK, PoCNextOK, WalletNextOK DEF EconomyInv

LEMMA EconomyInvHolds == EconomySpec => []EconomyInv
  BY EconomyInitOK, EconomyNextOK, PTL DEF EconomySpec

\* The types of all parts: totals and tallies are words, the scores of proof
\* of connection stay between 0 and 100 (poc.go, UpdateScore), whatever is
\* measured, and the counts, nonces and heights are naturals.
THEOREM EconomyTypesCorrect == EconomySpec => []EconomyTypesOK
<1>1. EconomyInv => EconomyTypesOK
  <2>1. WalletInv => WalletTypeOK
    BY DEF WalletInv, WalletTypes, WalletTypeOK, AccountRec, BuildRec
  <2> QED BY <2>1 DEF EconomyInv, StakeInv, GovInv, ConsensusInv, PoCInv, EconomyTypesOK
<1> QED BY <1>1, EconomyInvHolds, PTL

\* Both selections of validators are what they should be, for every number of
\* nodes and every scores: the exchange sort of consensus.go seats the best in
\* order, whatever the order of the map it starts from, GetTopValidators of
\* poc.go passes over a better node only for the limit of its prefix, and the
\* count of a prefix in its monitor is the number of its devices.
THEOREM SelectionSoundCorrect == EconomySpec => []SelectionSound
<1>1. EconomyInv => SelectionSound
  <2> SUFFICES ASSUME EconomyInv PROVE SelectionSound
    OBVIOUS
  <2>1. ConsensusTypeOK /\ ValidatorsAreTop /\ CountsDevices /\ PoCTypeOK
    BY DEF EconomyInv, ConsensusInv, PoCInv
  <2>2. TopIsFair
    BY <2>1, InvTopIsFair
  <2> QED BY <2>1, <2>2 DEF SelectionSound
<1> QED BY <1>1, EconomyInvHolds, PTL

=============================================================================

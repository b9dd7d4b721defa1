------------------------------ MODULE MCEconomy ------------------------------
(***************************************************************************)
(* Stake, governance, the two consensus components and the wallet, in one  *)
(* run.  They share no state in the code, so one of them runs at a time:   *)
(* active says which.                                                      *)
(***************************************************************************)
EXTENDS StakePool, Governance, ConsensusEngine, PoCConsensus, Wallet, TLC

CONSTANTS p1, p2, x1, x2, n1, n2, n3, d1, d2, d3, prefixA, prefixB

\* One proposal that can be created, one whose deposit is too small.
MCProposalType == (p1 :> "parameter") @@ (p2 :> "fund")
MCFields       == (p1 :> {"parameter"}) @@ (p2 :> {"recipient", "amount"})
MCDeposit      == (p1 :> 1) @@ (p2 :> 0)
MCScore        == (x1 :> 1) @@ (x2 :> 0)
MCStaked       == (x1 :> 5) @@ (x2 :> 3)

MCEngineTx == {[hash |-> 1, valid |-> TRUE, expires |-> 0], [hash |-> 2, valid |-> FALSE, expires |-> 1]}
MCGetPrefix == (d1 :> prefixA) @@ (d2 :> prefixA) @@ (d3 :> prefixB)
MCextractPrefix == (n1 :> prefixA) @@ (n2 :> prefixA) @@ (n3 :> prefixB)
MCMeasurements == {[latency |-> 0, uptime |-> 1], [latency |-> 1, uptime |-> 0]}

-----------------------------------------------------------------------------

VARIABLE active

allVars == <<active, stakeVars, govVars, consensusVars, pocVars, walletVars>>

EconomyInit ==
    /\ active \in {"stake", "governance", "engine", "prefix", "poc", "wallet"}
    /\ StakeInit /\ GovInit /\ ConsensusInit /\ PoCInit /\ WalletInit
    \* A part that does not run is in one of its initial states.
    /\ active # "wallet" => passwordHash = NilHash

EconomyNext ==
    \/ /\ active = "stake" /\ StakeNext
       /\ UNCHANGED <<active, govVars, consensusVars, pocVars, walletVars>>
    \/ /\ active = "governance" /\ GovNext
       /\ UNCHANGED <<active, stakeVars, consensusVars, pocVars, walletVars>>
    \/ /\ active = "engine" /\ EngineNext
       /\ UNCHANGED <<active, stakeVars, govVars, pocVars, walletVars>>
    \/ /\ active = "prefix" /\ PrefixNext
       /\ UNCHANGED <<active, stakeVars, govVars, pocVars, walletVars>>
    \/ /\ active = "poc" /\ PoCNext
       /\ UNCHANGED <<active, stakeVars, govVars, consensusVars, walletVars>>
    \/ /\ active = "wallet" /\ WalletNext
       /\ UNCHANGED <<active, stakeVars, govVars, consensusVars, pocVars>>

EconomySpec == EconomyInit /\ [][EconomyNext]_allVars

\* The types of all parts: totals and tallies stay uint64, scores between 0
\* and 100, nonces, windows and counters within what the components store.
EconomyTypesOK == StakeTypeOK /\ GovTypeOK /\ ConsensusTypeOK /\ PoCTypeOK /\ WalletTypeOK

\* Both selections of validators choose the best within their limits, from
\* counts that are right.
SelectionSound == ValidatorsAreTop /\ CountsDevices /\ TopIsFair

=============================================================================

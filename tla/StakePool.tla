------------------------------ MODULE StakePool ------------------------------
(***************************************************************************)
(* pkg/stake: the stake pool, the validator manager that asks it, and the  *)
(* rewards.  Every method of the pool holds p.mu and every method of the   *)
(* manager m.mu, so one call is one step.                                  *)
(*                                                                         *)
(* StakeRecords are pointers.  The record of a full unstake is in the      *)
(* queue and in p.stakes at once: shared says that it still is, so that    *)
(* its change of status is seen through both.                              *)
(***************************************************************************)
EXTENDS Integers, Sequences, FiniteSets, SequencesExt, FiniteSetsExt

CONSTANTS
    Validator,
    NoRecord,           \* no entry in a map
    Amounts,            \* the amounts callers name
    MinStakeAmount,
    MinUnstakePeriod,   \* from staking to unstaking (7 days)
    UnstakePeriod,      \* from unstaking to its processing (21 days)
    StakeModulus,       \* 2^64
    OnlineWindow,       \* 90 days
    BaseReward,         \* the first block reward
    HalvingInterval,    \* the blocks of four years
    Heights,            \* the heights whose reward is distributed
    MaxEntered,         \* bound on what all validators stake
    MaxUnstakes,        \* bound on the requests that wait
    StakeMaxTime        \* bound on the clock

ASSUME StakeAssumption ==
    /\ IsFiniteSet(Validator)
    /\ StakeModulus \in Nat \ {0} /\ Amounts \subseteq 0 .. StakeModulus - 1
    /\ MinStakeAmount \in Nat \ {0}
    /\ MinUnstakePeriod \in Nat /\ UnstakePeriod \in Nat /\ OnlineWindow \in Nat \ {0}
    /\ BaseReward \in Nat /\ HalvingInterval \in Nat \ {0} /\ Heights \subseteq Nat
    /\ MaxEntered \in Nat /\ MaxUnstakes \in Nat /\ StakeMaxTime \in Nat

\* What every height satisfies, and the provers do not know of powers.
ASSUME PowerAssumption == \A height \in Heights : 2^(height \div HalvingInterval) \in Nat \ {0}

VARIABLES
    stakes,        \* p.stakes
    unstakes,      \* p.unstakes
    totalStaked,   \* p.totalStaked
    validators,    \* m.validators
    stakeNow,      \* the wall clock
    entered,       \* history: what each validator has staked
    leftWhole,     \* history: what has left it with a full unstake
    leftPart       \* history: what has left it with partial unstakes

stakeVars == <<stakes, unstakes, totalStaked, validators, stakeNow, entered, leftWhole, leftPart>>

StakeRecord == [amount : 0 .. StakeModulus - 1, since : Nat, status : {"active", "unstaking", "unstaked"}]
Unstaking == [who : Validator, amount : 0 .. StakeModulus - 1, at : Nat, whole : BOOLEAN, shared : BOOLEAN]
ValidatorInfo == [stake : Nat, online : Nat]

ASSUME NoRecordAssumption == NoRecord \notin StakeRecord \cup ValidatorInfo

StakeTypeOK ==
    /\ stakes \in [Validator -> StakeRecord \cup {NoRecord}]
    /\ unstakes \in Seq(Unstaking)
    /\ totalStaked \in 0 .. StakeModulus - 1
    /\ validators \in [Validator -> ValidatorInfo \cup {NoRecord}]
    /\ stakeNow \in 0 .. StakeMaxTime
    /\ entered \in [Validator -> 0 .. MaxEntered]
    /\ leftWhole \in [Validator -> Nat] /\ leftPart \in [Validator -> Nat]

StakeInit ==
    /\ stakes = [v \in Validator |-> NoRecord]
    /\ unstakes = <<>>
    /\ totalStaked = 0
    /\ validators = [v \in Validator |-> NoRecord]
    /\ stakeNow = 0
    /\ entered = [v \in Validator |-> 0]
    /\ leftWhole = [v \in Validator |-> 0]
    /\ leftPart = [v \in Validator |-> 0]

-----------------------------------------------------------------------------

IsActive(v) == stakes[v] # NoRecord /\ stakes[v].status = "active"

\* GetValidatorStake: a record that is not active counts nothing.
GetValidatorStake(v) == IF IsActive(v) THEN stakes[v].amount ELSE 0

\* An active record grows, wraps as a uint64 does, and keeps its StakeTime; a
\* record that has been unstaked is replaced.
Stake(v, amount) ==
    /\ amount >= MinStakeAmount
    /\ stakes[v] # NoRecord => stakes[v].status # "unstaking"
    /\ MapThenSumSet(LAMBDA w : entered[w], Validator) + amount <= MaxEntered
    /\ stakes' = [stakes EXCEPT ![v] =
          [amount |-> (GetValidatorStake(v) + amount) % StakeModulus,
           since |-> IF IsActive(v) THEN stakes[v].since ELSE stakeNow,
           status |-> "active"]]
    /\ totalStaked' = (totalStaked + amount) % StakeModulus
    /\ entered' = [entered EXCEPT ![v] = @ + amount]
    /\ UNCHANGED <<unstakes, validators, stakeNow, leftWhole, leftPart>>

\* Nothing refuses a request for an amount of 0.
MayUnstake(v, amount) ==
    /\ Len(unstakes) < MaxUnstakes
    /\ IsActive(v)
    /\ amount <= stakes[v].amount
    /\ stakeNow - stakes[v].since >= MinUnstakePeriod

Queued(v, amount, whole) ==
    Append(unstakes, [who |-> v, amount |-> amount, at |-> stakeNow, whole |-> whole, shared |-> whole])

UnstakeWhole(v, amount) ==
    /\ MayUnstake(v, amount)
    /\ amount = stakes[v].amount
    /\ stakes' = [stakes EXCEPT ![v].status = "unstaking"]
    /\ unstakes' = Queued(v, amount, TRUE)
    /\ UNCHANGED <<totalStaked, validators, stakeNow, entered, leftWhole, leftPart>>

\* Mutant: the record keeps what has been queued.
UnstakePartTwice(v, amount) ==
    /\ MayUnstake(v, amount)
    /\ amount < stakes[v].amount
    /\ unstakes' = Queued(v, amount, FALSE)
    /\ totalStaked' = (totalStaked - amount) % StakeModulus
    /\ UNCHANGED <<stakes, validators, stakeNow, entered, leftWhole, leftPart>>

UnstakePart(v, amount) ==
    /\ MayUnstake(v, amount)
    /\ amount < stakes[v].amount
    /\ stakes' = [stakes EXCEPT ![v].amount = @ - amount]
    /\ unstakes' = Queued(v, amount, FALSE)
    /\ totalStaked' = (totalStaked - amount) % StakeModulus
    /\ UNCHANGED <<validators, stakeNow, entered, leftWhole, leftPart>>

Due(u) == stakeNow - u.at >= UnstakePeriod

\* Mutant: a full unstake stays in the total.
LeavesInPart(total, u) == IF u.whole THEN total ELSE (total - u.amount) % StakeModulus

\* Every processed record is subtracted from the total.
Leaves(total, u) == (total - u.amount) % StakeModulus

\* Mutant: the status is set on a copy of the record.
ProcessOneOnCopy(pool, u) ==
    LET original == pool.stakes[u.who]
        deletes == ~ u.shared /\ original # NoRecord /\ original.status = "unstaking"
    IN  [stakes |-> [pool.stakes EXCEPT ![u.who] = IF deletes THEN NoRecord ELSE @],
         orphans |-> IF deletes THEN pool.orphans \cup {u.who} ELSE pool.orphans,
         total |-> Leaves(pool.total, u)]

\* One record of the loop.  A shared record is marked in p.stakes too, so the
\* test for an unstaking original fails and it stays there; the record of
\* another request finds the original unstaking and deletes it.
ProcessOne(pool, u) ==
    LET original == pool.stakes[u.who]
        deletes == ~ u.shared /\ original # NoRecord /\ original.status = "unstaking"
    IN  [stakes |-> [pool.stakes EXCEPT ![u.who] =
             IF deletes THEN NoRecord ELSE IF u.shared THEN [@ EXCEPT !.status = "unstaked"] ELSE @],
         orphans |-> IF deletes THEN pool.orphans \cup {u.who} ELSE pool.orphans,
         total |-> Leaves(pool.total, u)]

\* The queue is in the order of the requests, so what is due is a prefix.  A
\* record whose entry was deleted within the loop is no longer shared.
ProcessFold(pool, u) ==
    ProcessOne(pool, [u EXCEPT !.shared = @ /\ u.who \notin pool.orphans])

SumOf(v, us, whole) ==
    MapThenSumSet(LAMBDA i : IF us[i].who = v /\ us[i].whole = whole THEN us[i].amount ELSE 0, DOMAIN us)

\* The records of the queue that are due and those that are not, in order.
Parted(us, isDue) == FoldLeft(LAMBDA part, u : IF Due(u) = isDue THEN Append(part, u) ELSE part, <<>>, us)

ProcessUnstakes ==
    LET due == Parted(unstakes, TRUE)
        rest == Parted(unstakes, FALSE)
        pool == FoldLeft(ProcessFold, [stakes |-> stakes, orphans |-> {}, total |-> totalStaked], due)
    IN  /\ due # <<>>
        /\ stakes' = pool.stakes
        /\ totalStaked' = pool.total
        /\ unstakes' = [i \in DOMAIN rest |->
                           [rest[i] EXCEPT !.shared = @ /\ rest[i].who \notin pool.orphans]]
        /\ leftWhole' = [v \in Validator |-> leftWhole[v] + SumOf(v, due, TRUE)]
        /\ leftPart' = [v \in Validator |-> leftPart[v] + SumOf(v, due, FALSE)]
        /\ UNCHANGED <<validators, stakeNow, entered>>

-----------------------------------------------------------------------------
(* The validator manager and the rewards.                                  *)

\* The stake is read when the validator is added; an update touches only
\* LastOnlineTime.
AddOrUpdateValidator(v) ==
    /\ validators[v] = NoRecord
    /\ validators' = [validators EXCEPT ![v] = [stake |-> GetValidatorStake(v), online |-> 0]]
    /\ UNCHANGED <<stakes, unstakes, totalStaked, stakeNow, entered, leftWhole, leftPart>>

\* Online times are bounded by the window: beyond it no score tells them apart.
UpdateOnlineTime(v, duration) ==
    /\ validators[v] # NoRecord
    /\ validators[v].online + duration <= OnlineWindow + 1
    /\ validators' = [validators EXCEPT ![v].online = @ + duration]
    /\ UNCHANGED <<stakes, unstakes, totalStaked, stakeNow, entered, leftWhole, leftPart>>

RemoveValidator(v) ==
    /\ validators[v] # NoRecord
    /\ validators' = [validators EXCEPT ![v] = NoRecord]
    /\ UNCHANGED <<stakes, unstakes, totalStaked, stakeNow, entered, leftWhole, leftPart>>

\* Mutant: the score of the time online has no maximum.
calculateOnlineScoreUncapped(online) == online

\* calculateOnlineScore and calculateStakeScore, times OnlineWindow and
\* MinStakeAmount: at most 1 and at most 2.
calculateOnlineScore(online) == Min({online, OnlineWindow})
calculateStakeScore(stake) == Min({stake, 2 * MinStakeAmount})

\* The reward halves and never falls below one.
calculateBlockRewardByHeight(height) == Max({BaseReward \div 2^(height \div HalvingInterval), 1})

\* Six tenths for the time online, four for the stake.
Weight(v) ==
    6 * calculateOnlineScore(validators[v].online) * MinStakeAmount
      + 4 * calculateStakeScore(validators[v].stake) * OnlineWindow

\* Mutant: the share is of the best score.
CalculateRewardDistributionOfBest(registered, totalReward) ==
    [v \in registered |-> (totalReward * Weight(v)) \div Max({Weight(w) : w \in registered} \cup {1})]

\* Nothing is paid when all weights are zero; all registered validators are active.
CalculateRewardDistribution(registered, totalReward) ==
    LET totalWeight == MapThenSumSet(Weight, registered)
    IN  [v \in registered |-> IF totalWeight > 0 THEN (totalReward * Weight(v)) \div totalWeight ELSE 0]

StakeTick ==
    /\ stakeNow < StakeMaxTime
    /\ stakeNow' = stakeNow + 1
    /\ UNCHANGED <<stakes, unstakes, totalStaked, validators, entered, leftWhole, leftPart>>

StakeNext ==
    \/ \E v \in Validator, amount \in Amounts :
          Stake(v, amount) \/ UnstakeWhole(v, amount) \/ UnstakePart(v, amount)
    \/ ProcessUnstakes
    \/ \E v \in Validator : AddOrUpdateValidator(v) \/ UpdateOnlineTime(v, 1) \/ RemoveValidator(v)
    \/ StakeTick

StakeSpec == StakeInit /\ [][StakeNext]_stakeVars

-----------------------------------------------------------------------------
(* Properties.                                                             *)

Registered == {v \in Validator : validators[v] # NoRecord}

\* No stake is lost and none leaves twice: what a validator has staked is
\* its active stake, what waits in the queue, and what has left, as far as a
\* uint64 tells.
StakeConserved ==
    \A v \in Validator :
        (entered[v] - (GetValidatorStake(v) + SumOf(v, unstakes, TRUE) + SumOf(v, unstakes, FALSE)
                          + leftWhole[v] + leftPart[v])) % StakeModulus = 0

\* GetTotalStaked reports the active stake and the full unstakes that wait,
\* until the first partial unstake is processed.  (From then on it reports
\* less: a partial unstake is subtracted when it is requested and again when
\* it is processed.)
TotalUntilPart ==
    (\A v \in Validator : leftPart[v] = 0) =>
        totalStaked = MapThenSumSet(LAMBDA v : GetValidatorStake(v) + SumOf(v, unstakes, TRUE),
                                    Validator) % StakeModulus

\* A record that is unstaking is the one record of the queue that is shared
\* with p.stakes, so no record stays unstaking without being queued.
UnstakingIsQueued ==
    \A v \in Validator :
        LET sharedOnes == {i \in DOMAIN unstakes : unstakes[i].who = v /\ unstakes[i].shared}
        IN  IF stakes[v] # NoRecord /\ stakes[v].status = "unstaking"
            THEN \E i \in sharedOnes : sharedOnes = {i} /\ unstakes[i].amount = stakes[v].amount
            ELSE sharedOnes = {}

\* The stake is accounted for: by validator, in the total, and between the
\* queue and the map that share its records.
StakesAccounted == StakeConserved /\ TotalUntilPart /\ UnstakingIsQueued

\* The shares of a block reward never add up to more than the reward.
NeverOverpaid ==
    \A height \in Heights :
        LET reward == calculateBlockRewardByHeight(height)
            paid == CalculateRewardDistribution(Registered, reward)
        IN  MapThenSumSet(LAMBDA v : paid[v], Registered) <= reward

\* The scores are capped: no stake and no time online earns a larger share
\* than the whole window online with twice the minimum stake.
ShareCapped ==
    \A height \in Heights : \A v, w \in Registered :
        LET paid == CalculateRewardDistribution(Registered, calculateBlockRewardByHeight(height))
        IN  validators[w].online >= OnlineWindow /\ validators[w].stake >= 2 * MinStakeAmount
                => paid[v] <= paid[w]

\* A block reward is shared out within its amount and within the caps.
SharesFair == NeverOverpaid /\ ShareCapped

=============================================================================

--------------------------- MODULE ConsensusEngine ---------------------------
(***************************************************************************)
(* pkg/consensus/consensus.go: the engine's contributions, its validator   *)
(* set, its pending transactions and its chain head, and the monitor of    *)
(* address prefixes.  Every method holds ce.mu, or pm.mu of the monitor.   *)
(*                                                                         *)
(* Scores are ten times as large as in the code and in units of            *)
(* 1 / (Window * Gigabyte), so that they are integers.                     *)
(***************************************************************************)
EXTENDS Sorting

CONSTANTS
    PeerID,          \* the nodes that contribute
    NoContribution,
    Window,          \* OnlineWindow: 90 days
    Gigabyte,        \* the forwarded bytes that count in full
    ValidatorCount,
    EngineTx,        \* transactions: records [hash, valid, expires]
    MaxHeight,       \* bound on block heights
    Device,          \* addresses
    GetPrefix,       \* the prefix of every address
    NoCount,         \* no entry in prefixCounts
    MaxDevices,      \* bound on registrations of one device
    EngineMaxTime    \* bound on the clock

ASSUME EngineAssumption ==
    /\ IsFiniteSet(PeerID) /\ IsFiniteSet(Device)
    /\ Window \in Nat \ {0} /\ Gigabyte \in Nat \ {0} /\ ValidatorCount \in Nat
    /\ \A tx \in EngineTx : tx.valid \in BOOLEAN /\ tx.expires \in Nat
    /\ MaxHeight \in Nat /\ MaxDevices \in Nat /\ EngineMaxTime \in Nat
    /\ NoCount \notin Nat

VARIABLES
    contributions,   \* ce.contributions
    validatorSet,    \* ce.validators.Validators
    engineTxs,       \* ce.transactions
    chainHead,       \* the height of ce.chainHead, or -1
    engineNow,       \* the wall clock
    prefixCounts,    \* pm.prefixCounts
    live,            \* history: registrations less unregistrations of every device
    matched          \* history: whether every unregistration had its registration

engineVars == <<contributions, validatorSet, engineTxs, chainHead, engineNow>>
prefixVars == <<prefixCounts, live, matched>>
consensusVars == <<engineVars, prefixVars>>

Contribution == [online : Nat, loss : {0, 1}, forwarded : Nat, score : Nat]
Prefix == {GetPrefix[d] : d \in Device}

ConsensusTypeOK ==
    /\ contributions \in [PeerID -> Contribution \cup {NoContribution}]
    /\ validatorSet \in Seq(PeerID)
    /\ engineTxs \subseteq EngineTx
    /\ chainHead \in -1 .. MaxHeight
    /\ engineNow \in 0 .. EngineMaxTime
    /\ prefixCounts \in [Prefix -> Nat \cup {NoCount}]
    /\ live \in [Device -> 0 .. MaxDevices]
    /\ matched \in BOOLEAN

ConsensusInit ==
    /\ contributions = [n \in PeerID |-> NoContribution]
    /\ validatorSet = <<>>
    /\ engineTxs = {}
    /\ chainHead = -1
    /\ engineNow = 0
    /\ prefixCounts = [p \in Prefix |-> NoCount]
    /\ live = [d \in Device |-> 0]
    /\ matched = TRUE

-----------------------------------------------------------------------------

NewNodeContribution == [online |-> 0, loss |-> 0, forwarded |-> 0, score |-> 0]

calculateScoreLocked(c) ==
    [c EXCEPT !.score = 6 * Min({c.online, Window}) * Gigabyte
                          + (1 - c.loss) * Window * Gigabyte
                          + 3 * Min({c.forwarded, Gigabyte}) * Window]

\* UpdateOnlineTime, UpdatePacketLoss and AddForwardedBytes: the update
\* functions; counters are bounded at or just above what the score tells apart.
Updates(c) ==
    {calculateScoreLocked([c EXCEPT !.loss = l]) : l \in {0, 1}}
      \cup (IF c.online <= Window THEN {calculateScoreLocked([c EXCEPT !.online = @ + 1])} ELSE {})
      \cup (IF c.forwarded < Gigabyte THEN {calculateScoreLocked([c EXCEPT !.forwarded = @ + 1])} ELSE {})

\* The node with the higher score comes first.
ByScore(score) == {p \in (DOMAIN score) \X (DOMAIN score) : score[p[1]] > score[p[2]]}

\* ValidatorSet.UpdateValidators on the nodes in the order of the map.
UpdateValidators(nodes, score) ==
    SubSeq(ExchangeSort(nodes, ByScore(score)), 1, Min({ValidatorCount, Len(nodes)}))

UpdateContribution(node, c) ==
    LET updated == [contributions EXCEPT ![node] = c]
        known == {n \in PeerID : updated[n] # NoContribution}
        score == [n \in known |-> updated[n].score]
    IN  /\ contributions' = updated
        /\ \E nodes \in SetToSeqs(known) : validatorSet' = UpdateValidators(nodes, score)
        /\ UNCHANGED <<engineTxs, chainHead, engineNow, prefixVars>>

\* ValidateTransaction, and no duplicates.  Nothing removes a transaction.
EngineAddTransaction(tx) ==
    /\ tx.valid /\ engineNow <= tx.expires
    /\ tx \notin engineTxs
    /\ engineTxs' = engineTxs \cup {tx}
    /\ UNCHANGED <<contributions, validatorSet, chainHead, engineNow, prefixVars>>

EngineSetChainHead(height) ==
    /\ height > chainHead
    /\ chainHead' = height
    /\ UNCHANGED <<contributions, validatorSet, engineTxs, engineNow, prefixVars>>

EngineTick ==
    /\ engineNow < EngineMaxTime
    /\ engineNow' = engineNow + 1
    /\ UNCHANGED <<contributions, validatorSet, engineTxs, chainHead, prefixVars>>

-----------------------------------------------------------------------------
(* The prefix monitor knows counts and no devices.                         *)

RegisterPrefix(d) ==
    /\ live[d] < MaxDevices
    /\ prefixCounts' = [prefixCounts EXCEPT ![GetPrefix[d]] = IF @ = NoCount THEN 1 ELSE @ + 1]
    /\ live' = [live EXCEPT ![d] = @ + 1]
    /\ UNCHANGED <<matched, engineVars>>

\* Mutant: the entry goes one device early.
WithoutOneEarly(count) == IF count <= 2 THEN NoCount ELSE count - 1

WithoutOne(count) == IF count <= 1 THEN NoCount ELSE count - 1

UnregisterPrefix(d) ==
    /\ prefixCounts[GetPrefix[d]] # NoCount
    /\ prefixCounts' = [prefixCounts EXCEPT ![GetPrefix[d]] = WithoutOne(@)]
    /\ matched' = (matched /\ live[d] > 0)
    /\ live' = [live EXCEPT ![d] = Max({@ - 1, 0})]
    /\ UNCHANGED engineVars

EngineNext ==
    \/ \E n \in PeerID : \E c \in
          Updates(IF contributions[n] = NoContribution THEN NewNodeContribution ELSE contributions[n]) :
              UpdateContribution(n, c)
    \/ \E tx \in EngineTx : EngineAddTransaction(tx)
    \/ \E height \in 0 .. MaxHeight : EngineSetChainHead(height)
    \/ EngineTick

PrefixNext == \E d \in Device : RegisterPrefix(d) \/ UnregisterPrefix(d)

ConsensusNext == EngineNext \/ PrefixNext

ConsensusSpec == ConsensusInit /\ [][ConsensusNext]_consensusVars

-----------------------------------------------------------------------------
(* Properties.                                                             *)

\* The validator set is the best contributors, in order of their scores: as
\* many as there are, up to ValidatorCount, none twice, and nobody outside
\* has a higher score than the last of them, whatever was updated since.
ValidatorsAreTop ==
    LET known == {n \in PeerID : contributions[n] # NoContribution}
        seats == DOMAIN validatorSet
    IN  /\ Len(validatorSet) = Min({ValidatorCount, Cardinality(known)})
        /\ Cardinality(Range(validatorSet)) = Len(validatorSet)
        /\ \A i, j \in seats : i < j =>
              contributions[validatorSet[i]].score >= contributions[validatorSet[j]].score
        /\ \A i \in seats : \A n \in known \ Range(validatorSet) :
              contributions[validatorSet[i]].score >= contributions[n].score

\* As long as only registered devices are unregistered, the count that lowers
\* the reward of a prefix is the number of its devices.
CountsDevices ==
    matched => \A p \in Prefix :
        LET devices == MapThenSumSet(LAMBDA d : IF GetPrefix[d] = p THEN live[d] ELSE 0, Device)
        IN  prefixCounts[p] = IF devices = 0 THEN NoCount ELSE devices

=============================================================================

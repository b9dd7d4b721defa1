---------------------------- MODULE PoCConsensus ----------------------------
(***************************************************************************)
(* pkg/consensus/poc.go: proof of connection.  Every method holds poc.mu.  *)
(* UpdateValidators holds it and calls GetTopValidators, which asks for it *)
(* again: the call never returns, and no later call does.                  *)
(*                                                                         *)
(* Scores are in units of 1 / (OnlineMax * ForwardMax).  A measurement is  *)
(* the latency and the uptime ratio, each 0 or 1 of its maximum.           *)
(***************************************************************************)
EXTENDS Integers, Sequences, FiniteSets, SequencesExt, FiniteSetsExt

CONSTANTS
    PoCNode,
    extractPrefix,    \* the prefix of every node
    NoPeer,           \* no entry in a map
    OnlineMax,        \* OnlineWindow
    ForwardMax,       \* the forwards that count in full (a million)
    Measurements,     \* records [latency, uptime]
    validatorCount,
    maxPerPrefix,     \* 8
    PoCMaxTime        \* bound on the clock

ASSUME PoCAssumption ==
    /\ IsFiniteSet(PoCNode)
    /\ OnlineMax \in Nat \ {0} /\ ForwardMax \in Nat \ {0}
    /\ Measurements \subseteq [latency : {0, 1}, uptime : {0, 1}]
    /\ validatorCount \in Nat /\ maxPerPrefix \in Nat /\ PoCMaxTime \in Nat

VARIABLES
    connections,     \* poc.connections: LastSeen of every peer
    pocScores,       \* poc.contributions
    pocValidators,   \* poc.validators
    pocMutex,        \* poc.mu: "free", or "stuck" in UpdateValidators
    pocNow           \* the wall clock

pocVars == <<connections, pocScores, pocValidators, pocMutex, pocNow>>

PoCTypeOK ==
    /\ connections \in [PoCNode -> Nat \cup {NoPeer}]
    /\ pocScores \in [PoCNode -> [score : 0 .. 100 * OnlineMax * ForwardMax,
                                  forwards : Nat] \cup {NoPeer}]
    /\ pocValidators \in Seq(PoCNode)
    /\ pocMutex \in {"free", "stuck"}
    /\ pocNow \in 0 .. PoCMaxTime

PoCInit ==
    /\ connections = [n \in PoCNode |-> NoPeer]
    /\ pocScores = [n \in PoCNode |-> NoPeer]
    /\ pocValidators = <<>>
    /\ pocMutex = "free"
    /\ pocNow = 0

-----------------------------------------------------------------------------

TrackConnection(n) ==
    /\ pocMutex = "free"
    /\ connections[n] = NoPeer
    /\ connections' = [connections EXCEPT ![n] = pocNow]
    /\ pocScores' = [pocScores EXCEPT ![n] = IF @ = NoPeer THEN [score |-> 0, forwards |-> 0] ELSE @]
    /\ UNCHANGED <<pocValidators, pocMutex, pocNow>>

\* Mutant: the latency is subtracted after the limits are applied.
UpdateScoreUnclamped(duration, forwards, measured) ==
    Min({100 * OnlineMax * ForwardMax,
         40 * Min({duration, OnlineMax}) * ForwardMax + 30 * Min({forwards, ForwardMax}) * OnlineMax
           + 20 * measured.uptime * OnlineMax * ForwardMax})
      - 10 * measured.latency * OnlineMax * ForwardMax

UpdateScore(duration, forwards, measured) ==
    Max({0, Min({100 * OnlineMax * ForwardMax,
         40 * Min({duration, OnlineMax}) * ForwardMax + 30 * Min({forwards, ForwardMax}) * OnlineMax
           + (20 * measured.uptime - 10 * measured.latency) * OnlineMax * ForwardMax})})

\* The connection time is the time since the last update, not since the start.
UpdateConnectionQuality(n, measured) ==
    /\ pocMutex = "free"
    /\ connections[n] # NoPeer
    /\ connections' = [connections EXCEPT ![n] = pocNow]
    /\ pocScores' = [pocScores EXCEPT ![n] =
          [score |-> UpdateScore(pocNow - connections[n], @.forwards, measured),
           forwards |-> @.forwards]]
    /\ UNCHANGED <<pocValidators, pocMutex, pocNow>>

\* The count enters the score with the next update of the connection.
UpdateForwardCount(n) ==
    /\ pocMutex = "free"
    /\ pocScores[n] # NoPeer
    /\ pocScores[n].forwards < ForwardMax
    /\ pocScores' = [pocScores EXCEPT ![n].forwards = @ + 1]
    /\ UNCHANGED <<connections, pocValidators, pocMutex, pocNow>>

\* The validators keep a removed peer.
RemovePeer(n) ==
    /\ pocMutex = "free"
    /\ connections[n] # NoPeer
    /\ connections' = [connections EXCEPT ![n] = NoPeer]
    /\ pocScores' = [pocScores EXCEPT ![n] = NoPeer]
    /\ UNCHANGED <<pocValidators, pocMutex, pocNow>>

Tracked == {n \in PoCNode : pocScores[n] # NoPeer}

\* The places of a list that hold nodes of a prefix; prefixCounts of the code
\* is their number.
OfPrefix(nodes, p) == {i \in DOMAIN nodes : extractPrefix[nodes[i]] = p}

\* Mutant: one more than the limit is let in.
LimitedPlusOne(kept, n) ==
    IF Cardinality(OfPrefix(kept, extractPrefix[n])) <= maxPerPrefix THEN Append(kept, n) ELSE kept

Limited(kept, n) ==
    IF Cardinality(OfPrefix(kept, extractPrefix[n])) < maxPerPrefix THEN Append(kept, n) ELSE kept

applyPrefixLimits(nodes) == FoldLeft(Limited, <<>>, nodes)

\* The orders in which sort.Slice may leave the nodes: it is not stable.
Descending ==
    {s \in SetToSeqs(Tracked) : \A i, j \in DOMAIN s : i < j => pocScores[s[i]].score >= pocScores[s[j]].score}

PoCTopValidators(count) ==
    {SubSeq(applyPrefixLimits(s), 1, Min({count, Len(applyPrefixLimits(s))})) : s \in Descending}

PoCUpdateValidators ==
    /\ pocMutex = "free"
    /\ pocMutex' = "stuck"
    /\ UNCHANGED <<connections, pocScores, pocValidators, pocNow>>

ScoreOf(n) == IF pocScores[n] = NoPeer THEN 0 ELSE pocScores[n].score

\* The rebuilt list of validators.
newValidators(nodes, removed) ==
    FoldLeft(LAMBDA left, v : IF v \in removed THEN left ELSE Append(left, v), <<>>, nodes)

\* The lowest scores of the prefix go.
EnforcePrefixLimit(prefix, maxNodes) ==
    LET members == {pocValidators[i] : i \in OfPrefix(pocValidators, prefix)}
        toRemove == Cardinality(members) - maxNodes
    IN  /\ pocMutex = "free"
        /\ \E removed \in kSubset(Max({toRemove, 0}), members) :
              /\ \A v \in removed, w \in members \ removed : ScoreOf(v) <= ScoreOf(w)
              /\ pocValidators' = newValidators(pocValidators, removed)
        /\ UNCHANGED <<connections, pocScores, pocMutex, pocNow>>

PoCTick ==
    /\ pocNow < PoCMaxTime
    /\ pocNow' = pocNow + 1
    /\ UNCHANGED <<connections, pocScores, pocValidators, pocMutex>>

PoCNext ==
    \/ \E n \in PoCNode :
          \/ TrackConnection(n)
          \/ \E measured \in Measurements : UpdateConnectionQuality(n, measured)
          \/ UpdateForwardCount(n)
          \/ RemovePeer(n)
          \/ EnforcePrefixLimit(extractPrefix[n], maxPerPrefix)
    \/ PoCUpdateValidators
    \/ PoCTick

PoCSpec == PoCInit /\ [][PoCNext]_pocVars

-----------------------------------------------------------------------------
(* Properties.                                                             *)

\* Whatever order the sort leaves equal scores in, GetTopValidators answers
\* at most maxPerPrefix nodes of a prefix, best first, and passes over a
\* better node only when the prefix of that node is full.
TopIsFair ==
    \A top \in PoCTopValidators(validatorCount) :
        /\ \A n \in PoCNode : Cardinality(OfPrefix(top, extractPrefix[n])) <= maxPerPrefix
        /\ \A i \in DOMAIN top : \A n \in Tracked \ Range(top) :
              pocScores[n].score > pocScores[top[i]].score
                  => Cardinality(OfPrefix(top, extractPrefix[n])) = maxPerPrefix

=============================================================================

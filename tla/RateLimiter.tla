----------------------------- MODULE RateLimiter -----------------------------
(***************************************************************************)
(* pkg/p2p/p2p.go: the sliding window of a RateLimiter.  Allow looks and   *)
(* Record counts, each under the lock for itself: a caller that was        *)
(* allowed sends and is counted later.                                     *)
(***************************************************************************)
EXTENDS Integers, FiniteSets, SequencesExt

CONSTANTS
    RateCallers,
    maxMessages,    \* maxMessagesPerSecond
    Window,         \* one second, in ticks of the clock
    RateMaxTime     \* bound on the clock

ASSUME RateAssumption ==
    /\ maxMessages \in Nat \ {0} /\ Window \in Nat \ {0} /\ RateMaxTime \in Nat
    /\ IsFiniteSet(RateCallers)

VARIABLES messages, allowed, rateNow

rateVars == <<messages, allowed, rateNow>>

RateInit == messages = <<>> /\ allowed = {} /\ rateNow = 0

InWindow ==
    FoldLeft(LAMBDA valid, t : IF t > rateNow - Window THEN Append(valid, t) ELSE valid, <<>>, messages)

\* Mutant: one more than the limit.
UnderLimitOrAt(n) == n <= maxMessages

UnderLimit(n) == n < maxMessages

\* Allow drops what left the window; a refused caller gives up.
Allow(c) ==
    /\ c \notin allowed
    /\ messages' = InWindow
    /\ allowed' = IF UnderLimit(Len(InWindow)) THEN allowed \cup {c} ELSE allowed
    /\ UNCHANGED rateNow

Record(c) ==
    /\ c \in allowed
    /\ messages' = Append(messages, rateNow)
    /\ allowed' = allowed \ {c}
    /\ UNCHANGED rateNow

RateTick ==
    /\ rateNow < RateMaxTime
    /\ rateNow' = rateNow + 1
    /\ UNCHANGED <<messages, allowed>>

RateNext == (\E c \in RateCallers : Allow(c) \/ Record(c)) \/ RateTick

RateSpec == RateInit /\ [][RateNext]_rateVars

RateTypeOK == messages \in Seq(0 .. RateMaxTime) /\ allowed \subseteq RateCallers

\* No second sees more messages than the limit and one for every other caller
\* (p2p.go:739-767): callers allowed together are counted together, after it.
RateBounded == Len(InWindow) + Cardinality(allowed) <= maxMessages + Cardinality(RateCallers) - 1

=============================================================================

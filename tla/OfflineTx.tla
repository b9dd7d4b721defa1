------------------------------ MODULE OfflineTx ------------------------------
(***************************************************************************)
(* pkg/tx/offline.go: the replay check of offline transactions.            *)
(*                                                                         *)
(* ValidateOfflineTx reads the clock three times and takes v.mu only for   *)
(* the last check, so calls interleave and time passes between the checks. *)
(* The key under which a transaction is remembered is its sender and nonce.*)
(***************************************************************************)
EXTENDS Integers, Sequences

CONSTANTS
    OfflineTxs,    \* the offline transactions: records [key, timestamp]
    Keys,          \* pairs of sender and nonce
    Callers,       \* the goroutines that validate
    NoInfo,        \* no entry in seenTransactions
    Periods,       \* the validity periods an operator may set
    SevenDays,     \* the one a new validator has
    Tolerances,    \* the tolerances an operator may set
    FiveMinutes,   \* the one a new validator has
    maxFutureTime, \* how far in the future a timestamp may be
    MaxAccepts,    \* bound on the acceptances of one key
    OfflineMaxTime \* bound on the clock

ASSUME OfflineTxsAssumption == OfflineTxs \subseteq [key : Keys, timestamp : Nat]
ASSUME OfflineBoundsAssumption ==
    /\ Periods \subseteq Nat /\ SevenDays \in Periods /\ Tolerances \subseteq Nat /\ FiveMinutes \in Tolerances
    /\ maxFutureTime \in Nat
    /\ MaxAccepts \in Nat /\ OfflineMaxTime \in Nat

VARIABLES
    seen,        \* seenTransactions: the ExpiryTime of a key
    validity,    \* validityPeriod
    tolerance,   \* clockSkewTolerance
    clock,       \* the wall clock
    offlinePC,   \* the check each caller makes next
    checking,    \* the transaction it validates
    accepts      \* history: the acceptances of each key, at what time and until when

offlineVars == <<seen, validity, tolerance, clock, offlinePC, checking, accepts>>

ASSUME NoInfoAssumption == NoInfo \notin Nat /\ NoInfo \notin OfflineTxs

OfflineTypeOK ==
    /\ seen \in [Keys -> Nat \cup {NoInfo}]
    /\ validity \in Periods /\ tolerance \in Tolerances
    /\ clock \in 0 .. OfflineMaxTime
    /\ offlinePC \in [Callers -> {"idle", "expiry", "replay"}]
    /\ checking \in [Callers -> OfflineTxs \cup {NoInfo}]
    /\ accepts \in [Keys -> Seq([at : Nat, until : Nat])]

OfflineInit ==
    /\ seen = [k \in Keys |-> NoInfo]
    /\ validity = SevenDays /\ tolerance = FiveMinutes
    /\ clock = 0
    /\ offlinePC = [c \in Callers |-> "idle"]
    /\ checking = [c \in Callers |-> NoInfo]
    /\ accepts = [k \in Keys |-> <<>>]

EndCall(c) ==
    /\ offlinePC' = [offlinePC EXCEPT ![c] = "idle"]
    /\ checking' = [checking EXCEPT ![c] = NoInfo]

\* validateTimestamp; a transaction that fails it changes nothing.
validateTimestamp(c, tx) ==
    /\ offlinePC[c] = "idle"
    /\ Len(accepts[tx.key]) < MaxAccepts
    /\ tx.timestamp # 0
    /\ tx.timestamp - clock <= maxFutureTime
    /\ clock - tx.timestamp <= validity + tolerance
    /\ offlinePC' = [offlinePC EXCEPT ![c] = "expiry"]
    /\ checking' = [checking EXCEPT ![c] = tx]
    /\ UNCHANGED <<seen, validity, tolerance, clock, accepts>>

\* validateExpiry, and validateNonce, whose answer does not change.
validateExpiry(c) ==
    /\ offlinePC[c] = "expiry"
    /\ IF clock - checking[c].timestamp > validity
       THEN EndCall(c)
       ELSE offlinePC' = [offlinePC EXCEPT ![c] = "replay"] /\ UNCHANGED checking
    /\ UNCHANGED <<seen, validity, tolerance, clock, accepts>>

IsReplay(key) == seen[key] # NoInfo /\ clock < seen[key]

\* Mutant: a second acceptance keeps the entry of the first.
AcceptKeeping(tx) ==
    /\ seen' = [seen EXCEPT ![tx.key] = IF seen[tx.key] = NoInfo THEN tx.timestamp + validity ELSE @]
    /\ accepts' = [accepts EXCEPT ![tx.key] =
            Append(@, [at |-> clock, until |-> tx.timestamp + validity])]

Accept(tx) ==
    /\ seen' = [seen EXCEPT ![tx.key] = tx.timestamp + validity]
    /\ accepts' = [accepts EXCEPT ![tx.key] =
            Append(@, [at |-> clock, until |-> tx.timestamp + validity])]

checkReplay(c) ==
    /\ offlinePC[c] = "replay"
    /\ IF IsReplay(checking[c].key) THEN UNCHANGED <<seen, accepts>> ELSE Accept(checking[c])
    /\ EndCall(c)
    /\ UNCHANGED <<validity, tolerance, clock>>

CleanupExpired ==
    LET expired == {k \in Keys : seen[k] # NoInfo /\ clock > seen[k]}
    IN  /\ expired # {}
        /\ seen' = [k \in Keys |-> IF k \in expired THEN NoInfo ELSE seen[k]]
        /\ UNCHANGED <<validity, tolerance, clock, offlinePC, checking, accepts>>

SetValidityPeriod(period) ==
    /\ period # validity
    /\ validity' = period
    /\ UNCHANGED <<seen, tolerance, clock, offlinePC, checking, accepts>>

SetClockSkewTolerance(t) ==
    /\ t # tolerance
    /\ tolerance' = t
    /\ UNCHANGED <<seen, validity, clock, offlinePC, checking, accepts>>

\* Reset forgets every acceptance, and so does the history.
OfflineReset ==
    /\ seen' = [k \in Keys |-> NoInfo]
    /\ accepts' = [k \in Keys |-> <<>>]
    /\ UNCHANGED <<validity, tolerance, clock, offlinePC, checking>>

OfflineTick ==
    /\ clock < OfflineMaxTime
    /\ clock' = clock + 1
    /\ UNCHANGED <<seen, validity, tolerance, offlinePC, checking, accepts>>

OfflineNext ==
    \/ \E c \in Callers, tx \in OfflineTxs : validateTimestamp(c, tx)
    \/ \E c \in Callers : validateExpiry(c) \/ checkReplay(c)
    \/ CleanupExpired
    \/ \E period \in Periods : SetValidityPeriod(period)
    \/ \E t \in Tolerances : SetClockSkewTolerance(t)
    \/ OfflineReset
    \/ OfflineTick

OfflineSpec == OfflineInit /\ [][OfflineNext]_offlineVars

-----------------------------------------------------------------------------

\* Within the window that an acceptance opens no other transaction of the
\* same sender and nonce is accepted, whoever validates it at the same time,
\* whatever is cleaned up and however period and tolerance are changed,
\* between two Resets.  At the end of the window the nonce, and even the same
\* transaction, is free again.
OncePerWindow ==
    \A k \in Keys : \A i, j \in DOMAIN accepts[k] :
        i < j => accepts[k][j].at >= accepts[k][i].until

=============================================================================

------------------------------- MODULE TxPool -------------------------------
(***************************************************************************)
(* pkg/tx/pool.go: the transactions that wait for a block.  A transaction  *)
(* is its hash; TxBody gives its content.                                  *)
(*                                                                         *)
(* Every method holds tp.mu from start to end, so one call is one step.    *)
(* The heap of container/heap is the set of its items: Less decides what   *)
(* heap.Pop takes, and an item that no other one beats may be at the top.  *)
(* The state database the pool asks is changed by the executor: the node   *)
(* puts pooled transactions into blocks, and tells the pool nothing of it. *)
(***************************************************************************)
EXTENDS Accounts

CONSTANTS
    Tx,            \* the hashes of all transactions there may be
    NoTx,          \* no transaction
    TxBody,        \* the transaction of every hash
    TxTimestamp,   \* its timestamp
    TxSize,        \* its size in bytes
    MinFee,        \* MinFeePerByte times its data and BaseTxSize
    Boosted,       \* whether its amount is above 1e12
    GasPrice,      \* its fee divided by the gas limit of its type
    Funded,        \* the senders known to the state database at first
    MaxPoolSize,   \* 10000
    MaxTTL,        \* seven days
    PoolMaxTime    \* bound on the clock

ASSUME TxAssumption == NoTx \notin Tx /\ Funded \subseteq Addr /\ TxBody \in [Tx -> Transaction]
ASSUME TxDataAssumption ==
    /\ TxTimestamp \in [Tx -> Nat] /\ TxSize \in [Tx -> Nat \ {0}] /\ MinFee \in [Tx -> Nat]
    /\ Boosted \in [Tx -> BOOLEAN] /\ GasPrice \in [Tx -> Nat]
ASSUME PoolBoundsAssumption ==
    MaxPoolSize \in Nat \ {0} /\ MaxTTL \in Nat \ {0} /\ PoolMaxTime \in Nat

SenderNonce == Addr \X Uint64

SenderKey(t) == <<TxBody[t].from, TxBody[t].nonce>>

VARIABLES
    pending,    \* TxPool.pending: the items of the heap
    all,        \* the keys of TxPool.all
    bySender,   \* TxPool.bySender: the item of a sender and a nonce
    addedAt,    \* TxPoolItem.AddedAt
    priority,   \* TxPoolItem.Priority times TxSize and a constant
    stateDB,    \* the accounts of the state database
    poolNow,    \* the wall clock
    twins       \* history: the keys that two pooled transactions have shared

poolVars == <<pending, all, bySender, addedAt, priority, stateDB, poolNow, twins>>

PoolTypeOK ==
    /\ pending \subseteq Tx
    /\ all \subseteq Tx
    /\ bySender \in [SenderNonce -> Tx \cup {NoTx}]
    /\ addedAt \in [Tx -> 0 .. PoolMaxTime]
    /\ priority \in [Tx -> Int]
    /\ stateDB \in AccountMap
    /\ poolNow \in 0 .. PoolMaxTime
    /\ twins \subseteq SenderNonce

\* NewTxPool, on a chain that has paid the funded senders.
PoolInit ==
    /\ pending = {}
    /\ all = {}
    /\ bySender = [k \in SenderNonce |-> NoTx]
    /\ addedAt = [t \in Tx |-> 0]
    /\ priority = [t \in Tx |-> 0]
    /\ stateDB = [a \in Addr |->
          IF a \in Funded THEN [NewAccount EXCEPT !.Balance = InitialBalance] ELSE NoAccount]
    /\ poolNow = 0
    /\ twins = {}

-----------------------------------------------------------------------------

\* The cost is a uint64 sum.
validateTx(t) ==
    /\ TxBody[t].type = "offline" => poolNow - TxTimestamp[t] <= MaxTTL
    /\ TxBody[t].fee >= MinFee[t]
    /\ stateDB[TxBody[t].from] # NoAccount
    /\ stateDB[TxBody[t].from].Balance >= (TxBody[t].amount + TxBody[t].fee) % Modulus
    /\ TxBody[t].nonce >= stateDB[TxBody[t].from].Nonce

\* fee / size * (1 + age / 2) * 1.5 if boosted, in units of 1 / (4 MaxTTL TxSize):
\* the age is a fraction of MaxTTL.
calculatePriority(t) ==
    TxBody[t].fee * (2 * MaxTTL + poolNow - TxTimestamp[t]) * (IF Boosted[t] THEN 3 ELSE 2)

\* TxPriorityQueue.Less: t comes before u.
TxLess(t, u) ==
    LET pt == priority[t] * TxSize[u]
        pu == priority[u] * TxSize[t]
    IN  \/ pt > pu
        \/ pt = pu /\ GasPrice[t] > GasPrice[u]
        \/ pt = pu /\ GasPrice[t] = GasPrice[u] /\ addedAt[t] < addedAt[u]

\* The top of the heap.
IsTop(t) == t \in pending /\ \A u \in pending : ~ TxLess(u, t)

\* Mutant: the sender's map goes although it is not empty.
SenderIndexWithoutSender(S) ==
    [k \in SenderNonce |-> IF k[1] \in {TxBody[t].from : t \in S} THEN NoTx ELSE bySender[k]]

\* The entries of the items in S go, whichever transaction they name.
SenderIndexWithout(S) ==
    [k \in SenderNonce |-> IF k \in {SenderKey(t) : t \in S} THEN NoTx ELSE bySender[k]]

\* Mutant: the items leave the heap only.
RemoveItemsFromHeap(S) ==
    /\ pending' = pending \ S
    /\ bySender' = SenderIndexWithout(S)
    /\ UNCHANGED <<all, addedAt, priority, stateDB, poolNow, twins>>

\* heap.Remove, delete from all, delete from the sender's map.
RemoveItems(S) ==
    /\ pending' = pending \ S
    /\ all' = all \ S
    /\ bySender' = SenderIndexWithout(S)
    /\ UNCHANGED <<addedAt, priority, stateDB, poolNow, twins>>

\* The items AddTransaction evicts: at the limit, what heap.Pop returns.
Evictable(S) ==
    IF Cardinality(pending) >= MaxPoolSize THEN \E t \in Tx : IsTop(t) /\ S = {t} ELSE S = {}

\* Mutant: the item remembers when it expires.
StampedWithExpiry(t) == [addedAt EXCEPT ![t] = poolNow + MaxTTL]

Stamped(t) == [addedAt EXCEPT ![t] = poolNow]

AddTransaction(t, evicted) ==
    /\ t \notin all
    /\ validateTx(t)
    /\ Evictable(evicted)
    /\ all' = (all \ evicted) \cup {t}
    /\ pending' = (pending \ evicted) \cup {t}
    /\ bySender' = [SenderIndexWithout(evicted) EXCEPT ![SenderKey(t)] = t]
    /\ addedAt' = Stamped(t)
    /\ priority' = [priority EXCEPT ![t] = calculatePriority(t)]
    /\ twins' = IF \E u \in pending \ evicted : SenderKey(u) = SenderKey(t)
                THEN twins \cup {SenderKey(t)} ELSE twins
    /\ UNCHANGED <<stateDB, poolNow>>

RemoveTransaction(t) == t \in all /\ RemoveItems({t})

\* Called with the text of the address: the 16 bytes themselves are no key of
\* bySender, and a call with them returns at once.
RemoveByNonce(a, nonce) ==
    LET found == {bySender[k] : k \in {a} \X {n \in Uint64 : n >= nonce}} \ {NoTx}
    IN  found # {} /\ RemoveItems(found)

CleanExpired ==
    LET expired == {t \in all : poolNow - addedAt[t] > MaxTTL}
    IN  expired # {} /\ RemoveItems(expired)

\* A block with a pooled transaction is executed.
ExecutePooled(t) ==
    /\ t \in pending
    /\ ExecuteSucceeds(stateDB, TxBody[t])
    /\ stateDB' = ExecuteTransaction(stateDB, TxBody[t])
    /\ UNCHANGED <<pending, all, bySender, addedAt, priority, poolNow, twins>>

PoolTick ==
    /\ poolNow < PoolMaxTime
    /\ poolNow' = poolNow + 1
    /\ UNCHANGED <<pending, all, bySender, addedAt, priority, stateDB, twins>>

PoolNext ==
    \/ \E t \in Tx, evicted \in {{}} \cup {{u} : u \in Tx} : AddTransaction(t, evicted)
    \/ \E t \in Tx : RemoveTransaction(t)
    \/ \E k \in SenderNonce : RemoveByNonce(k[1], k[2])
    \/ CleanExpired
    \/ \E t \in Tx : ExecutePooled(t)
    \/ PoolTick

PoolSpec == PoolInit /\ [][PoolNext]_poolVars

-----------------------------------------------------------------------------
(* Properties.                                                             *)

\* The three structures agree: the heap and the map hold the same
\* transactions, at most MaxPoolSize of them, and the sender index names only
\* pooled transactions, each under its own sender and nonce.  The index misses
\* a pooled transaction only where two transactions of one sender and nonce
\* have been pooled together: the second replaces the entry of the first, and
\* the removal of either deletes it.
PoolAgrees ==
    /\ pending = all
    /\ Cardinality(pending) <= MaxPoolSize
    /\ \A k \in SenderNonce : bySender[k] # NoTx => bySender[k] \in all /\ SenderKey(bySender[k]) = k
    /\ \A t \in all : bySender[SenderKey(t)] # t => SenderKey(t) \in twins

\* "When transaction pool is full, evict transactions by priority: 1. Lowest
\* priority": a transaction that makes room beats none that stays.
EvictsLowest ==
    [][\A t \in all \ all' : (all' \ all # {}) => \A u \in pending \ {t} : ~ TxLess(t, u)]_poolVars

=============================================================================

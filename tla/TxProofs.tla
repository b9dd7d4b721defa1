------------------------------ MODULE TxProofs ------------------------------
(***************************************************************************)
(* Proofs about the parts of pkg/tx and the life of the node's process,    *)
(* for every set of transactions, every clock bound and every setting:     *)
(*   TxTypesCorrect         the types of all parts;                        *)
(*   PoolAgreesCorrect      heap, map and sender index of the pool agree;  *)
(*   PriceSmoothCorrect     gas prices move in small steps;                *)
(*   AcceptedOnceCorrect    no replay in a window, no proof used twice;    *)
(*   NilOnlyInStartCorrect  when a goroutine reads a closed channel.       *)
(* One section per part proves that its inductive invariant is kept by its *)
(* own steps; the last one puts the parts together as the run does.        *)
(***************************************************************************)
EXTENDS MCTx, AccountsProofs, FiniteSetTheorems, TLAPS

(* The transaction pool.                                                   *)

\* PoolAgrees needs no strengthening but the types, and that the heap is finite.
PoolInv == PoolTypeOK /\ IsFiniteSet(pending) /\ PoolAgrees

LEMMA SenderKeyType ==
  ASSUME NEW t \in Tx
  PROVE  SenderKey(t) \in SenderNonce /\ TxBody[t] \in Transaction
  BY TxAssumption DEF SenderKey, SenderNonce, Transaction

LEMMA PoolInitInv == PoolInit => PoolInv
<1> SUFFICES ASSUME PoolInit PROVE PoolInv
  OBVIOUS
<1>1. PoolTypeOK
  <2>1. stateDB \in AccountMap
    BY NewAccountType, InitialBalanceAssumption
    DEF PoolInit, AccountMap, Account, NewAccount, Uint64
  <2> QED BY <2>1, PoolBoundsAssumption DEF PoolInit, PoolTypeOK
<1>2. IsFiniteSet(pending) /\ Cardinality(pending) = 0
  BY FS_EmptySet DEF PoolInit
<1> QED BY <1>1, <1>2, PoolBoundsAssumption DEF PoolInit, PoolInv, PoolAgrees

\* The index without the entries of some pooled items names the rest, except
\* where one of the items shared its key with another.
LEMMA SenderIndexAgrees ==
  ASSUME PoolInv, NEW S \in SUBSET all
  PROVE  /\ SenderIndexWithout(S) \in [SenderNonce -> Tx \cup {NoTx}]
         /\ \A k \in SenderNonce : SenderIndexWithout(S)[k] # NoTx =>
               /\ SenderIndexWithout(S)[k] \in all \ S
               /\ SenderKey(SenderIndexWithout(S)[k]) = k
         /\ \A t \in all \ S :
               SenderIndexWithout(S)[SenderKey(t)] # t => SenderKey(t) \in twins
<1>1. SenderIndexWithout(S) \in [SenderNonce -> Tx \cup {NoTx}]
  BY DEF SenderIndexWithout, PoolInv, PoolTypeOK
<1>2. ASSUME NEW k \in SenderNonce, SenderIndexWithout(S)[k] # NoTx
      PROVE  SenderIndexWithout(S)[k] \in all \ S /\ SenderKey(SenderIndexWithout(S)[k]) = k
  <2>1. k \notin {SenderKey(t) : t \in S} /\ SenderIndexWithout(S)[k] = bySender[k]
    BY <1>2 DEF SenderIndexWithout
  <2>2. bySender[k] \in all /\ SenderKey(bySender[k]) = k
    BY <1>2, <2>1 DEF PoolInv, PoolAgrees
  <2> QED BY <2>1, <2>2
<1>3. ASSUME NEW t \in all \ S, SenderIndexWithout(S)[SenderKey(t)] # t
      PROVE  SenderKey(t) \in twins
  <2>1. t \in Tx /\ SenderKey(t) \in SenderNonce
    BY SenderKeyType DEF PoolInv, PoolTypeOK
  <2>2. CASE SenderKey(t) \in {SenderKey(u) : u \in S}
    <3>1. PICK u \in S : SenderKey(t) = SenderKey(u)
      BY <2>2
    <3>2. bySender[SenderKey(t)] # t \/ bySender[SenderKey(u)] # u
      BY <3>1
    <3> QED BY <3>1, <3>2 DEF PoolInv, PoolAgrees
  <2>3. CASE SenderKey(t) \notin {SenderKey(u) : u \in S}
    <3>1. bySender[SenderKey(t)] # t
      BY <1>3, <2>1, <2>3 DEF SenderIndexWithout
    <3> QED BY <3>1 DEF PoolInv, PoolAgrees
  <2> QED BY <2>2, <2>3
<1> QED BY <1>1, <1>2, <1>3

LEMMA RemoveItemsInv ==
  ASSUME PoolInv, NEW S \in SUBSET all, RemoveItems(S)
  PROVE  PoolInv'
<1>1. PoolTypeOK'
  BY SenderIndexAgrees DEF RemoveItems, PoolInv, PoolTypeOK
<1>2. IsFiniteSet(pending') /\ Cardinality(pending') <= MaxPoolSize
  <2>1. /\ IsFiniteSet(pending \ S) /\ Cardinality(pending \ S) <= Cardinality(pending)
        /\ Cardinality(pending) \in Nat /\ Cardinality(pending \ S) \in Nat
    BY FS_Subset, FS_CardinalityType DEF PoolInv
  <2> QED BY <2>1, PoolBoundsAssumption DEF RemoveItems, PoolInv, PoolAgrees
<1>3. PoolAgrees'
  BY <1>2, SenderIndexAgrees DEF RemoveItems, PoolInv, PoolAgrees, SenderKey
<1> QED BY <1>1, <1>2, <1>3 DEF PoolInv

\* The pool makes room before it takes one more.
LEMMA EvictionMakesRoom ==
  ASSUME PoolInv, NEW evicted, Evictable(evicted)
  PROVE  /\ evicted \subseteq pending
         /\ IsFiniteSet(pending \ evicted)
         /\ Cardinality(pending \ evicted) \in Nat
         /\ Cardinality(pending \ evicted) < MaxPoolSize
<1>1. Cardinality(pending) \in Nat /\ Cardinality(pending) <= MaxPoolSize /\ IsFiniteSet(pending)
  BY FS_CardinalityType DEF PoolInv, PoolAgrees
<1>2. CASE Cardinality(pending) >= MaxPoolSize
  <2>1. PICK t \in pending : evicted = {t}
    BY <1>2 DEF Evictable, IsTop
  <2>2. /\ IsFiniteSet(pending \ {t})
        /\ Cardinality(pending \ {t}) = Cardinality(pending) - 1
    BY <1>1, FS_RemoveElement
  <2> QED BY <1>1, <1>2, <2>1, <2>2, PoolBoundsAssumption
<1>3. CASE ~ (Cardinality(pending) >= MaxPoolSize)
  <2>1. evicted = {} /\ pending \ evicted = pending
    BY <1>3 DEF Evictable
  <2> QED BY <1>1, <1>3, <2>1, PoolBoundsAssumption
<1> QED BY <1>2, <1>3

LEMMA AddTransactionInv ==
  ASSUME PoolInv, NEW t \in Tx, NEW evicted, AddTransaction(t, evicted)
  PROVE  PoolInv'
<1> DEFINE key == SenderKey(t)
           idx == SenderIndexWithout(evicted)
<1>1. /\ evicted \subseteq pending /\ evicted \in SUBSET all
      /\ IsFiniteSet(pending \ evicted)
      /\ Cardinality(pending \ evicted) \in Nat
      /\ Cardinality(pending \ evicted) < MaxPoolSize
      /\ pending = all
  BY EvictionMakesRoom DEF AddTransaction, PoolInv, PoolAgrees
<1>2. key \in SenderNonce /\ TxBody[t] \in Transaction /\ t # NoTx
  BY SenderKeyType, TxAssumption
<1>3. /\ idx \in [SenderNonce -> Tx \cup {NoTx}]
      /\ \A k \in SenderNonce : idx[k] # NoTx => idx[k] \in all \ evicted /\ SenderKey(idx[k]) = k
      /\ \A u \in all \ evicted : idx[SenderKey(u)] # u => SenderKey(u) \in twins
  BY <1>1, SenderIndexAgrees
<1> HIDE DEF idx, key
<1>4. /\ pending' = (pending \ evicted) \cup {t} /\ all' = (all \ evicted) \cup {t}
      /\ bySender' = [idx EXCEPT ![key] = t]
      /\ twins' = IF \E u \in pending \ evicted : SenderKey(u) = key
                  THEN twins \cup {key} ELSE twins
  BY DEF AddTransaction, idx, key
<1>5. PoolTypeOK'
  <2>1. calculatePriority(t) \in Int
    <3>1. /\ TxBody[t].fee \in Int /\ MaxTTL \in Int /\ poolNow \in Int
          /\ TxTimestamp[t] \in Int
      BY <1>2, TxDataAssumption, PoolBoundsAssumption, ModulusAssumption
      DEF PoolInv, PoolTypeOK, Transaction, Uint64
    <3> DEFINE age == 2 * MaxTTL + poolNow - TxTimestamp[t]
    <3>2. age \in Int
      BY <3>1
    <3> HIDE DEF age
    <3>3. TxBody[t].fee * age \in Int
      BY <3>1, <3>2
    <3>4. TxBody[t].fee * age * (IF Boosted[t] THEN 3 ELSE 2) \in Int
      BY <3>3
    <3> QED BY <3>4 DEF age, calculatePriority
  <2>2. addedAt' \in [Tx -> 0 .. PoolMaxTime] /\ priority' \in [Tx -> Int]
    BY <2>1 DEF AddTransaction, Stamped, PoolInv, PoolTypeOK
  <2>3. bySender' \in [SenderNonce -> Tx \cup {NoTx}] /\ twins' \subseteq SenderNonce
    BY <1>2, <1>3, <1>4 DEF PoolInv, PoolTypeOK
  <2> QED BY <1>4, <2>2, <2>3 DEF AddTransaction, PoolInv, PoolTypeOK
<1>6. IsFiniteSet(pending') /\ Cardinality(pending') <= MaxPoolSize
  <2>1. t \notin pending \ evicted
    BY <1>1 DEF AddTransaction
  <2>2. /\ IsFiniteSet((pending \ evicted) \cup {t})
        /\ Cardinality((pending \ evicted) \cup {t}) = Cardinality(pending \ evicted) + 1
    BY <1>1, <2>1, FS_AddElement
  <2> QED BY <1>1, <1>4, <2>2, PoolBoundsAssumption
<1>7. ASSUME NEW k \in SenderNonce, bySender'[k] # NoTx
      PROVE  bySender'[k] \in all' /\ SenderKey(bySender'[k]) = k
  <2>1. CASE k = key
    BY <1>2, <1>3, <1>4, <2>1 DEF key
  <2>2. CASE k # key
    BY <1>2, <1>3, <1>4, <1>7, <2>2
  <2> QED BY <2>1, <2>2
<1>8. ASSUME NEW u \in all', bySender'[SenderKey(u)] # u
      PROVE  SenderKey(u) \in twins'
  <2>1. u # t
    BY <1>2, <1>3, <1>4, <1>8 DEF key
  <2>2. u \in all \ evicted /\ u \in Tx /\ SenderKey(u) \in SenderNonce
    BY <1>4, <2>1, SenderKeyType DEF PoolInv, PoolTypeOK
  <2>3. CASE SenderKey(u) = key
    BY <1>1, <1>4, <2>2, <2>3
  <2>4. CASE SenderKey(u) # key
    <3>1. idx[SenderKey(u)] # u
      BY <1>3, <1>4, <1>8, <2>2, <2>4
    <3> QED BY <1>3, <1>4, <2>2, <3>1
  <2> QED BY <2>3, <2>4
<1>9. PoolAgrees'
  BY <1>1, <1>4, <1>6, <1>7, <1>8 DEF PoolAgrees, SenderKey
<1> QED BY <1>5, <1>6, <1>9 DEF PoolInv

LEMMA PoolNextInv == PoolInv /\ [PoolNext]_poolVars => PoolInv'
<1> SUFFICES ASSUME PoolInv, [PoolNext]_poolVars PROVE PoolInv'
  OBVIOUS
<1>1. CASE UNCHANGED poolVars
  BY <1>1 DEF poolVars, PoolInv, PoolTypeOK, PoolAgrees, SenderKey
<1>2. ASSUME NEW t \in Tx, NEW evicted, AddTransaction(t, evicted) PROVE PoolInv'
  BY <1>2, AddTransactionInv
<1>3. ASSUME NEW t \in Tx, RemoveTransaction(t) PROVE PoolInv'
  BY <1>3, RemoveItemsInv DEF RemoveTransaction
<1>4. ASSUME NEW k \in SenderNonce, RemoveByNonce(k[1], k[2]) PROVE PoolInv'
  <2> DEFINE found == {bySender[j] : j \in {k[1]} \X {n \in Uint64 : n >= k[2]}} \ {NoTx}
  <2>1. found \subseteq all
    BY <1>4 DEF PoolInv, PoolAgrees, SenderNonce
  <2> QED BY <1>4, <2>1, RemoveItemsInv DEF RemoveByNonce
<1>5. CASE CleanExpired
  BY <1>5, RemoveItemsInv DEF CleanExpired
<1>6. ASSUME NEW t \in Tx, ExecutePooled(t) PROVE PoolInv'
  <2>1. stateDB' \in AccountMap
    BY <1>6, SenderKeyType, ExecuteTransactionType DEF ExecutePooled, PoolInv, PoolTypeOK
  <2> QED BY <1>6, <2>1 DEF ExecutePooled, PoolInv, PoolTypeOK, PoolAgrees, SenderKey
<1>7. CASE PoolTick
  BY <1>7, PoolBoundsAssumption DEF PoolTick, PoolInv, PoolTypeOK, PoolAgrees, SenderKey
<1> QED BY <1>1, <1>2, <1>3, <1>4, <1>5, <1>6, <1>7 DEF PoolNext

-----------------------------------------------------------------------------
(* The gas price.                                                          *)

LEMMA GasInitInv == GasInit => GasTypeOK /\ PriceSmooth
  BY GasAssumption DEF GasInit, GasTypeOK, PriceSmooth

\* What truncation leaves is the quotient, less at most one.
LEMMA TruncatedBounds ==
  ASSUME NEW num \in Nat, NEW den \in Nat \ {0}, NEW x \in Truncated(num, den)
  PROVE  x \in Nat /\ den * x <= num /\ num <= den * x + den
<1> DEFINE q == num \div den
           r == num % den
<1>1. q \in Nat /\ r \in Nat /\ r < den /\ num = den * q + r
  OBVIOUS
<1>2. x = q \/ (x = q - 1 /\ r = 0 /\ num > 0)
  BY DEF Truncated
<1> HIDE DEF q, r
<1>3. CASE x = q
  BY <1>1, <1>3
<1>4. CASE x = q - 1 /\ r = 0 /\ num > 0
  <2>1. q # 0
    BY <1>1, <1>4
  <2>2. den * x = den * q - den
    BY <1>1, <1>4
  <2> QED BY <1>1, <1>4, <2>1, <2>2
<1> QED BY <1>2, <1>3, <1>4

LEMMA TimesMono ==
  ASSUME NEW a \in Nat, NEW x \in Int, NEW y \in Int, x <= y
  PROVE  a * x <= a * y
  OBVIOUS

\* The product of the two factors is between a half and 9/4, in its unit.
LEMMA FactorBounds ==
  ASSUME NEW u \in Utilizations, NEW n \in PoolSizes
  PROVE  utilizationFactor(u) * poolFactor(n) \in 2000 .. 9000
<1>1. utilizationFactor(u) \in 20 .. 60 /\ poolFactor(n) \in 100 .. 150
  <2>1. u \in 0 .. 100 /\ n \in 0 .. 100
    BY GasInputsAssumption
  <2> QED BY SMT, <2>1 DEF utilizationFactor, poolFactor
<1> DEFINE uf == utilizationFactor(u)
           pf == poolFactor(n)
<1> HIDE DEF uf, pf
<1>2. uf * 100 <= uf * pf /\ uf * pf <= uf * 150
  BY SMT, <1>1, TimesMono DEF uf, pf
<1>3. uf \in 20 .. 60 /\ uf * pf \in Int
  BY SMT, <1>1 DEF uf, pf
<1>4. uf * pf \in 2000 .. 9000
  <2> DEFINE x == uf * pf
  <2>1. uf * 100 <= x /\ x <= uf * 150 /\ x \in Int /\ uf \in 20 .. 60
    BY <1>2, <1>3
  <2> HIDE DEF x
  <2>2. x \in 2000 .. 9000
    BY SMT, <2>1
  <2> QED BY <2>2 DEF x
<1> QED BY <1>4 DEF uf, pf

LEMMA TargetBounds ==
  ASSUME GasTypeOK, NEW u \in Utilizations, NEW n \in PoolSizes,
         NEW t \in calculateTargetPrice(u, n)
  PROVE  t \in Nat /\ 4 * t <= 9 * currentPrice /\ 2 * (currentPrice - t) <= currentPrice + 2
<1> DEFINE f == utilizationFactor(u) * poolFactor(n)
           num == currentPrice * f
<1>1. f \in 2000 .. 9000
  BY SMT, FactorBounds
<1>2. currentPrice \in Nat /\ MinGasPrice \in Nat /\ MinGasPrice <= currentPrice
  BY SMT, GasAssumption DEF GasTypeOK
<1>3. PICK x \in Truncated(num, 4000) : t = AtLeastMin(x)
  BY SMT DEF calculateTargetPrice
<1> HIDE DEF f
<1>4. /\ num \in Nat
      /\ currentPrice * 2000 <= num /\ num <= currentPrice * 9000
  BY SMT, <1>1, <1>2, TimesMono
<1> HIDE DEF num
<1>5. x \in Nat /\ 4000 * x <= num
  BY SMT, <1>3, <1>4, TruncatedBounds
<1>6. num <= 4000 * x + 4000
  BY SMT, <1>3, <1>4, TruncatedBounds
<1>7. 4 * x <= 9 * currentPrice /\ 2 * (currentPrice - x) <= currentPrice + 2
  BY SMT, <1>2, <1>4, <1>5, <1>6
<1> QED BY SMT, <1>2, <1>3, <1>5, <1>6, <1>7 DEF AtLeastMin

\* From c, towards a target t, with the factor a / d, to y.
LEMMA MoveBounds ==
  ASSUME NEW c \in Nat, NEW t \in Nat, NEW a \in Nat, NEW d \in Nat \ {0}, a <= d, NEW y \in Nat,
         4 * t <= 9 * c, 2 * (c - t) <= c + 2,
         d * y <= (d - a) * c + a * t, (d - a) * c + a * t <= d * y + d
  PROVE  /\ 4 * (d * (y - c)) <= 5 * (a * c)
         /\ 2 * (d * (c - y)) <= a * c + 4 * d
<1> DEFINE dy == d * y
           dc == d * c
           ac == a * c
           at0 == a * t
<1>1. dy \in Int /\ dc \in Int /\ ac \in Int /\ at0 \in Int
  OBVIOUS
<1>2. (d - a) * c = dc - ac /\ d * (y - c) = dy - dc /\ d * (c - y) = dc - dy
  OBVIOUS
<1>3. 4 * at0 <= 9 * ac
  <2>1. a * (4 * t) <= a * (9 * c)
    BY TimesMono
  <2>2. a * (4 * t) = 4 * at0 /\ a * (9 * c) = 9 * ac
    OBVIOUS
  <2> QED BY <2>1, <2>2
<1>4. 2 * (ac - at0) <= ac + 2 * a
  <2>1. a * (2 * (c - t)) <= a * (c + 2)
    BY TimesMono
  <2>2. a * (2 * (c - t)) = 2 * (ac - at0) /\ a * (c + 2) = ac + 2 * a
    OBVIOUS
  <2> QED BY <2>1, <2>2
<1>5. dy <= dc - ac + at0 /\ dc - ac + at0 <= dy + d
  BY <1>2
<1> HIDE DEF dy, dc, ac, at0
<1>6. 4 * (dy - dc) <= 5 * ac /\ 2 * (dc - dy) <= ac + 4 * d
  BY <1>1, <1>3, <1>4, <1>5
<1> QED BY <1>2, <1>6 DEF ac

\* UpdateGasPrice moves the price smoothly, whatever the load and the factor.
LEMMA UpdateIsSmooth ==
  ASSUME GasTypeOK, NEW u \in Utilizations, NEW n \in PoolSizes, UpdateGasPrice(u, n)
  PROVE  /\ currentPrice' \in MinGasPrice .. MaxPrice
         /\ SmoothMove(currentPrice, currentPrice')
<1> DEFINE a == adjustment[1]
           d == adjustment[2]
           c == currentPrice
<1>1. a \in Nat /\ d \in Nat \ {0} /\ a <= d
  <2>1. adjustment \in Nat \X (Nat \ {0}) /\ adjustment[1] <= adjustment[2]
    BY GasInputsAssumption DEF GasTypeOK
  <2> QED BY <2>1
<1>2. c \in Nat /\ MinGasPrice \in Nat /\ MinGasPrice <= c /\ MaxPrice \in Nat
  BY GasAssumption DEF GasTypeOK
<1>3. PICK t \in calculateTargetPrice(u, n) : \E price \in Smoothed(t) :
          price <= MaxPrice /\ currentPrice' = price
  BY DEF UpdateGasPrice
<1>4. t \in Nat /\ 4 * t <= 9 * c /\ 2 * (c - t) <= c + 2
  BY TargetBounds
<1>5. PICK y \in Truncated((d - a) * c + a * t, d) :
          currentPrice' = AtLeastMin(y) /\ currentPrice' <= MaxPrice
  BY <1>3 DEF Smoothed
<1> HIDE DEF a, d, c
<1>6. (d - a) * c + a * t \in Nat
  <2>1. d - a \in Nat /\ (d - a) * c \in Nat /\ a * t \in Nat
    BY <1>1, <1>2, <1>4
  <2> QED BY <2>1
<1>7. /\ y \in Nat /\ d * y <= (d - a) * c + a * t
      /\ (d - a) * c + a * t <= d * y + d
  BY <1>1, <1>5, <1>6, TruncatedBounds
<1>8. 4 * (d * (y - c)) <= 5 * (a * c) /\ 2 * (d * (c - y)) <= a * c + 4 * d
  BY <1>1, <1>2, <1>4, <1>7, MoveBounds
<1>9. CASE y >= MinGasPrice
  <2>1. currentPrice' = y
    BY <1>2, <1>5, <1>7, <1>9 DEF AtLeastMin
  <2> QED BY <1>2, <1>5, <1>7, <1>8, <1>9, <2>1 DEF SmoothMove, a, d, c
<1>10. CASE y < MinGasPrice
  <2>1. currentPrice' = MinGasPrice
    BY <1>5, <1>10 DEF AtLeastMin
  <2> DEFINE m == MinGasPrice
  <2>2. d * (m - c) <= d * 0 /\ d * (c - m) <= d * (c - y)
    BY <1>1, <1>2, <1>7, <1>10, TimesMono
  <2>3. d * 0 = 0 /\ a * c \in Nat /\ d * (m - c) \in Int /\ d * (c - m) \in Int
        /\ d * (c - y) \in Int
    BY <1>1, <1>2, <1>7
  <2>4. 4 * (d * (m - c)) <= 5 * (a * c) /\ 2 * (d * (c - m)) <= a * c + 4 * d
    BY <1>1, <1>8, <2>2, <2>3
  <2> QED BY <1>2, <1>5, <2>1, <2>4 DEF SmoothMove, a, d, c
<1> QED BY <1>2, <1>7, <1>9, <1>10

\* The history grows by the price that was current, and loses the oldest.
LEMMA HistoryNext ==
  ASSUME GasTypeOK, NEW u \in Utilizations, NEW n \in PoolSizes, UpdateGasPrice(u, n)
  PROVE  /\ priceHistory' \in Seq(MinGasPrice .. MaxPrice) /\ Len(priceHistory') <= maxHistory
         /\ Len(priceHistory') > 0 /\ priceHistory'[Len(priceHistory')] = currentPrice
         /\ \E k \in {0, 1} : \A i \in 1 .. Len(priceHistory') - 1 :
               /\ i + k \in 1 .. Len(priceHistory)
               /\ priceHistory'[i] = priceHistory[i + k]
               /\ priceHistory'[i + 1] = IF i + k < Len(priceHistory)
                                         THEN priceHistory[i + k + 1] ELSE currentPrice
<1> DEFINE h == priceHistory
           P == MinGasPrice .. MaxPrice
           longer == Append(h, currentPrice)
<1>1. h \in Seq(P) /\ currentPrice \in P /\ Len(h) \in Nat /\ Len(h) <= maxHistory
      /\ maxHistory \in Nat \ {0}
  BY GasAssumption DEF GasTypeOK
<1>2. priceHistory' = IF Len(longer) > maxHistory THEN Tail(longer) ELSE longer
  BY DEF UpdateGasPrice, Remembered
<1> HIDE DEF h, P
<1>3. /\ longer \in Seq(P) /\ Len(longer) = Len(h) + 1
      /\ \A i \in 1 .. Len(h) : longer[i] = h[i]
      /\ longer[Len(h) + 1] = currentPrice
  BY <1>1
<1>4. longer # <<>>
  BY <1>1, <1>3
<1> HIDE DEF longer
<1>5. /\ Tail(longer) \in Seq(P) /\ Len(Tail(longer)) = Len(h)
      /\ \A i \in 1 .. Len(h) : Tail(longer)[i] = longer[i + 1]
  BY <1>1, <1>3, <1>4
<1>6. CASE Len(longer) > maxHistory
  <2>1. priceHistory' = Tail(longer) /\ Len(h) = maxHistory /\ Len(h) > 0
    BY <1>1, <1>2, <1>3, <1>6
  <2>2. priceHistory'[Len(priceHistory')] = currentPrice
    BY <1>1, <1>3, <1>5, <2>1
  <2>3. \A i \in 1 .. Len(priceHistory') - 1 :
            /\ i + 1 \in 1 .. Len(h)
            /\ priceHistory'[i] = h[i + 1]
            /\ priceHistory'[i + 1] = IF i + 1 < Len(h) THEN h[i + 1 + 1] ELSE currentPrice
    <3> TAKE i \in 1 .. Len(priceHistory') - 1
    <3>1. i \in 1 .. Len(h) - 1 /\ Len(h) \in Nat
      BY <1>1, <1>5, <2>1
    <3>2. priceHistory'[i] = longer[i + 1] /\ priceHistory'[i + 1] = longer[i + 1 + 1]
      BY <1>5, <2>1, <3>1
    <3>3. longer[i + 1] = h[i + 1]
      BY <1>3, <3>1
    <3>4. longer[i + 1 + 1] = IF i + 1 < Len(h) THEN h[i + 1 + 1] ELSE currentPrice
      <4>1. CASE i + 1 < Len(h)
        BY <1>3, <3>1, <4>1
      <4>2. CASE i + 1 = Len(h)
        BY <1>3, <3>1, <4>2
      <4> QED BY <3>1, <4>1, <4>2
    <3> QED BY <3>1, <3>2, <3>3, <3>4
  <2> QED BY <1>1, <1>5, <2>1, <2>2, <2>3 DEF h, P
<1>7. CASE ~ (Len(longer) > maxHistory)
  <2>1. priceHistory' = longer /\ Len(longer) <= maxHistory
    BY <1>1, <1>2, <1>3, <1>7
  <2>2. \A i \in 1 .. Len(priceHistory') - 1 :
            /\ i + 0 \in 1 .. Len(h)
            /\ priceHistory'[i] = h[i + 0]
            /\ priceHistory'[i + 1] = IF i + 0 < Len(h) THEN h[i + 0 + 1] ELSE currentPrice
    <3> TAKE i \in 1 .. Len(priceHistory') - 1
    <3>1. i \in 1 .. Len(h) /\ Len(h) \in Nat
      BY <1>1, <1>3, <2>1
    <3>2. longer[i + 1] = IF i < Len(h) THEN h[i + 1] ELSE currentPrice
      <4>1. CASE i < Len(h)
        BY <1>3, <3>1, <4>1
      <4>2. CASE i = Len(h)
        BY <1>3, <3>1, <4>2
      <4> QED BY <3>1, <4>1, <4>2
    <3> QED BY <1>3, <2>1, <3>1, <3>2
  <2> QED BY <1>1, <1>3, <2>1, <2>2 DEF h, P
<1> QED BY <1>6, <1>7

GasInv == GasTypeOK /\ PriceSmooth

LEMMA GasNextInv == GasInv /\ [GasNext]_gasVars => GasInv'
<1> SUFFICES ASSUME GasInv, [GasNext]_gasVars PROVE GasInv'
  OBVIOUS
<1>1. CASE UNCHANGED gasVars
  BY <1>1 DEF gasVars, GasInv, GasTypeOK, PriceSmooth, SmoothMove
<1>2. ASSUME NEW u \in Utilizations, NEW n \in PoolSizes, UpdateGasPrice(u, n) PROVE GasInv'
  <2>1. GasTypeOK /\ adjustment' = adjustment
    BY <1>2 DEF GasInv, UpdateGasPrice
  <2>2. /\ currentPrice' \in MinGasPrice .. MaxPrice
        /\ SmoothMove(currentPrice, currentPrice')
    BY <1>2, <2>1, UpdateIsSmooth
  <2>3. GasTypeOK'
    <3>1. priceHistory' \in Seq(MinGasPrice .. MaxPrice) /\ Len(priceHistory') <= maxHistory
      BY <1>2, <2>1, HistoryNext
    <3> QED BY <2>1, <2>2, <3>1 DEF GasTypeOK
  <2>4. PICK s \in {0, 1} : \A i \in 1 .. Len(priceHistory') - 1 :
               /\ i + s \in 1 .. Len(priceHistory)
               /\ priceHistory'[i] = priceHistory[i + s]
               /\ priceHistory'[i + 1] = IF i + s < Len(priceHistory)
                                         THEN priceHistory[i + s + 1] ELSE currentPrice
    BY <1>2, <2>1, HistoryNext
  <2>5. ASSUME NEW i \in 1 .. Len(priceHistory') - 1
        PROVE  SmoothMove(priceHistory'[i], priceHistory'[i + 1])
    <3>1. /\ i + s \in 1 .. Len(priceHistory) /\ Len(priceHistory) \in Nat
          /\ priceHistory'[i] = priceHistory[i + s]
          /\ priceHistory'[i + 1] = IF i + s < Len(priceHistory)
                                    THEN priceHistory[i + s + 1] ELSE currentPrice
      BY <2>1, <2>4 DEF GasTypeOK
    <3>2. CASE i + s < Len(priceHistory)
      <4>1. i + s \in 1 .. Len(priceHistory) - 1
        BY <3>1, <3>2
      <4>2. SmoothMove(priceHistory[i + s], priceHistory[i + s + 1])
        BY <4>1 DEF GasInv, PriceSmooth
      <4> QED BY <3>1, <3>2, <4>2
    <3>3. CASE i + s = Len(priceHistory)
      <4>1. SmoothMove(priceHistory[i + s], currentPrice)
        BY <3>1, <3>3 DEF GasInv, PriceSmooth
      <4>2. priceHistory'[i + 1] = currentPrice
        BY <3>1, <3>3
      <4> QED BY <3>1, <4>1, <4>2
    <3> QED BY <3>1, <3>2, <3>3
  <2>6. priceHistory'[Len(priceHistory')] = currentPrice
    BY <1>2, <2>1, HistoryNext
  <2>7. PriceSmooth'
    BY <2>1, <2>2, <2>5, <2>6 DEF PriceSmooth, SmoothMove
  <2> QED BY <2>3, <2>7 DEF GasInv
<1>3. CASE GasReset
  BY <1>3, GasAssumption DEF GasReset, GasInv, GasTypeOK, PriceSmooth
<1> QED BY <1>1, <1>2, <1>3 DEF GasNext

-----------------------------------------------------------------------------
(* Offline transactions.                                                   *)

\* A caller that has passed the first check validates a transaction.
CheckingOK ==
    \A c \in Callers : offlinePC[c] \in {"expiry", "replay"} => checking[c] \in OfflineTxs

\* The window of every acceptance is over, or the entry of its key is still
\* there and lasts at least as long.
WindowsCovered ==
    \A k \in Keys : \A i \in DOMAIN accepts[k] :
        \/ accepts[k][i].until <= clock
        \/ seen[k] # NoInfo /\ accepts[k][i].until <= seen[k]

OfflineInv == OfflineTypeOK /\ CheckingOK /\ WindowsCovered /\ OncePerWindow

LEMMA OfflineInitInv == OfflineInit => OfflineInv
  BY OfflineBoundsAssumption
  DEF OfflineInit, OfflineInv, OfflineTypeOK, CheckingOK, WindowsCovered, OncePerWindow

LEMMA AcceptedTypes ==
  ASSUME OfflineTypeOK, NEW k \in Keys, NEW i \in DOMAIN accepts[k]
  PROVE  accepts[k][i].until \in Nat /\ accepts[k][i].at \in Nat
<1> DEFINE Acceptance == [at : Nat, until : Nat]
           s == accepts[k]
<1>1. s \in Seq(Acceptance)
  BY DEF OfflineTypeOK
<1> HIDE DEF Acceptance, s
<1>2. \A j \in DOMAIN s : s[j] \in Acceptance
  BY <1>1
<1> QED BY <1>2 DEF Acceptance, s

\* What is accepted is accepted after the end of every earlier window.
LEMMA AcceptInv ==
  ASSUME OfflineInv, NEW c \in Callers, checkReplay(c)
  PROVE  OfflineInv'
<1> DEFINE tx == checking[c]
           k == tx.key
           until == tx.timestamp + validity
           new == [at |-> clock, until |-> until]
<1>1. /\ tx \in OfflineTxs /\ k \in Keys
      /\ clock \in Nat /\ until \in Nat /\ new \in [at : Nat, until : Nat]
      /\ accepts[k] \in Seq([at : Nat, until : Nat])
  BY OfflineTxsAssumption, OfflineBoundsAssumption
  DEF checkReplay, OfflineInv, OfflineTypeOK, CheckingOK
<1>2. OfflineTypeOK' /\ CheckingOK'
  <2>1. seen' \in [Keys -> Nat \cup {NoInfo}] /\ accepts' \in [Keys -> Seq([at : Nat, until : Nat])]
    <3>1. /\ seen \in [Keys -> Nat \cup {NoInfo}]
          /\ accepts \in [Keys -> Seq([at : Nat, until : Nat])]
      BY DEF OfflineInv, OfflineTypeOK
    <3>2. Append(accepts[k], new) \in Seq([at : Nat, until : Nat])
      BY <1>1
    <3>3. CASE IsReplay(k)
      BY <3>1, <3>3 DEF checkReplay
    <3>4. CASE ~ IsReplay(k)
      <4>1. /\ seen' = [seen EXCEPT ![k] = until]
            /\ accepts' = [accepts EXCEPT ![k] = Append(accepts[k], new)]
        BY <3>4 DEF checkReplay, Accept
      <4> HIDE DEF tx, k, until, new
      <4> QED BY <1>1, <3>1, <3>2, <4>1
    <3> QED BY <3>3, <3>4
  <2> QED BY <2>1 DEF checkReplay, EndCall, OfflineInv, OfflineTypeOK, CheckingOK
<1>3. CASE IsReplay(k)
  BY <1>2, <1>3 DEF checkReplay, OfflineInv, WindowsCovered, OncePerWindow
<1>4. CASE ~ IsReplay(k)
  <2> HIDE DEF tx, k, until, new
  <2>1. /\ seen' = [seen EXCEPT ![k] = until]
        /\ accepts' = [accepts EXCEPT ![k] = Append(accepts[k], new)]
        /\ clock' = clock
    BY <1>4 DEF checkReplay, Accept, k, tx, until, new
  <2>2. \A i \in DOMAIN accepts[k] : accepts[k][i].until <= clock
    <3> SUFFICES ASSUME NEW i \in DOMAIN accepts[k] PROVE accepts[k][i].until <= clock
      OBVIOUS
    <3>1. seen[k] = NoInfo \/ (seen[k] \in Nat /\ ~ (clock < seen[k]))
      BY <1>1, <1>4 DEF IsReplay, OfflineInv, OfflineTypeOK
    <3>2. accepts[k][i].until \in Nat
      BY <1>1, AcceptedTypes DEF OfflineInv
    <3> QED BY <1>1, <3>1, <3>2 DEF OfflineInv, WindowsCovered
  <2>3. /\ accepts'[k] = Append(accepts[k], new)
        /\ \A l \in Keys : l # k => accepts'[l] = accepts[l] /\ seen'[l] = seen[l]
        /\ seen'[k] = until
    BY <1>1, <2>1 DEF OfflineInv, OfflineTypeOK
  <2>4. /\ DOMAIN accepts'[k] = 1 .. (Len(accepts[k]) + 1)
        /\ DOMAIN accepts[k] = 1 .. Len(accepts[k])
        /\ Len(accepts[k]) \in Nat
        /\ \A i \in 1 .. Len(accepts[k]) : accepts'[k][i] = accepts[k][i]
        /\ accepts'[k][Len(accepts[k]) + 1] = new
    BY <1>1, <2>3
  <2>5. until \in Nat /\ until # NoInfo /\ new.until = until /\ new.at = clock
    BY <1>1, NoInfoAssumption DEF new
  <2>6. WindowsCovered'
    <3> SUFFICES ASSUME NEW l \in Keys, NEW i \in DOMAIN accepts'[l]
                 PROVE  \/ accepts'[l][i].until <= clock'
                        \/ seen'[l] # NoInfo /\ accepts'[l][i].until <= seen'[l]
      BY DEF WindowsCovered
    <3>1. CASE l # k
      BY <2>1, <2>3, <3>1 DEF OfflineInv, WindowsCovered
    <3>2. CASE l = k /\ i = Len(accepts[k]) + 1
      BY <2>3, <2>4, <2>5, <3>2
    <3>3. CASE l = k /\ i # Len(accepts[k]) + 1
      <4>1. i \in 1 .. Len(accepts[k])
        BY <2>4, <3>3
      <4> QED BY <2>1, <2>2, <2>4, <3>3, <4>1
    <3> QED BY <3>1, <3>2, <3>3
  <2>7. OncePerWindow'
    <3> SUFFICES ASSUME NEW l \in Keys, NEW i \in DOMAIN accepts'[l], NEW j \in DOMAIN accepts'[l],
                        i < j
                 PROVE  accepts'[l][j].at >= accepts'[l][i].until
      BY DEF OncePerWindow
    <3>1. CASE l # k
      BY <2>3, <3>1 DEF OfflineInv, OncePerWindow
    <3>2. CASE l = k /\ j = Len(accepts[k]) + 1
      <4>1. i \in 1 .. Len(accepts[k])
        BY <2>4, <3>2
      <4>2. accepts[k][i].until <= clock /\ accepts[k][i].until \in Nat
        BY <1>1, <2>2, <2>4, <4>1, AcceptedTypes DEF OfflineInv
      <4> QED BY <1>1, <2>4, <2>5, <3>2, <4>1, <4>2
    <3>3. CASE l = k /\ j # Len(accepts[k]) + 1
      <4>1. i \in 1 .. Len(accepts[k]) /\ j \in 1 .. Len(accepts[k])
        BY <2>4, <3>3
      <4> QED BY <1>1, <2>4, <3>3, <4>1 DEF OfflineInv, OncePerWindow
    <3> QED BY <3>1, <3>2, <3>3
  <2> QED BY <1>2, <2>6, <2>7 DEF OfflineInv
<1> QED BY <1>3, <1>4

LEMMA OfflineNextInv == OfflineInv /\ [OfflineNext]_offlineVars => OfflineInv'
<1> SUFFICES ASSUME OfflineInv, [OfflineNext]_offlineVars PROVE OfflineInv'
  OBVIOUS
<1> USE DEF OfflineInv, CheckingOK, WindowsCovered, OncePerWindow
<1>1. CASE UNCHANGED offlineVars
  BY <1>1 DEF offlineVars, OfflineTypeOK
<1>2. ASSUME NEW c \in Callers, NEW tx \in OfflineTxs, validateTimestamp(c, tx) PROVE OfflineInv'
  BY <1>2 DEF validateTimestamp, OfflineTypeOK
<1>3. ASSUME NEW c \in Callers, validateExpiry(c) PROVE OfflineInv'
  BY <1>3 DEF validateExpiry, EndCall, OfflineTypeOK
<1>4. ASSUME NEW c \in Callers, checkReplay(c) PROVE OfflineInv'
  BY <1>4, AcceptInv
<1>5. CASE CleanupExpired
  <2>1. OfflineTypeOK' /\ CheckingOK' /\ OncePerWindow'
    BY <1>5 DEF CleanupExpired, OfflineTypeOK
  <2>2. ASSUME NEW k \in Keys, NEW i \in DOMAIN accepts[k]
        PROVE  \/ accepts[k][i].until <= clock
               \/ seen'[k] # NoInfo /\ accepts[k][i].until <= seen'[k]
    <3>1. accepts[k][i].until \in Nat /\ clock \in Nat /\ seen[k] \in Nat \cup {NoInfo}
      BY OfflineBoundsAssumption, AcceptedTypes DEF OfflineTypeOK
    <3>2. seen'[k] = IF seen[k] # NoInfo /\ clock > seen[k] THEN NoInfo ELSE seen[k]
      BY <1>5 DEF CleanupExpired
    <3> QED BY <3>1, <3>2
  <2> QED BY <1>5, <2>1, <2>2 DEF CleanupExpired
<1>6. ASSUME NEW period \in Periods, SetValidityPeriod(period) PROVE OfflineInv'
  BY <1>6 DEF SetValidityPeriod, OfflineTypeOK
<1>7. ASSUME NEW t \in Tolerances, SetClockSkewTolerance(t) PROVE OfflineInv'
  BY <1>7 DEF SetClockSkewTolerance, OfflineTypeOK
<1>8. CASE OfflineReset
  BY <1>8 DEF OfflineReset, OfflineTypeOK
<1>9. CASE OfflineTick
  <2>1. OfflineTypeOK' /\ CheckingOK' /\ OncePerWindow'
    BY <1>9, OfflineBoundsAssumption DEF OfflineTick, OfflineTypeOK
  <2>2. ASSUME NEW k \in Keys, NEW i \in DOMAIN accepts[k]
        PROVE  \/ accepts[k][i].until <= clock'
               \/ seen[k] # NoInfo /\ accepts[k][i].until <= seen[k]
    <3>1. accepts[k][i].until \in Nat /\ clock \in Nat /\ clock' = clock + 1
      BY <1>9, OfflineBoundsAssumption, AcceptedTypes DEF OfflineTick, OfflineTypeOK
    <3> QED BY <3>1
  <2> QED BY <1>9, <2>1, <2>2 DEF OfflineTick
<1> QED BY <1>1, <1>2, <1>3, <1>4, <1>5, <1>6, <1>7, <1>8, <1>9 DEF OfflineNext

-----------------------------------------------------------------------------
(* Migration proofs.                                                       *)

MigrationInv == MigrationTypeOK /\ MintedOnce

LEMMA MigrationInitInv == MigrationInit => MigrationInv
<1> SUFFICES ASSUME MigrationInit PROVE MigrationInv
  OBVIOUS
<1>1. \A id : Claiming(id) = {}
  BY DEF MigrationInit, Claiming
<1>2. Cardinality({}) = 0 /\ Cardinality(Claimants) \in Nat
  BY FS_EmptySet, FS_CardinalityType, MigrationAssumption
<1>3. MigrationTypeOK
  BY MigrationAssumption DEF MigrationInit, MigrationTypeOK
<1>4. MintedOnce
  <2> SUFFICES ASSUME NEW id \in DOMAIN minted
               PROVE  /\ minted[id] = 0 <=> id \notin usedProofs
                      /\ minted[id] + Cardinality(Claiming(id)) <= Cardinality(Claimants)
    BY DEF MintedOnce
  <2>1. minted[id] = 0 /\ id \notin usedProofs
    BY DEF MigrationInit
  <2>2. Cardinality(Claiming(id)) = 0
    BY <1>1, <1>2
  <2> QED BY <1>2, <2>1, <2>2
<1> QED BY <1>3, <1>4 DEF MigrationInv

LEMMA MigrationNextInv == MigrationInv /\ [MigrationNext]_migrationVars => MigrationInv'
<1> SUFFICES ASSUME MigrationInv, [MigrationNext]_migrationVars PROVE MigrationInv'
  OBVIOUS
<1> DEFINE IDs == {ProofID(q) : q \in Proofs}
<1>0. \A id : /\ Claiming(id) \subseteq Claimants /\ IsFiniteSet(Claiming(id))
              /\ Cardinality(Claiming(id)) \in Nat
              /\ Cardinality(Claiming(id)) <= Cardinality(Claimants)
              /\ IsFiniteSet(Claiming(id)') /\ Cardinality(Claiming(id)') \in Nat
              /\ Cardinality(Claiming(id)') <= Cardinality(Claimants)
  <2> TAKE id
  <2>1. Claiming(id) \subseteq Claimants /\ Claiming(id)' \subseteq Claimants
    BY DEF Claiming
  <2>2. IsFiniteSet(Claiming(id)) /\ Cardinality(Claiming(id)) <= Cardinality(Claimants)
    BY <2>1, FS_Subset, MigrationAssumption
  <2>3. IsFiniteSet(Claiming(id)') /\ Cardinality(Claiming(id)') <= Cardinality(Claimants)
    BY <2>1, FS_Subset, MigrationAssumption
  <2> QED BY <2>1, <2>2, <2>3, FS_CardinalityType
<1>00. /\ usedProofs \subseteq IDs /\ minted \in [IDs -> Nat]
       /\ claims \in [Claimants -> Proofs \cup {NoClaim}]
       /\ \A i \in IDs : /\ minted[i] = 0 <=> i \notin usedProofs
                         /\ minted[i] + Cardinality(Claiming(i)) <= Cardinality(Claimants)
       /\ Cardinality(Claimants) \in Nat
  BY FS_CardinalityType, MigrationAssumption DEF MigrationInv, MigrationTypeOK, MintedOnce
<1>1. CASE UNCHANGED migrationVars
  BY <1>1 DEF migrationVars, MigrationInv, MigrationTypeOK, MintedOnce, Claiming
<1>2. ASSUME NEW c \in Claimants, NEW p \in Proofs, ValidateMigration(c, p) PROVE MigrationInv'
  <2>1. /\ ProofID(p) \notin usedProofs /\ usedProofs' = usedProofs /\ minted' = minted
        /\ claims' = [claims EXCEPT ![c] = p] /\ claims' \in [Claimants -> Proofs \cup {NoClaim}]
    BY <1>2, <1>00 DEF ValidateMigration
  <2>2. ASSUME NEW i \in IDs
        PROVE  minted[i] + Cardinality(Claiming(i)') <= Cardinality(Claimants)
    <3>1. CASE i = ProofID(p)
      BY <1>0, <1>00, <2>1, <3>1
    <3>2. CASE i # ProofID(p)
      <4>1. Claiming(i)' \subseteq Claiming(i)
        BY <1>00, <2>1, <3>2 DEF Claiming
      <4>2. Cardinality(Claiming(i)') <= Cardinality(Claiming(i))
        BY <1>0, <4>1, FS_Subset
      <4> QED BY <1>0, <1>00, <4>2
    <3> QED BY <3>1, <3>2
  <2>3. MintedOnce'
    BY <1>00, <2>1, <2>2 DEF MintedOnce
  <2> QED BY <1>2, <2>1, <2>3 DEF ValidateMigration, MigrationInv, MigrationTypeOK
<1>3. ASSUME NEW c \in Claimants, ReturnMigration(c) PROVE MigrationInv'
  <2>0. claims[c] \in Proofs /\ claims[c] # NoClaim
    BY <1>3, <1>00 DEF ReturnMigration
  <2>p. PICK id \in IDs : id = ProofID(claims[c])
    BY <2>0
  <2>1. claims[c] \in Proofs /\ claims[c] # NoClaim /\ id \in IDs /\ id = ProofID(claims[c])
    BY <2>0, <2>p
  <2>2. /\ usedProofs' = usedProofs \cup {id}
        /\ minted' = [minted EXCEPT ![id] = minted[id] + 1]
        /\ claims' = [claims EXCEPT ![c] = NoClaim]
        /\ claims' \in [Claimants -> Proofs \cup {NoClaim}]
    BY <1>3, <1>00, <2>1 DEF ReturnMigration, markProofUsed
  <2>c. /\ c \in Claimants /\ claims'[c] = NoClaim
        /\ \A d \in Claimants : d # c => claims'[d] = claims[d]
    BY <1>00, <2>2
  <2>d. c \in Claiming(id)
    BY <2>1 DEF Claiming
  <2>e. ASSUME NEW i PROVE Claiming(i)' = Claiming(i) \ {c}
    <3>1. ASSUME NEW d \in Claimants PROVE d \in Claiming(i)' <=> d \in Claiming(i) \ {c}
      BY <2>c DEF Claiming
    <3>2. Claiming(i)' \subseteq Claimants /\ Claiming(i) \subseteq Claimants
      BY DEF Claiming
    <3> QED BY <3>1, <3>2
  <2>f. ASSUME NEW i, i # id PROVE c \notin Claiming(i)
    BY <2>1, <2>f DEF Claiming
  <2>3. /\ c \in Claiming(id) /\ Claiming(id)' = Claiming(id) \ {c}
        /\ \A i \in IDs : i # id => Claiming(i)' = Claiming(i)
    <3>1. \A i \in IDs : i # id => Claiming(i)' = Claiming(i)
      BY <2>e, <2>f
    <3>2. Claiming(id)' = Claiming(id) \ {c}
      BY <2>e
    <3> QED BY <2>d, <3>1, <3>2
  <2>4. Cardinality(Claiming(id)') = Cardinality(Claiming(id)) - 1
    BY <1>0, <2>3, FS_RemoveElement
  <2> HIDE DEF IDs
  <2>5. minted' \in [IDs -> Nat] /\ usedProofs' \subseteq IDs
    BY <1>00, <2>1, <2>2
  <2>6. ASSUME NEW i \in IDs
        PROVE  /\ minted'[i] = 0 <=> i \notin usedProofs'
               /\ minted'[i] + Cardinality(Claiming(i)') <= Cardinality(Claimants)
    <3>1. CASE i = id
      <4>1. minted'[i] = minted[i] + 1 /\ i \in usedProofs' /\ minted[i] \in Nat
        BY <1>00, <2>1, <2>2, <3>1
      <4>2. /\ minted[i] + Cardinality(Claiming(i)) <= Cardinality(Claimants)
            /\ Cardinality(Claiming(i)') = Cardinality(Claiming(i)) - 1
            /\ Cardinality(Claiming(i)) \in Nat
        <5>1. minted[i] + Cardinality(Claiming(i)) <= Cardinality(Claimants)
          BY <1>00
        <5>2. Cardinality(Claiming(i)) \in Nat
          BY <1>0
        <5>3. Cardinality(Claiming(i)') = Cardinality(Claiming(i)) - 1
          BY <2>4, <3>1
        <5> QED BY <5>1, <5>2, <5>3
      <4> QED BY <1>00, <4>1, <4>2
    <3>2. CASE i # id
      <4>1. minted'[i] = minted[i] /\ (i \in usedProofs' <=> i \in usedProofs)
            /\ Claiming(i)' = Claiming(i)
        BY <1>00, <2>2, <2>3, <3>2
      <4>2. minted[i] = 0 <=> i \notin usedProofs
        BY <1>00
      <4>3. minted[i] + Cardinality(Claiming(i)) <= Cardinality(Claimants)
        BY <1>00
      <4> QED BY <4>1, <4>2, <4>3
    <3> QED BY <3>1, <3>2
  <2>7. MintedOnce'
    BY <2>5, <2>6 DEF MintedOnce
  <2>8. MigrationTypeOK'
    BY <1>3, <2>2, <2>5 DEF ReturnMigration, MigrationInv, MigrationTypeOK, IDs
  <2> QED BY <2>7, <2>8 DEF MigrationInv
<1>4. ASSUME NEW o \in Owners, NEW limit \in Limits, SetMigrationLimit(o, limit)
      PROVE  MigrationInv'
  BY <1>4 DEF SetMigrationLimit, MigrationInv, MigrationTypeOK, MintedOnce, Claiming
<1>5. CASE MigrationTick
  BY <1>5, MigrationAssumption DEF MigrationTick, MigrationInv, MigrationTypeOK, MintedOnce, Claiming
<1> QED BY <1>1, <1>2, <1>3, <1>4, <1>5 DEF MigrationNext

-----------------------------------------------------------------------------
(* The life of the process.                                                *)

\* A Stop that has found the node running after Start's last launch finds
\* nothing launched any more; once it has waited, no goroutine is left that
\* could read the channels it closes.
StopOK ==
    /\ isRunning => starting # "start"
    /\ closed => stopping \in {"close", "exit"}
    /\ stopping \in {"cancel", "wgWait", "close"} /\ ~ earlySignal => starting \in {"wait", "exit"}
    /\ stopping = "close" /\ ~ earlySignal => WgIsZero

LifecycleInv == LifecycleTypeOK /\ StopOK /\ NilOnlyInStart

LEMMA LifecycleInitInv == LifecycleInit => LifecycleInv
<1> SUFFICES ASSUME LifecycleInit PROVE LifecycleInv
  OBVIOUS
<1>1. 0 \in 0 .. Len(Launched)
  BY LaunchedAssumption
<1> QED BY <1>1 DEF LifecycleInit, LifecycleInv, LifecycleTypeOK, StopOK, NilOnlyInStart, WgIsZero

LEMMA LifecycleNextInv == LifecycleInv /\ [LifecycleNext]_lifecycleVars => LifecycleInv'
<1> SUFFICES ASSUME LifecycleInv, [LifecycleNext]_lifecycleVars PROVE LifecycleInv'
  OBVIOUS
<1> USE DEF LifecycleInv, LifecycleTypeOK, StopOK, NilOnlyInStart
<1>1. CASE UNCHANGED lifecycleVars
  BY <1>1 DEF lifecycleVars, WgIsZero
<1>2. CASE Start
  BY <1>2 DEF Start, WgIsZero
<1>3. CASE Launch
  <2>1. Len(Launched) \in Nat /\ Launched[launched + 1] \in Goroutines /\ launched + 1 \in 0 .. Len(Launched)
    BY <1>3, LaunchedAssumption DEF Launch, Goroutines
  <2> QED BY <1>3, <2>1 DEF Launch, WgIsZero
<1>4. CASE MainEnds
  BY <1>4 DEF MainEnds, WgIsZero
<1>5. ASSUME NEW g \in Goroutines, Receive(g) PROVE LifecycleInv'
  BY <1>5 DEF Receive, WgIsZero
<1>6. ASSUME NEW g \in Goroutines, Process(g) PROVE LifecycleInv'
  BY <1>6 DEF Process, WgIsZero
<1>7. ASSUME NEW g \in Goroutines, ReceiveNil(g), ~ Exited PROVE LifecycleInv'
  BY <1>7 DEF ReceiveNil, Exited, WgIsZero
<1>8. ASSUME NEW g \in Goroutines, Done(g) PROVE LifecycleInv'
  BY <1>8 DEF Done, WgIsZero
<1>9. CASE Signal
  BY <1>9 DEF Signal, WgIsZero
<1>10. CASE StopBegins /\ ~ Exited
  <2>1. ~ closed /\ ~ nilReceived /\ stopping = "stop"
    BY <1>10 DEF StopBegins, Exited
  <2>2. CASE isRunning /\ starting = "launch"
    BY <1>10, <2>1, <2>2 DEF StopBegins, WgIsZero
  <2>3. CASE ~ (isRunning /\ starting = "launch")
    BY <1>10, <2>1, <2>3 DEF StopBegins, WgIsZero
  <2> QED BY <2>2, <2>3
<1>11. CASE Cancel
  BY <1>11 DEF Cancel, WgIsZero
<1>12. CASE StopWaits
  BY <1>12 DEF StopWaits, WgIsZero
<1>13. CASE CloseChannels
  BY <1>13 DEF CloseChannels, WgIsZero
<1>14. CASE StopReturns
  BY <1>14 DEF StopReturns, WgIsZero
<1> QED BY <1>1, <1>2, <1>3, <1>4, <1>5, <1>6, <1>7, <1>8, <1>9, <1>10, <1>11, <1>12, <1>13,
           <1>14 DEF LifecycleNext, StopStep

-----------------------------------------------------------------------------
(* The parts together.                                                     *)

TxInv == PoolInv /\ GasInv /\ OfflineInv /\ MigrationInv /\ LifecycleInv

\* A step of the whole is a step of one part, which leaves the others alone.
LEMMA TxStep ==
  ASSUME [TxNext]_allVars
  PROVE  /\ [PoolNext]_poolVars
         /\ [GasNext]_gasVars
         /\ [OfflineNext]_offlineVars
         /\ [MigrationNext]_migrationVars
         /\ [LifecycleNext]_lifecycleVars
  BY DEF TxNext, LifecyclePart, allVars

LEMMA TxInitInv == TxInit => TxInv
  BY PoolInitInv, GasInitInv, OfflineInitInv, MigrationInitInv, LifecycleInitInv
  DEF TxInit, TxInv, GasInv

LEMMA TxNextInv == TxInv /\ [TxNext]_allVars => TxInv'
  BY TxStep, PoolNextInv, GasNextInv, OfflineNextInv, MigrationNextInv, LifecycleNextInv DEF TxInv

LEMMA TxInvHolds == TxSpec => []TxInv
  BY TxInitInv, TxNextInv, PTL DEF TxSpec

\* Whatever the parts do, all of their state keeps its type: pooled items are
\* stamped with times of the clock (pool.go, AddTransaction), the gas price
\* stays within its bounds and its history within maxHistory (gas.go,
\* UpdateGasPrice), windows and proofs are what the validators store.
THEOREM TxTypesCorrect == TxSpec => []TxTypesOK
<1>1. TxInv => TxTypesOK
  BY DEF TxInv, TxTypesOK, PoolInv, GasInv, OfflineInv, MigrationInv, LifecycleInv
<1> QED BY <1>1, TxInvHolds, PTL

\* The heap, the map and the sender index of the pool agree after every call
\* of AddTransaction, RemoveTransaction, RemoveByNonce and CleanExpired, for
\* every set of transactions and every MaxPoolSize.
THEOREM PoolAgreesCorrect == TxSpec => []PoolAgrees
<1>1. TxInv => PoolAgrees
  BY DEF TxInv, PoolInv
<1> QED BY <1>1, TxInvHolds, PTL

\* Whatever the adjustment factor, the load and the length of the history, the
\* prices UpdateGasPrice leaves behind are a sequence of small moves, across
\* any number of calls and Resets.
THEOREM PriceSmoothCorrect == TxSpec => []PriceSmooth
<1>1. TxInv => PriceSmooth
  BY DEF TxInv, GasInv
<1> QED BY <1>1, TxInvHolds, PTL

\* checkReplay accepts one transaction of a sender and nonce in a window,
\* however many callers race, and ValidateMigration grants a proof at most once
\* to each of its callers, whose checks and marks may overlap.
THEOREM AcceptedOnceCorrect == TxSpec => []AcceptedOnce
<1>1. TxInv => AcceptedOnce
  BY DEF TxInv, OfflineInv, MigrationInv, AcceptedOnce
<1> QED BY <1>1, TxInvHolds, PTL

\* Stop closes the channels under a reading goroutine only if it overtakes Start.
THEOREM NilOnlyInStartCorrect == TxSpec => []NilOnlyInStart
<1>1. TxInv => NilOnlyInStart
  BY DEF TxInv, LifecycleInv
<1> QED BY <1>1, TxInvHolds, PTL

=============================================================================

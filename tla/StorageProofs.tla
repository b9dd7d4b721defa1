--------------------------- MODULE StorageProofs ----------------------------
(***************************************************************************)
(* Proofs about the stores, for any keys, values, files and limits:        *)
(*   LRUConsistentCorrect  the cache's map and list agree, and it evicts   *)
(*                         what was used longest ago;                      *)
(*   StoresSoundCorrect    the cache over the file store does not lie, and *)
(*                         what was promised survives any crash;           *)
(*   HelpersSoundCorrect   the binary search of Seek, the helpers over a   *)
(*                         store that others change, and the batch builder.*)
(***************************************************************************)
EXTENDS Infra, SumProofs, SequenceTheorems

-----------------------------------------------------------------------------
(* The cache.                                                              *)

\* Removing the only place of an element keeps the others and their order.
LEMMA RemoveFirstIs ==
  ASSUME NEW S, NEW s \in Seq(S), IsInjective(s), NEW e
  PROVE  LET r == RemoveFirst(s, e)
         IN  /\ r \in Seq(S) /\ IsInjective(r)
             /\ ToSet(r) = ToSet(s) \ {e}
             /\ \A k, l : k # e /\ l # e => (Before(r, k, l) <=> Before(s, k, l))
             /\ \A k, l : Before(r, k, l) => k # e /\ l # e
<1> DEFINE r == RemoveFirst(s, e)
           n == Len(s)
<1>1. n \in Nat /\ DOMAIN s = 1 .. n /\ \A i \in 1 .. n : s[i] \in S
  OBVIOUS
<1>2. \A i, j \in 1 .. n : s[i] = s[j] => i = j
  BY <1>1 DEF IsInjective
<1>3. CASE ~ \E i \in 1 .. n : s[i] = e
  <2>1. r = s
    BY <1>3 DEF RemoveFirst
  <2>2. e \notin ToSet(s)
    BY <1>1, <1>3 DEF ToSet
  <2>3. \A k, l : Before(s, k, l) => k # e /\ l # e
    BY <1>1, <1>3 DEF Before
  <2> QED BY <2>1, <2>2, <2>3
<1>4. CASE \E i \in 1 .. n : s[i] = e
  <2>1. PICK p \in 1 .. n : s[p] = e
    BY <1>4
  <2>2. r = RemoveAt(s, p)
    <3> DEFINE I == {i \in 1 .. n : s[i] = e}
    <3>1. I = {p}
      BY <1>2, <2>1
    <3>2. Min(I) = p
      BY <3>1 DEF Min
    <3>3. SelectInSeq(s, LAMBDA v : v = e) = p
      BY <3>1, <3>2 DEF SelectInSeq
    <3> QED BY <1>4, <3>3 DEF RemoveFirst
  <2> DEFINE a == SubSeq(s, 1, p - 1)
             b == SubSeq(s, p + 1, n)
  <2>3. r = a \o b
    BY <2>2 DEF RemoveAt
  <2>4. /\ a \in Seq(S) /\ Len(a) = p - 1 /\ \A i \in 1 .. p - 1 : a[i] = s[i]
        /\ b \in Seq(S) /\ Len(b) = n - p /\ \A i \in 1 .. n - p : b[i] = s[i + p]
    BY <1>1
  <2> HIDE DEF a, b, r
  <2>5. /\ r \in Seq(S) /\ Len(r) = n - 1 /\ DOMAIN r = 1 .. n - 1
        /\ \A i \in 1 .. n - 1 : r[i] = IF i < p THEN s[i] ELSE s[i + 1]
    <3>1. r \in Seq(S) /\ Len(r) = Len(a) + Len(b) /\ DOMAIN r = 1 .. Len(a) + Len(b)
      <4>1. a \o b \in Seq(S) /\ Len(a \o b) = Len(a) + Len(b)
        <5>1. a \in Seq(S) /\ b \in Seq(S)
          BY <2>4
        <5> QED BY <5>1, ConcatProperties
      <4>2. DOMAIN r = 1 .. Len(r)
        BY <2>3, <4>1
      <4> QED BY <2>3, <4>1, <4>2
    <3>2. Len(a) + Len(b) = n - 1
      BY <1>1, <2>1, <2>4
    <3>3. \A i \in 1 .. Len(a) + Len(b) : r[i] = IF i <= Len(a) THEN a[i] ELSE b[i - Len(a)]
      BY <2>3, <2>4
    <3>4. ASSUME NEW i \in 1 .. n - 1 PROVE r[i] = IF i < p THEN s[i] ELSE s[i + 1]
      <4>1. CASE i < p
        <5>1. i \in 1 .. p - 1 /\ i <= Len(a)
          BY <1>1, <2>1, <2>4, <4>1
        <5> QED BY <2>4, <3>2, <3>3, <4>1, <5>1
      <4>2. CASE ~ (i < p)
        <5>1. i - Len(a) \in 1 .. n - p /\ ~ (i <= Len(a)) /\ i - Len(a) + p = i + 1
          BY <1>1, <2>1, <2>4, <4>2
        <5> QED BY <2>4, <3>2, <3>3, <4>2, <5>1
      <4> QED BY <4>1, <4>2
    <3> QED BY <3>1, <3>2, <3>4
  <2>6. IsInjective(r)
    BY <1>1, <1>2, <2>1, <2>5 DEF IsInjective
  <2>7. ASSUME NEW i \in 1 .. n, i # p
        PROVE  \E j \in 1 .. n - 1 : r[j] = s[i] /\ j = IF i < p THEN i ELSE i - 1
    <3>1. CASE i < p
      <4>1. i \in 1 .. n - 1
        BY <1>1, <3>1
      <4> QED BY <2>5, <3>1, <4>1
    <3>2. CASE ~ (i < p)
      <4>1. i - 1 \in 1 .. n - 1 /\ ~ (i - 1 < p) /\ i - 1 + 1 = i
        BY <1>1, <2>7, <3>2
      <4> QED BY <2>5, <3>2, <4>1
    <3> QED BY <3>1, <3>2
  <2>8. ASSUME NEW j \in 1 .. n - 1
        PROVE  \E i \in 1 .. n : r[j] = s[i] /\ i # p /\ i = IF j < p THEN j ELSE j + 1
    <3>1. CASE j < p
      <4>1. j \in 1 .. n /\ j # p
        BY <1>1, <3>1
      <4> QED BY <2>5, <3>1, <4>1
    <3>2. CASE ~ (j < p)
      <4>1. j + 1 \in 1 .. n /\ j + 1 # p
        BY <1>1, <3>2
      <4> QED BY <2>5, <3>2, <4>1
    <3> QED BY <3>1, <3>2
  <2>9. ToSet(r) = ToSet(s) \ {e}
    <3>1. ASSUME NEW x \in ToSet(r) PROVE x \in ToSet(s) \ {e}
      <4>1. PICK j \in 1 .. n - 1 : r[j] = x
        BY <2>5 DEF ToSet
      <4> QED BY <1>1, <1>2, <2>1, <2>8, <4>1 DEF ToSet
    <3>2. ASSUME NEW x \in ToSet(s) \ {e} PROVE x \in ToSet(r)
      <4>1. PICK i \in 1 .. n : s[i] = x
        BY <1>1 DEF ToSet
      <4>2. i # p
        BY <2>1, <3>2, <4>1
      <4> QED BY <2>5, <2>7, <4>1, <4>2 DEF ToSet
    <3> QED BY <3>1, <3>2
  <2>10. ASSUME NEW k, NEW l, Before(r, k, l) PROVE Before(s, k, l) /\ k # e /\ l # e
    <3>1. PICK i, j \in 1 .. n - 1 : i < j /\ r[i] = k /\ r[j] = l
      BY <2>5, <2>10 DEF Before
    <3>2. PICK x \in 1 .. n : r[i] = s[x] /\ x # p /\ x = IF i < p THEN i ELSE i + 1
      BY <2>8
    <3>3. PICK y \in 1 .. n : r[j] = s[y] /\ y # p /\ y = IF j < p THEN j ELSE j + 1
      BY <2>8
    <3>4. x < y
      BY <3>1, <3>2, <3>3
    <3>5. Before(s, k, l)
      BY <1>1, <3>1, <3>2, <3>3, <3>4 DEF Before
    <3> QED BY <1>2, <2>1, <3>1, <3>2, <3>3, <3>5
  <2>11. ASSUME NEW k, NEW l, k # e, l # e, Before(s, k, l) PROVE Before(r, k, l)
    <3>1. PICK i, j \in 1 .. n : i < j /\ s[i] = k /\ s[j] = l
      BY <1>1, <2>11 DEF Before
    <3>2. i # p /\ j # p
      BY <2>1, <2>11, <3>1
    <3>3. PICK x \in 1 .. n - 1 : r[x] = s[i] /\ x = IF i < p THEN i ELSE i - 1
      BY <2>7, <3>2
    <3>4. PICK y \in 1 .. n - 1 : r[y] = s[j] /\ y = IF j < p THEN j ELSE j - 1
      BY <2>7, <3>2
    <3>5. x < y
      BY <3>1, <3>2, <3>3, <3>4
    <3> QED BY <2>5, <3>1, <3>3, <3>4, <3>5 DEF Before
  <2> QED BY <2>5, <2>6, <2>9, <2>10, <2>11 DEF r
<1> QED BY <1>3, <1>4

\* An element appended to a sequence that does not have it.
LEMMA AppendIs ==
  ASSUME NEW S, NEW s \in Seq(S), IsInjective(s), NEW e \in S, e \notin ToSet(s)
  PROVE  LET r == Append(s, e)
         IN  /\ r \in Seq(S) /\ IsInjective(r)
             /\ ToSet(r) = ToSet(s) \cup {e}
             /\ \A k, l : Before(r, k, l) <=> (Before(s, k, l) \/ (k \in ToSet(s) /\ l = e))
<1> DEFINE r == Append(s, e)
           n == Len(s)
<1>1. n \in Nat /\ DOMAIN s = 1 .. n /\ \A i \in 1 .. n : s[i] \in S /\ s[i] # e
  BY DEF ToSet
<1>2. /\ r \in Seq(S) /\ Len(r) = n + 1 /\ DOMAIN r = 1 .. n + 1
      /\ \A i \in 1 .. n : r[i] = s[i]
      /\ r[n + 1] = e
  BY <1>1
<1>3. \A i \in 1 .. n + 1 : i \in 1 .. n \/ i = n + 1
  BY <1>1
<1>3a. n + 1 \in 1 .. n + 1 /\ n + 1 \notin 1 .. n /\ \A i \in 1 .. n : i \in 1 .. n + 1 /\ i < n + 1
  BY <1>1
<1> HIDE DEF r, n
<1>4. IsInjective(r)
  BY <1>1, <1>2, <1>3 DEF IsInjective
<1>5. ToSet(r) = ToSet(s) \cup {e}
  BY <1>1, <1>2, <1>3, <1>3a DEF ToSet
<1>6. ASSUME NEW k, NEW l, Before(r, k, l) PROVE Before(s, k, l) \/ (k \in ToSet(s) /\ l = e)
  <2>1. PICK i, j \in 1 .. n + 1 : i < j /\ r[i] = k /\ r[j] = l
    BY <1>2, <1>6 DEF Before
  <2>2. i \in 1 .. n
    BY <1>1, <2>1
  <2> QED BY <1>1, <1>2, <1>3, <2>1, <2>2 DEF Before, ToSet
<1>7. ASSUME NEW k, NEW l, Before(s, k, l) PROVE Before(r, k, l)
  BY <1>1, <1>2, <1>3a, <1>7 DEF Before
<1>8. ASSUME NEW k \in ToSet(s) PROVE Before(r, k, e)
  BY <1>1, <1>2, <1>3a DEF Before, ToSet
<1> QED BY <1>2, <1>4, <1>5, <1>6, <1>7, <1>8 DEF r

\* A cache in order: every key of its map once in its list, and no other.
CacheOK(c, keys) ==
    /\ c = [maxSize |-> c.maxSize, items |-> c.items, lru |-> c.lru]
    /\ c.items = [k \in Cached(c) |-> c.items[k]]
    /\ c.maxSize \in Nat
    /\ c.lru \in Seq(keys) /\ IsInjective(c.lru)
    /\ Cached(c) = ToSet(c.lru)
    /\ IsFiniteSet(Cached(c)) /\ Cardinality(Cached(c)) <= Max({1, c.maxSize})

LEMMA NewCacheOK ==
  ASSUME NEW size0 \in Nat, NEW keys
  PROVE  /\ CacheOK(NewLRUCache(size0), keys) /\ Cached(NewLRUCache(size0)) = {}
         /\ NewLRUCache(size0).maxSize = size0
         /\ \A k, l : ~ Before(NewLRUCache(size0).lru, k, l)
<1> DEFINE c == NewLRUCache(size0)
<1>1. c = [maxSize |-> size0, items |-> <<>>, lru |-> <<>>]
  BY DEF NewLRUCache
<1>2. Cached(c) = {} /\ c.items = [k \in Cached(c) |-> c.items[k]]
  BY <1>1 DEF Cached
<1>3. c.lru \in Seq(keys) /\ IsInjective(c.lru) /\ ToSet(c.lru) = {} /\ \A k, l : ~ Before(c.lru, k, l)
  BY <1>1 DEF IsInjective, ToSet, Before
<1>4. Max({1, size0}) >= 1
  BY MaxTwo
<1>5. IsFiniteSet(Cached(c)) /\ Cardinality(Cached(c)) = 0
  BY <1>2, FS_EmptySet
<1>6. c.maxSize = size0 /\ c = [maxSize |-> c.maxSize, items |-> c.items, lru |-> c.lru]
  BY <1>1
<1> HIDE DEF c
<1>7. Max({1, size0}) \in Int
  BY MaxTwo
<1> QED BY <1>2, <1>3, <1>4, <1>5, <1>6, <1>7 DEF CacheOK, c

LEMMA RemoveItemOK ==
  ASSUME NEW keys, NEW c, CacheOK(c, keys), NEW k
  PROVE  LET d == removeItem(c, k)
         IN  /\ CacheOK(d, keys) /\ Cached(d) = Cached(c) \ {k} /\ d.maxSize = c.maxSize
             /\ \A x \in Cached(d) : d.items[x] = c.items[x]
             /\ \A x, y : Before(d.lru, x, y) => Before(c.lru, x, y)
             /\ Cardinality(Cached(d)) = IF k \in Cached(c) THEN Cardinality(Cached(c)) - 1 ELSE Cardinality(Cached(c))
<1> DEFINE d == removeItem(c, k)
<1>1. d = [maxSize |-> c.maxSize, items |-> [x \in Cached(c) \ {k} |-> c.items[x]], lru |-> RemoveFirst(c.lru, k)]
  BY DEF removeItem, Restrict
<1>2. Cached(d) = Cached(c) \ {k} /\ d.items = [x \in Cached(d) |-> d.items[x]]
  BY <1>1 DEF Cached
<1>3. d.lru = RemoveFirst(c.lru, k) /\ d.maxSize = c.maxSize
      /\ d = [maxSize |-> d.maxSize, items |-> d.items, lru |-> d.lru]
  BY <1>1
<1>4. /\ d.lru \in Seq(keys) /\ IsInjective(d.lru) /\ ToSet(d.lru) = ToSet(c.lru) \ {k}
      /\ \A x, y : Before(d.lru, x, y) => Before(c.lru, x, y)
  <2>1. c.lru \in Seq(keys) /\ IsInjective(c.lru)
    BY DEF CacheOK
  <2> QED BY <1>3, <2>1, RemoveFirstIs
<1>5. \A x \in Cached(d) : d.items[x] = c.items[x]
  BY <1>1, <1>2
<1> HIDE DEF d
<1>6. IsFiniteSet(Cached(d)) /\ Cardinality(Cached(d)) = IF k \in Cached(c) THEN Cardinality(Cached(c)) - 1 ELSE Cardinality(Cached(c))
  <2>1. IsFiniteSet(Cached(c))
    BY DEF CacheOK
  <2> QED BY <1>2, <2>1, FS_RemoveElement
<1>7. Cardinality(Cached(d)) <= Max({1, d.maxSize})
  <2>1. Cardinality(Cached(c)) \in Nat /\ c.maxSize \in Nat /\ Cardinality(Cached(c)) <= Max({1, c.maxSize})
    BY FS_CardinalityType DEF CacheOK
  <2>2. Max({1, c.maxSize}) \in Int
    BY <2>1, MaxTwo
  <2> QED BY <1>3, <1>6, <2>1, <2>2
<1>8. CacheOK(d, keys)
  BY <1>2, <1>3, <1>4, <1>6, <1>7 DEF CacheOK
<1> QED BY <1>2, <1>3, <1>4, <1>5, <1>6, <1>8 DEF d

LEMMA UpdateLRUOK ==
  ASSUME NEW keys, NEW c, CacheOK(c, keys), NEW k \in Cached(c)
  PROVE  LET d == updateLRU(c, k)
         IN  /\ CacheOK(d, keys) /\ Cached(d) = Cached(c) /\ d.items = c.items /\ d.maxSize = c.maxSize
             /\ \A x, y : Before(d.lru, x, y) <=>
                    \/ x # k /\ y # k /\ Before(c.lru, x, y)
                    \/ x \in Cached(c) \ {k} /\ y = k
<1> DEFINE d == updateLRU(c, k)
           r == RemoveFirst(c.lru, k)
<1>1. /\ c.lru \in Seq(keys) /\ IsInjective(c.lru) /\ Cached(c) = ToSet(c.lru)
      /\ c = [maxSize |-> c.maxSize, items |-> c.items, lru |-> c.lru]
  BY DEF CacheOK
<1>2. Contains(c.lru, k) /\ k \in keys
  BY <1>1 DEF Contains, ToSet
<1>3. d = [maxSize |-> c.maxSize, items |-> c.items, lru |-> Append(r, k)]
  BY <1>1, <1>2 DEF updateLRU
<1>4. /\ r \in Seq(keys) /\ IsInjective(r) /\ ToSet(r) = ToSet(c.lru) \ {k}
      /\ \A x, y : x # k /\ y # k => (Before(r, x, y) <=> Before(c.lru, x, y))
      /\ \A x, y : Before(r, x, y) => x # k /\ y # k
  BY <1>1, RemoveFirstIs
<1> HIDE DEF r, d
<1>5. /\ Append(r, k) \in Seq(keys) /\ IsInjective(Append(r, k)) /\ ToSet(Append(r, k)) = ToSet(r) \cup {k}
      /\ \A x, y : Before(Append(r, k), x, y) <=> (Before(r, x, y) \/ (x \in ToSet(r) /\ y = k))
  <2>1. k \notin ToSet(r)
    BY <1>4
  <2> QED BY <1>2, <1>4, <2>1, AppendIs
<1>6. /\ d.lru = Append(r, k) /\ d.items = c.items /\ d.maxSize = c.maxSize /\ Cached(d) = Cached(c)
      /\ d = [maxSize |-> d.maxSize, items |-> d.items, lru |-> d.lru]
  BY <1>3 DEF Cached
<1>7. ToSet(d.lru) = Cached(d)
  BY <1>1, <1>4, <1>5, <1>6
<1>8. CacheOK(d, keys)
  BY <1>5, <1>6, <1>7 DEF CacheOK
<1>9. \A x, y : Before(d.lru, x, y) <=>
                    \/ x # k /\ y # k /\ Before(c.lru, x, y)
                    \/ x \in Cached(c) \ {k} /\ y = k
  BY <1>1, <1>4, <1>5, <1>6
<1> QED BY <1>6, <1>8, <1>9 DEF d

LEMMA ReplacedOK ==
  ASSUME NEW keys, NEW c, CacheOK(c, keys), NEW k \in Cached(c), NEW item
  PROVE  LET d == Replaced(c, k, item)
         IN  /\ CacheOK(d, keys) /\ Cached(d) = Cached(c) /\ d.lru = c.lru /\ d.maxSize = c.maxSize
             /\ d.items = [x \in Cached(c) |-> IF x = k THEN item ELSE c.items[x]]
<1> DEFINE d == Replaced(c, k, item)
<1>1. /\ c = [maxSize |-> c.maxSize, items |-> c.items, lru |-> c.lru]
      /\ c.items = [x \in Cached(c) |-> c.items[x]]
  BY DEF CacheOK
<1>2. [c.items EXCEPT ![k] = item] = [x \in Cached(c) |-> IF x = k THEN item ELSE c.items[x]]
  BY <1>1
<1>3. d = [maxSize |-> c.maxSize, items |-> [x \in Cached(c) |-> IF x = k THEN item ELSE c.items[x]], lru |-> c.lru]
  BY <1>1, <1>2 DEF Replaced
<1> HIDE DEF d
<1>4. /\ d.lru = c.lru /\ d.maxSize = c.maxSize /\ d.items = [x \in Cached(c) |-> IF x = k THEN item ELSE c.items[x]]
      /\ d = [maxSize |-> d.maxSize, items |-> d.items, lru |-> d.lru]
  BY <1>3
<1>5. Cached(d) = Cached(c) /\ d.items = [x \in Cached(d) |-> d.items[x]]
  BY <1>4 DEF Cached
<1>6. CacheOK(d, keys)
  BY <1>4, <1>5 DEF CacheOK
<1> QED BY <1>4, <1>5, <1>6 DEF d

\* Set makes room for a new key: what is evicted is first in the list.
LEMMA EvictedOK ==
  ASSUME NEW keys, NEW c, CacheOK(c, keys)
  PROVE  LET d == Evicted(c)
         IN  /\ CacheOK(d, keys) /\ Cached(d) \subseteq Cached(c) /\ d.maxSize = c.maxSize
             /\ \A x \in Cached(d) : d.items[x] = c.items[x]
             /\ \A x, y : Before(d.lru, x, y) => Before(c.lru, x, y)
             /\ Cardinality(Cached(d)) + 1 <= Max({1, c.maxSize})
<1> DEFINE d == Evicted(c)
<1>1. /\ c.lru \in Seq(keys) /\ Cached(c) = ToSet(c.lru) /\ IsFiniteSet(Cached(c)) /\ c.maxSize \in Nat
      /\ Cardinality(Cached(c)) <= Max({1, c.maxSize})
  BY DEF CacheOK
<1>2. Cardinality(Cached(c)) \in Nat
  BY <1>1, FS_CardinalityType
<1>3. Max({1, c.maxSize}) = IF 1 >= c.maxSize THEN 1 ELSE c.maxSize
  BY <1>1, MaxTwo
<1>4. CASE Cardinality(Cached(c)) >= c.maxSize /\ c.lru # <<>>
  <2>1. Head(c.lru) \in Cached(c)
    BY <1>1, <1>4 DEF ToSet
  <2>2. d = removeItem(c, Head(c.lru))
    BY <1>4 DEF Evicted
  <2> HIDE DEF d
  <2>3. /\ CacheOK(d, keys) /\ Cached(d) = Cached(c) \ {Head(c.lru)} /\ d.maxSize = c.maxSize
        /\ \A x \in Cached(d) : d.items[x] = c.items[x]
        /\ \A x, y : Before(d.lru, x, y) => Before(c.lru, x, y)
        /\ Cardinality(Cached(d)) = Cardinality(Cached(c)) - 1
    BY <2>1, <2>2, RemoveItemOK
  <2>4. Cardinality(Cached(d)) + 1 <= Max({1, c.maxSize})
    BY <1>1, <1>2, <1>3, <2>3
  <2> QED BY <2>3, <2>4 DEF d
<1>5. CASE ~ (Cardinality(Cached(c)) >= c.maxSize /\ c.lru # <<>>)
  <2>1. d = c
    BY <1>5 DEF Evicted
  <2>2. Cardinality(Cached(c)) + 1 <= Max({1, c.maxSize})
    <3>1. CASE c.lru = <<>>
      <4>1. Cached(c) = {}
        BY <1>1, <3>1 DEF ToSet
      <4> QED BY <1>1, <1>3, <4>1, FS_EmptySet
    <3>2. CASE ~ (Cardinality(Cached(c)) >= c.maxSize)
      BY <1>1, <1>2, <1>3, <3>2
    <3> QED BY <1>5, <3>1, <3>2
  <2> QED BY <2>1, <2>2
<1> QED BY <1>4, <1>5

LEMMA AddedOK ==
  ASSUME NEW keys, NEW c, CacheOK(c, keys), NEW k \in keys, k \notin Cached(c), NEW item
  PROVE  LET d == Added(c, k, item)
         IN  /\ CacheOK(d, keys) /\ Cached(d) \subseteq Cached(c) \cup {k} /\ k \in Cached(d) /\ d.maxSize = c.maxSize
             /\ \A x \in Cached(d) : d.items[x] = IF x = k THEN item ELSE c.items[x]
             /\ \A x, y : Before(d.lru, x, y) => x # k /\ (y = k \/ Before(c.lru, x, y))
<1> DEFINE d == Added(c, k, item)
           o == Evicted(c)
<1>1. /\ CacheOK(o, keys) /\ Cached(o) \subseteq Cached(c) /\ o.maxSize = c.maxSize
      /\ \A x \in Cached(o) : o.items[x] = c.items[x]
      /\ \A x, y : Before(o.lru, x, y) => Before(c.lru, x, y)
      /\ Cardinality(Cached(o)) + 1 <= Max({1, c.maxSize})
  BY EvictedOK
<1>2. d = [maxSize |-> c.maxSize, items |-> [x \in Cached(o) \cup {k} |-> IF x = k THEN item ELSE o.items[x]],
           lru |-> Append(o.lru, k)]
  BY DEF Added
<1> HIDE DEF d, o
<1>3. /\ d.maxSize = c.maxSize /\ d.lru = Append(o.lru, k) /\ Cached(d) = Cached(o) \cup {k}
      /\ d.items = [x \in Cached(d) |-> d.items[x]]
      /\ d = [maxSize |-> d.maxSize, items |-> d.items, lru |-> d.lru]
      /\ \A x \in Cached(d) : d.items[x] = IF x = k THEN item ELSE o.items[x]
  BY <1>2 DEF Cached
<1>4. /\ o.lru \in Seq(keys) /\ IsInjective(o.lru) /\ Cached(o) = ToSet(o.lru) /\ IsFiniteSet(Cached(o))
      /\ k \notin ToSet(o.lru) /\ c.maxSize \in Nat
  BY <1>1 DEF CacheOK
<1>5. /\ d.lru \in Seq(keys) /\ IsInjective(d.lru) /\ ToSet(d.lru) = ToSet(o.lru) \cup {k}
      /\ \A x, y : Before(d.lru, x, y) <=> (Before(o.lru, x, y) \/ (x \in ToSet(o.lru) /\ y = k))
  BY <1>3, <1>4, AppendIs
<1>6. IsFiniteSet(Cached(d)) /\ Cardinality(Cached(d)) = Cardinality(Cached(o)) + 1
  BY <1>3, <1>4, FS_AddElement
<1>7. CacheOK(d, keys)
  BY <1>1, <1>3, <1>4, <1>5, <1>6 DEF CacheOK
<1>8. \A x, y : Before(o.lru, x, y) => x # k
  BY <1>4 DEF Before, ToSet
<1> QED BY <1>1, <1>3, <1>4, <1>5, <1>7, <1>8 DEF d

\* An operation on key k that made cache d of cache c.
Uses(c, d, k, keys) ==
    /\ CacheOK(d, keys) /\ d.maxSize = c.maxSize /\ Cached(d) \subseteq Cached(c) \cup {k}
    /\ \A x, y : Before(d.lru, x, y) =>
            \/ x # k /\ y # k /\ Before(c.lru, x, y)
            \/ x \in Cached(c) \ {k} /\ y = k

LEMMA BeforeListed ==
  ASSUME NEW keys, NEW c, CacheOK(c, keys), NEW x, NEW y, Before(c.lru, x, y)
  PROVE  x \in Cached(c) /\ y \in Cached(c)
  BY DEF CacheOK, Before, ToSet

LEMMA AddedUses ==
  ASSUME NEW keys, NEW c, CacheOK(c, keys), NEW k \in keys, k \notin Cached(c), NEW item
  PROVE  Uses(c, Added(c, k, item), k, keys)
<1> DEFINE d == Added(c, k, item)
<1>1. /\ CacheOK(d, keys) /\ Cached(d) \subseteq Cached(c) \cup {k} /\ d.maxSize = c.maxSize
      /\ \A x, y : Before(d.lru, x, y) => x # k /\ (y = k \/ Before(c.lru, x, y))
  BY AddedOK
<1> HIDE DEF d
<1>2. ASSUME NEW x, NEW y, Before(d.lru, x, y)
      PROVE  \/ x # k /\ y # k /\ Before(c.lru, x, y)
             \/ x \in Cached(c) \ {k} /\ y = k
  <2>1. x \in Cached(d)
    BY <1>1, <1>2, BeforeListed
  <2> QED BY <1>1, <1>2, <2>1
<1> QED BY <1>1, <1>2 DEF Uses, d

LEMMA UpdatedUses ==
  ASSUME NEW keys, NEW c, CacheOK(c, keys), NEW k \in Cached(c), NEW item
  PROVE  LET d == updateLRU(Replaced(c, k, item), k)
         IN  /\ Uses(c, d, k, keys)
             /\ Cached(d) = Cached(c)
             /\ \A x \in Cached(d) : d.items[x] = IF x = k THEN item ELSE c.items[x]
<1> DEFINE r == Replaced(c, k, item)
           d == updateLRU(r, k)
<1>1. /\ CacheOK(r, keys) /\ Cached(r) = Cached(c) /\ r.lru = c.lru /\ r.maxSize = c.maxSize
      /\ r.items = [x \in Cached(c) |-> IF x = k THEN item ELSE c.items[x]]
  BY ReplacedOK
<1> HIDE DEF r
<1>2. /\ CacheOK(d, keys) /\ Cached(d) = Cached(r) /\ d.items = r.items /\ d.maxSize = r.maxSize
      /\ \A x, y : Before(d.lru, x, y) <=>
                    \/ x # k /\ y # k /\ Before(r.lru, x, y)
                    \/ x \in Cached(r) \ {k} /\ y = k
  BY <1>1, UpdateLRUOK
<1> HIDE DEF d
<1>3. Uses(c, d, k, keys)
  BY <1>1, <1>2 DEF Uses
<1> QED BY <1>1, <1>2, <1>3 DEF d, r

LEMMA CacheSetOK ==
  ASSUME NEW keys, NEW c, CacheOK(c, keys), NEW k \in keys, NEW v
  PROVE  LET d == CacheSet(c, k, v)
         IN  /\ Uses(c, d, k, keys) /\ k \in Cached(d)
             /\ \A x \in Cached(d) : d.items[x].value = IF x = k THEN v ELSE c.items[x].value
             /\ (\A x \in Cached(c) : c.items[x].expiry = NoExpiry) =>
                    \A x \in Cached(d) : d.items[x].expiry = NoExpiry
<1> DEFINE d == CacheSet(c, k, v)
<1>1. CASE k \in Cached(c)
  <2> DEFINE item == [value |-> v, expiry |-> c.items[k].expiry]
  <2>1. d = updateLRU(Replaced(c, k, item), k)
    BY <1>1 DEF CacheSet
  <2>2. item.value = v /\ item.expiry = c.items[k].expiry
    OBVIOUS
  <2> HIDE DEF item, d
  <2>3. /\ Uses(c, d, k, keys) /\ Cached(d) = Cached(c)
        /\ \A x \in Cached(d) : d.items[x] = IF x = k THEN item ELSE c.items[x]
    BY <1>1, <2>1, UpdatedUses
  <2> QED BY <1>1, <2>2, <2>3 DEF d
<1>2. CASE k \notin Cached(c)
  <2> DEFINE item == [value |-> v, expiry |-> NoExpiry]
  <2>1. d = Added(c, k, item)
    BY <1>2 DEF CacheSet
  <2>2. item.value = v /\ item.expiry = NoExpiry
    OBVIOUS
  <2> HIDE DEF item, d
  <2>3. /\ Cached(d) \subseteq Cached(c) \cup {k} /\ k \in Cached(d)
        /\ \A x \in Cached(d) : d.items[x] = IF x = k THEN item ELSE c.items[x]
    BY <1>2, <2>1, AddedOK
  <2>4. Uses(c, d, k, keys)
    BY <1>2, <2>1, AddedUses
  <2> QED BY <2>2, <2>3, <2>4 DEF d
<1> QED BY <1>1, <1>2

LEMMA SetWithExpiryOK ==
  ASSUME NEW keys, NEW c, CacheOK(c, keys), NEW k \in keys, NEW v, NEW until
  PROVE  Uses(c, SetWithExpiry(c, k, v, until), k, keys)
<1> DEFINE item == [value |-> v, expiry |-> until]
<1>1. SetWithExpiry(c, k, v, until) = IF k \in Cached(c) THEN updateLRU(Replaced(c, k, item), k) ELSE Added(c, k, item)
  BY DEF SetWithExpiry
<1> HIDE DEF item
<1>2. CASE k \in Cached(c)
  BY <1>1, <1>2, UpdatedUses
<1>3. CASE k \notin Cached(c)
  BY <1>1, <1>3, AddedUses
<1> QED BY <1>2, <1>3

LEMMA HitUses ==
  ASSUME NEW keys, NEW c, CacheOK(c, keys), NEW k, NEW now, Hit(c, k, now)
  PROVE  LET d == CacheGet(c, k, now)
         IN  Uses(c, d, k, keys) /\ Cached(d) = Cached(c) /\ d.items = c.items
<1> DEFINE d == CacheGet(c, k, now)
<1>1. k \in Cached(c)
  BY DEF Hit
<1>2. d = updateLRU(c, k)
  BY DEF CacheGet
<1> HIDE DEF d
<1>3. /\ CacheOK(d, keys) /\ Cached(d) = Cached(c) /\ d.items = c.items /\ d.maxSize = c.maxSize
      /\ \A x, y : Before(d.lru, x, y) <=>
                    \/ x # k /\ y # k /\ Before(c.lru, x, y)
                    \/ x \in Cached(c) \ {k} /\ y = k
  BY <1>1, <1>2, UpdateLRUOK
<1>4. Uses(c, d, k, keys)
  BY <1>3 DEF Uses
<1> QED BY <1>3, <1>4 DEF d

\* The inductive invariant of the cache: the history lists every key that was
\* used once, and the list of the cache follows it.
CacheInv ==
    /\ CacheOK(lruCache, CacheKeys) /\ lruCache.maxSize \in Sizes
    /\ cacheNow \in 0 .. CacheMaxTime
    /\ recency \in Seq(CacheKeys) /\ IsInjective(recency)
    /\ Cached(lruCache) \subseteq ToSet(recency)
    /\ \A x, y : Before(lruCache.lru, x, y) => Before(recency, x, y)

LEMMA CacheInvSound == CacheInv => LRUConsistent /\ CacheTypeOK
<1> SUFFICES ASSUME CacheInv PROVE LRUConsistent /\ CacheTypeOK
  OBVIOUS
<1>1. LRUConsistent
  BY DEF CacheInv, CacheOK, LRUConsistent
<1>2. Cached(lruCache) \subseteq CacheKeys
  BY DEF CacheInv, CacheOK, ToSet
<1>3. CacheTypeOK
  BY <1>2 DEF CacheInv, CacheOK, CacheTypeOK
<1> QED BY <1>1, <1>3

LEMMA CacheInitOK == CacheInit => CacheInv
<1> SUFFICES ASSUME CacheInit PROVE CacheInv
  OBVIOUS
<1>1. PICK n \in Sizes : lruCache = NewLRUCache(n)
  BY DEF CacheInit
<1>2. n \in Nat
  BY CacheAssumption
<1>3. /\ CacheOK(lruCache, CacheKeys) /\ Cached(lruCache) = {} /\ lruCache.maxSize = n
      /\ \A x, y : ~ Before(lruCache.lru, x, y)
  BY <1>1, <1>2, NewCacheOK
<1>4. recency = <<>> /\ cacheNow = 0
  BY DEF CacheInit
<1>5. recency \in Seq(CacheKeys) /\ IsInjective(recency)
  BY <1>4 DEF IsInjective
<1>6. cacheNow \in 0 .. CacheMaxTime
  BY <1>4, CacheAssumption
<1> QED BY <1>1, <1>3, <1>5, <1>6 DEF CacheInv

LEMMA UsedKeeps ==
  ASSUME CacheInv, NEW k \in CacheKeys, Uses(lruCache, lruCache', k, CacheKeys), Used(k), cacheNow' = cacheNow
  PROVE  CacheInv'
<1> DEFINE r == RemoveFirst(recency, k)
           q == Append(r, k)
<1>1. /\ recency \in Seq(CacheKeys) /\ IsInjective(recency)
      /\ Cached(lruCache) \subseteq ToSet(recency)
      /\ \A x, y : Before(lruCache.lru, x, y) => Before(recency, x, y)
      /\ lruCache.maxSize \in Sizes /\ cacheNow \in 0 .. CacheMaxTime
  BY DEF CacheInv
<1>2. /\ r \in Seq(CacheKeys) /\ IsInjective(r) /\ ToSet(r) = ToSet(recency) \ {k}
      /\ \A x, y : x # k /\ y # k => (Before(r, x, y) <=> Before(recency, x, y))
  BY <1>1, RemoveFirstIs
<1> HIDE DEF r
<1>3. /\ q \in Seq(CacheKeys) /\ IsInjective(q) /\ ToSet(q) = ToSet(r) \cup {k}
      /\ \A x, y : Before(q, x, y) <=> (Before(r, x, y) \/ (x \in ToSet(r) /\ y = k))
  <2>1. k \notin ToSet(r)
    BY <1>2
  <2> QED BY <1>2, <2>1, AppendIs
<1>4. recency' = q
  BY DEF Used, r
<1> HIDE DEF q
<1>5. /\ CacheOK(lruCache', CacheKeys) /\ lruCache'.maxSize = lruCache.maxSize
      /\ Cached(lruCache') \subseteq Cached(lruCache) \cup {k}
      /\ \A x, y : Before(lruCache'.lru, x, y) =>
            \/ x # k /\ y # k /\ Before(lruCache.lru, x, y)
            \/ x \in Cached(lruCache) \ {k} /\ y = k
  BY DEF Uses
<1>6. Cached(lruCache') \subseteq ToSet(q)
  BY <1>1, <1>2, <1>3, <1>5
<1>7. ASSUME NEW x, NEW y, Before(lruCache'.lru, x, y) PROVE Before(q, x, y)
  BY <1>1, <1>2, <1>3, <1>5, <1>7
<1>8. CacheOK(lruCache, CacheKeys)'
  BY <1>5 DEF CacheOK, Cached
<1>9. Cached(lruCache)' = Cached(lruCache')
  BY DEF Cached
<1>10. \A x, y : Before(lruCache.lru, x, y)' => Before(recency, x, y)'
  BY <1>4, <1>7 DEF Before
<1>11. IsInjective(recency)' /\ ToSet(recency)' = ToSet(q) /\ recency' \in Seq(CacheKeys)
  BY <1>3, <1>4 DEF IsInjective, ToSet
<1> QED BY <1>1, <1>5, <1>6, <1>8, <1>9, <1>10, <1>11 DEF CacheInv

\* The cache loses keys, and the history stays.
LEMMA ShrunkKeeps ==
  ASSUME CacheInv, CacheOK(lruCache', CacheKeys), lruCache'.maxSize = lruCache.maxSize,
         Cached(lruCache') \subseteq Cached(lruCache),
         \A x, y : Before(lruCache'.lru, x, y) => Before(lruCache.lru, x, y),
         UNCHANGED <<cacheNow, recency>>
  PROVE  CacheInv'
<1>1. CacheOK(lruCache, CacheKeys)' /\ Cached(lruCache)' = Cached(lruCache')
  BY DEF CacheOK, Cached
<1>2. \A x, y : Before(lruCache.lru, x, y)' => Before(recency, x, y)'
  <2>1. \A x, y : Before(lruCache.lru, x, y)' <=> Before(lruCache'.lru, x, y)
    BY DEF Before
  <2>2. \A x, y : Before(recency, x, y)' <=> Before(recency, x, y)
    BY DEF Before
  <2>3. \A x, y : Before(lruCache.lru, x, y) => Before(recency, x, y)
    BY DEF CacheInv
  <2> QED BY <2>1, <2>2, <2>3
<1>3. IsInjective(recency)' /\ ToSet(recency)' = ToSet(recency)
  BY DEF CacheInv, IsInjective, ToSet
<1> QED BY <1>1, <1>2, <1>3 DEF CacheInv

LEMMA CacheNextOK == CacheInv /\ [CacheNext]_cacheVars => CacheInv'
<1> SUFFICES ASSUME CacheInv, [CacheNext]_cacheVars PROVE CacheInv'
  OBVIOUS
<1>1. CacheOK(lruCache, CacheKeys) /\ lruCache.maxSize \in Nat
  BY DEF CacheInv, CacheOK
<1>2. ASSUME NEW k \in CacheKeys, lruCache' = CacheSet(lruCache, k, 0), Used(k), UNCHANGED cacheNow
      PROVE  CacheInv'
  <2>1. Uses(lruCache, lruCache', k, CacheKeys)
    BY <1>1, <1>2, CacheSetOK
  <2> QED BY <1>2, <2>1, UsedKeeps
<1>3. ASSUME NEW k \in CacheKeys, NEW ttl \in TTLs, Used(k), UNCHANGED cacheNow,
             lruCache' = SetWithExpiry(lruCache, k, 0, cacheNow + ttl)
      PROVE  CacheInv'
  <2>1. Uses(lruCache, lruCache', k, CacheKeys)
    BY <1>1, <1>3, SetWithExpiryOK
  <2> QED BY <1>3, <2>1, UsedKeeps
<1>4. ASSUME NEW k \in CacheKeys, lruCache' = CacheGet(lruCache, k, cacheNow), UNCHANGED cacheNow,
             IF Hit(lruCache, k, cacheNow) THEN Used(k) ELSE UNCHANGED recency
      PROVE  CacheInv'
  <2>1. CASE Hit(lruCache, k, cacheNow)
    <3>1. Uses(lruCache, lruCache', k, CacheKeys)
      BY <1>1, <1>4, <2>1, HitUses
    <3> QED BY <1>4, <2>1, <3>1, UsedKeeps
  <2>2. CASE ~ Hit(lruCache, k, cacheNow) /\ k \in Cached(lruCache)
    <3>1. lruCache' = removeItem(lruCache, k)
      BY <1>4, <2>2 DEF CacheGet
    <3>2. /\ CacheOK(lruCache', CacheKeys) /\ lruCache'.maxSize = lruCache.maxSize
          /\ Cached(lruCache') \subseteq Cached(lruCache)
          /\ \A x, y : Before(lruCache'.lru, x, y) => Before(lruCache.lru, x, y)
      BY <1>1, <3>1, RemoveItemOK
    <3> QED BY <1>4, <2>2, <3>2, ShrunkKeeps
  <2>3. CASE ~ Hit(lruCache, k, cacheNow) /\ k \notin Cached(lruCache)
    <3>1. lruCache' = lruCache
      BY <1>4, <2>3 DEF CacheGet
    <3> QED BY <1>1, <1>4, <2>3, <3>1, ShrunkKeeps
  <2> QED BY <2>1, <2>2, <2>3
<1>5. ASSUME NEW k \in CacheKeys, lruCache' = CacheDelete(lruCache, k), UNCHANGED <<cacheNow, recency>>
      PROVE  CacheInv'
  <2>1. lruCache' = removeItem(lruCache, k)
    BY <1>5 DEF CacheDelete
  <2>2. /\ CacheOK(lruCache', CacheKeys) /\ lruCache'.maxSize = lruCache.maxSize
        /\ Cached(lruCache') \subseteq Cached(lruCache)
        /\ \A x, y : Before(lruCache'.lru, x, y) => Before(lruCache.lru, x, y)
    BY <1>1, <2>1, RemoveItemOK
  <2> QED BY <1>5, <2>2, ShrunkKeeps
<1>6. ASSUME lruCache' = CacheClear(lruCache), UNCHANGED <<cacheNow, recency>>
      PROVE  CacheInv'
  <2>1. lruCache' = NewLRUCache(lruCache.maxSize)
    BY <1>6 DEF CacheClear
  <2>2. /\ CacheOK(lruCache', CacheKeys) /\ lruCache'.maxSize = lruCache.maxSize /\ Cached(lruCache') = {}
        /\ \A x, y : ~ Before(lruCache'.lru, x, y)
    BY <1>1, <2>1, NewCacheOK
  <2> QED BY <1>6, <2>2, ShrunkKeeps
<1>7. CASE CacheTick
  <2>1. cacheNow' \in 0 .. CacheMaxTime
    BY <1>7, CacheAssumption DEF CacheTick, CacheInv
  <2> QED BY <1>7, <2>1 DEF CacheTick, CacheInv
<1>8. CASE UNCHANGED cacheVars
  BY <1>8 DEF cacheVars, CacheInv
<1>9. CASE CacheStep
  BY <1>2, <1>3, <1>4, <1>5, <1>6, <1>9 DEF CacheStep
<1> QED BY <1>7, <1>8, <1>9 DEF CacheNext

\* Whatever Set, Get, Delete, Clear and the expiry of items do to the cache of
\* cache.go, its map and its list name the same keys, at most maxSize of them
\* (or one), and the list has them in the order of their last use.
THEOREM LRUConsistentCorrect == CacheSpec => []LRUConsistent
  BY CacheInitOK, CacheNextOK, CacheInvSound, PTL DEF CacheSpec

-----------------------------------------------------------------------------
(* The file store.                                                         *)

EntryRec == [key : DBKeys, value : DBValues]
DiskType == [Files -> {NoFile, Torn} \cup EntryRec]
DataType == [DBKeys -> DBValues \cup {Absent}]
PromiseType == [DBKeys -> DBValues \cup {Absent, InDoubt}]

\* A file holds nothing but the entry of a key with its path.
FilesOwn(d) == \A f \in Files : d[f] \in EntryRec => File[d[f].key] = f

\* The files d keep the promise p for key k.
Kept(d, p, k) ==
    /\ p[k] \in DBValues => d[File[k]] = [key |-> k, value |-> p[k]]
    /\ p[k] = Absent => ~ (d[File[k]] \in EntryRec /\ d[File[k]].key = k)

\* The files e after an operation on keys that found the files d: no file of
\* another path changed, and no entry of another key is new.
DiskStep(keys, d, e) ==
    /\ e \in DiskType /\ FilesOwn(e)
    /\ \A f \in Files : (\A k \in keys : File[k] # f) => e[f] = d[f]
    /\ \A f \in Files : e[f] \in EntryRec => e[f] = d[f] \/ e[f].key \in keys

LEMMA DBConstants ==
  /\ \A k \in DBKeys : File[k] \in Files
  /\ Absent \notin DBValues /\ InDoubt \notin DBValues /\ Absent # InDoubt
  /\ NoFile \notin EntryRec /\ Torn \notin EntryRec /\ NoFile # Torn
  /\ DBCacheSize \in Nat /\ MaxFaults \in Nat
  BY DBAssumption DEF EntryRec

LEMMA EntryIs ==
  ASSUME NEW k \in DBKeys, NEW v \in DBValues
  PROVE  LET e == [key |-> k, value |-> v]
         IN  e \in EntryRec /\ e.key = k /\ e.value = v
  BY DEF EntryRec

\* The files keep what is promised, each the entry of a key of its own path.
DurInv ==
    /\ disk \in DiskType /\ promised \in PromiseType
    /\ FilesOwn(disk)
    /\ \A k \in DBKeys : Kept(disk, promised, k)

\* An open store has in memory what is promised.
MemInv == dbState = "open" => \A k \in DBKeys : promised[k] # InDoubt => data[k] = promised[k]

\* The store's cache has no expiries.
PlainItems(c) == \A k \in Cached(c) : c.items[k].expiry = NoExpiry

\* The cache is in order, agrees with the memory, and is empty when the store
\* is not open.
AgreeInv ==
    /\ CacheOK(dbCache, DBKeys) /\ PlainItems(dbCache)
    /\ dbState # "open" => Cached(dbCache) = {}
    /\ CacheAgrees

DBRest ==
    /\ data \in DataType
    /\ dbState \in {"open", "closed", "down"}
    /\ tainted \subseteq DBKeys
    /\ faults \in 0 .. MaxFaults

\* The inductive invariant of the store.
DBInv == DurInv /\ MemInv /\ AgreeInv /\ DBRest

\* An operation that touched the files of keys and promised something of them.
LEMMA PromiseKeepsDisk ==
  ASSUME DurInv, NEW keys \in SUBSET DBKeys, NEW promise, Promise(keys, promise),
         DiskStep(keys, disk, disk'),
         \A k \in keys : promise[k] \in DBValues \cup {Absent, InDoubt} /\ Kept(disk', promise, k)
  PROVE  DurInv'
<1>1. promised' = [k \in DBKeys |->
        CASE k \in keys                                       -> promise[k]
          [] k \in Neighbours(keys) /\ promised[k] # Absent   -> InDoubt
          [] OTHER                                            -> promised[k]]
  BY DEF Promise
<1>2. \A k \in Neighbours(keys) : k \notin keys
  BY DEF Neighbours
<1>3. \A k \in DBKeys : promised'[k] =
        IF k \in keys THEN promise[k]
        ELSE IF k \in Neighbours(keys) /\ promised[k] # Absent THEN InDoubt ELSE promised[k]
  BY <1>1, <1>2
<1>4. /\ disk' \in DiskType /\ FilesOwn(disk')
      /\ \A f \in Files : (\A k \in keys : File[k] # f) => disk'[f] = disk[f]
      /\ \A f \in Files : disk'[f] \in EntryRec => disk'[f] = disk[f] \/ disk'[f].key \in keys
  BY DEF DiskStep
<1>5. /\ promised \in PromiseType
      /\ \A k \in DBKeys : Kept(disk, promised, k)
  BY DEF DurInv
<1>6. promised' \in PromiseType
  <2>1. \A k \in DBKeys : promised[k] \in DBValues \cup {Absent, InDoubt}
    BY <1>5 DEF PromiseType
  <2>2. \A k \in DBKeys : promised'[k] \in DBValues \cup {Absent, InDoubt}
    BY <1>3, <2>1
  <2>3. promised' = [k \in DBKeys |-> promised'[k]]
    BY <1>1
  <2> QED BY <2>2, <2>3 DEF PromiseType
<1>7. ASSUME NEW k \in DBKeys PROVE Kept(disk', promised', k)
  <2>0. File[k] \in Files
    BY DBConstants
  <2>1. CASE k \in keys
    BY <1>3, <2>1 DEF Kept
  <2>2. CASE k \notin keys /\ k \in Neighbours(keys) /\ promised[k] # Absent
    <3>1. promised'[k] = InDoubt
      BY <1>3, <2>2
    <3> QED BY <3>1, DBConstants DEF Kept
  <2>3. CASE k \notin keys /\ k \in Neighbours(keys) /\ promised[k] = Absent
    <3>1. promised'[k] = Absent
      BY <1>3, <2>3
    <3>2. ~ (disk[File[k]] \in EntryRec /\ disk[File[k]].key = k)
      BY <1>5, <2>3 DEF Kept
    <3>3. ~ (disk'[File[k]] \in EntryRec /\ disk'[File[k]].key = k)
      BY <1>4, <2>0, <2>3, <3>2
    <3> QED BY <3>1, <3>3, DBConstants DEF Kept
  <2>4. CASE k \notin keys /\ k \notin Neighbours(keys)
    <3>1. promised'[k] = promised[k]
      BY <1>3, <2>4
    <3>2. \A other \in keys : File[other] # File[k]
      BY <2>4 DEF Neighbours
    <3>3. disk'[File[k]] = disk[File[k]]
      BY <1>4, <2>0, <3>2
    <3> QED BY <1>5, <3>1, <3>3 DEF Kept
  <2> QED BY <2>1, <2>2, <2>3, <2>4
<1>8. FilesOwn(disk)' /\ \A k \in DBKeys : Kept(disk, promised, k)'
  BY <1>4, <1>7 DEF FilesOwn, Kept
<1> QED BY <1>4, <1>6, <1>8 DEF DurInv, DiskType, PromiseType, EntryRec

LEMMA DoubtKeepsDisk ==
  ASSUME DurInv, NEW keys \in SUBSET DBKeys, DoubtAll(keys), DiskStep(keys, disk, disk')
  PROVE  DurInv'
<1> DEFINE promise == [k \in keys |-> InDoubt]
<1>1. Promise(keys, promise)
  BY DEF DoubtAll
<1>2. \A k \in keys : promise[k] = InDoubt
  OBVIOUS
<1> HIDE DEF promise
<1>3. \A k \in keys : promise[k] \in DBValues \cup {Absent, InDoubt} /\ Kept(disk', promise, k)
  BY <1>2, DBConstants DEF Kept
<1> QED BY <1>1, <1>3, PromiseKeepsDisk

LEMMA PromiseKeepsMemory ==
  ASSUME MemInv, dbState = "open", NEW keys \in SUBSET DBKeys, NEW promise, Promise(keys, promise),
         \A k \in DBKeys \ keys : data'[k] = data[k],
         \A k \in keys : promise[k] # InDoubt => data'[k] = promise[k]
  PROVE  MemInv'
<1>1. promised' = [k \in DBKeys |->
        CASE k \in keys                                       -> promise[k]
          [] k \in Neighbours(keys) /\ promised[k] # Absent   -> InDoubt
          [] OTHER                                            -> promised[k]]
  BY DEF Promise
<1>2. \A k \in Neighbours(keys) : k \notin keys
  BY DEF Neighbours
<1>3. \A k \in DBKeys : promised'[k] =
        IF k \in keys THEN promise[k]
        ELSE IF k \in Neighbours(keys) /\ promised[k] # Absent THEN InDoubt ELSE promised[k]
  BY <1>1, <1>2
<1>4. ASSUME NEW k \in DBKeys, promised'[k] # InDoubt PROVE data'[k] = promised'[k]
  <2>1. CASE k \in keys
    BY <1>3, <1>4, <2>1
  <2>2. CASE k \notin keys
    <3>1. promised'[k] = promised[k]
      BY <1>3, <1>4, <2>2
    <3>2. data[k] = promised[k]
      BY <1>4, <3>1 DEF MemInv
    <3> QED BY <2>2, <3>1, <3>2
  <2> QED BY <2>1, <2>2
<1> QED BY <1>4 DEF MemInv

LEMMA DoubtKeepsMemory ==
  ASSUME MemInv, dbState = "open", NEW keys \in SUBSET DBKeys, DoubtAll(keys),
         \A k \in DBKeys \ keys : data'[k] = data[k]
  PROVE  MemInv'
<1> DEFINE promise == [k \in keys |-> InDoubt]
<1>1. Promise(keys, promise)
  BY DEF DoubtAll
<1>2. \A k \in keys : promise[k] = InDoubt
  OBVIOUS
<1> HIDE DEF promise
<1> QED BY <1>1, <1>2, PromiseKeepsMemory

\* The cache and the memory agree about the keys that are not tainted.
LEMMA AgreeKeeps ==
  ASSUME AgreeInv, NEW keys \in SUBSET DBKeys, dbState = "open", dbState' = "open",
         CacheOK(dbCache', DBKeys), PlainItems(dbCache'),
         \A k \in Cached(dbCache') \ tainted' :
            data'[k] = dbCache'.items[k].value
  PROVE  AgreeInv'
<1>1. CacheOK(dbCache, DBKeys)' /\ PlainItems(dbCache)'
  BY DEF CacheOK, PlainItems, Cached
<1>2. CacheAgrees'
  BY DEF CacheAgrees, Cached
<1> QED BY <1>1, <1>2 DEF AgreeInv

LEMMA EmptyAgrees ==
  ASSUME NEW n \in Nat, dbCache' = NewLRUCache(n)
  PROVE  AgreeInv'
<1>1. CacheOK(dbCache', DBKeys) /\ Cached(dbCache') = {}
  BY NewCacheOK
<1>2. CacheOK(dbCache, DBKeys)' /\ Cached(dbCache)' = {}
  BY <1>1 DEF CacheOK, Cached
<1>3. PlainItems(dbCache)' /\ CacheAgrees'
  BY <1>2 DEF PlainItems, CacheAgrees
<1> QED BY <1>2, <1>3 DEF AgreeInv

LEMMA FailedKeeps ==
  ASSUME DBInv, dbState = "open", NEW keys \in SUBSET DBKeys, Failed(keys), DiskStep(keys, disk, disk'),
         data' \in DataType, \A k \in DBKeys \ keys : data'[k] = data[k]
  PROVE  DBInv'
<1>1. /\ faults < MaxFaults /\ faults' = faults + 1 /\ tainted' = tainted \cup keys /\ DoubtAll(keys)
      /\ dbState' = dbState /\ dbCache' = dbCache
  BY DEF Failed
<1>2. DurInv'
  BY <1>1, DoubtKeepsDisk DEF DBInv
<1>3. MemInv'
  BY <1>1, DoubtKeepsMemory DEF DBInv
<1>4. AgreeInv'
  <2>1. AgreeInv /\ CacheOK(dbCache', DBKeys) /\ PlainItems(dbCache')
    BY <1>1 DEF DBInv, AgreeInv
  <2>2. Cached(dbCache) \subseteq DBKeys
    BY DEF DBInv, AgreeInv, CacheOK, ToSet
  <2>3. \A k \in Cached(dbCache') \ tainted' : data'[k] = dbCache'.items[k].value
    BY <1>1, <2>1, <2>2 DEF AgreeInv, CacheAgrees
  <2> QED BY <1>1, <2>1, <2>3, AgreeKeeps
<1>5. DBRest'
  <2>1. faults' \in 0 .. MaxFaults
    BY <1>1, DBConstants DEF DBInv, DBRest
  <2> QED BY <1>1, <2>1 DEF DBInv, DBRest, DataType
<1> QED BY <1>2, <1>3, <1>4, <1>5 DEF DBInv

LEMMA NoDataType == NoData \in DataType
  BY DEF NoData, DataType

LEMMA CrashedKeeps ==
  ASSUME DBInv, NEW keys \in SUBSET DBKeys, Crashed(keys), DiskStep(keys, disk, disk')
  PROVE  DBInv'
<1>1. /\ faults < MaxFaults /\ faults' = faults + 1 /\ tainted' = {} /\ DoubtAll(keys)
      /\ dbState' = "down" /\ dbCache' = NewLRUCache(DBCacheSize) /\ data' = NoData
  BY DEF Crashed
<1>2. DurInv'
  BY <1>1, DoubtKeepsDisk DEF DBInv
<1>3. MemInv'
  BY <1>1 DEF MemInv
<1>4. AgreeInv'
  BY <1>1, DBConstants, EmptyAgrees
<1>5. DBRest'
  <2>1. faults' \in 0 .. MaxFaults
    BY <1>1, DBConstants DEF DBInv, DBRest
  <2> QED BY <1>1, <2>1, NoDataType DEF DBInv, DBRest, DataType
<1> QED BY <1>2, <1>3, <1>4, <1>5 DEF DBInv

LEMMA DiskStepTrans ==
  ASSUME NEW keys, NEW d, NEW e, NEW g, DiskStep(keys, d, e), DiskStep(keys, e, g)
  PROVE  DiskStep(keys, d, g)
<1>1. \A f \in Files : g[f] \in EntryRec => g[f] = d[f] \/ g[f].key \in keys
  BY DEF DiskStep
<1> QED BY <1>1 DEF DiskStep

LEMMA DiskStepSame ==
  ASSUME NEW keys, NEW d \in DiskType, FilesOwn(d)
  PROVE  DiskStep(keys, d, d)
  BY DEF DiskStep

\* What an operation on k may leave in its file.
MayHold(d, k, x) == x \in {NoFile, Torn, d[File[k]]} \/ \E v \in DBValues : x = [key |-> k, value |-> v]

Replaces(d, k, x, e) == e = [d EXCEPT ![File[k]] = x]

\* A file is replaced.
LEMMA DiskStepOne ==
  ASSUME NEW keys \in SUBSET DBKeys, NEW d \in DiskType, FilesOwn(d), NEW k \in keys,
         NEW x, MayHold(d, k, x), NEW e, Replaces(d, k, x, e)
  PROVE  DiskStep(keys, d, e) /\ e[File[k]] = x /\ \A f \in Files : f # File[k] => e[f] = d[f]
<1>0. e = [d EXCEPT ![File[k]] = x]
  BY DEF Replaces
<1>1. k \in DBKeys /\ File[k] \in Files /\ d \in [Files -> {NoFile, Torn} \cup EntryRec]
  BY DBConstants DEF DiskType
<1>2. \A f \in Files : e[f] = IF f = File[k] THEN x ELSE d[f]
  BY <1>0, <1>1
<1>3. \A v \in DBValues : [key |-> k, value |-> v] \in EntryRec /\ [key |-> k, value |-> v].key = k
  BY <1>1, EntryIs
<1>4. x \in EntryRec => x = d[File[k]] \/ x.key = k
  BY <1>3, DBConstants DEF MayHold
<1>5. x \in {NoFile, Torn} \cup EntryRec
  BY <1>1, <1>3 DEF MayHold
<1>6. e \in DiskType
  BY <1>0, <1>1, <1>5 DEF DiskType
<1>7. FilesOwn(e)
  <2> SUFFICES ASSUME NEW f \in Files, e[f] \in EntryRec PROVE File[e[f].key] = f
    BY DEF FilesOwn
  <2>1. CASE f = File[k]
    BY <1>1, <1>2, <1>4, <2>1 DEF FilesOwn
  <2>2. CASE f # File[k]
    BY <1>2, <2>2 DEF FilesOwn
  <2> QED BY <2>1, <2>2
<1>8. \A f \in Files : e[f] \in EntryRec => e[f] = d[f] \/ e[f].key \in keys
  BY <1>2, <1>4
<1>9. \A f \in Files : (\A j \in keys : File[j] # f) => e[f] = d[f]
  BY <1>2
<1> QED BY <1>1, <1>2, <1>6, <1>7, <1>8, <1>9 DEF DiskStep

LEMMA WriteFileOK ==
  ASSUME NEW keys \in SUBSET DBKeys, NEW d \in DiskType, FilesOwn(d), NEW k \in keys,
         NEW v \in DBValues, NEW outcome \in FileOutcomes
  PROVE  LET e == writeFile(d, k, v, outcome)
         IN  /\ DiskStep(keys, d, e)
             /\ outcome = "done" => e[File[k]] = [key |-> k, value |-> v]
             /\ \A f \in Files : f # File[k] => e[f] = d[f]
<1> DEFINE e == writeFile(d, k, v, outcome)
<1>1. CASE outcome = "done"
  <2>1. Replaces(d, k, [key |-> k, value |-> v], e)
    BY <1>1 DEF writeFile, Replaces
  <2>2. MayHold(d, k, [key |-> k, value |-> v])
    BY DEF MayHold
  <2> HIDE DEF e
  <2>3. DiskStep(keys, d, e) /\ e[File[k]] = [key |-> k, value |-> v] /\ \A f \in Files : f # File[k] => e[f] = d[f]
    BY <2>1, <2>2, DiskStepOne
  <2> QED BY <2>3 DEF e
<1>2. CASE outcome = "torn"
  <2>1. Replaces(d, k, Torn, e)
    BY <1>2 DEF writeFile, Replaces
  <2>2. MayHold(d, k, Torn)
    BY DEF MayHold
  <2> HIDE DEF e
  <2>3. DiskStep(keys, d, e) /\ \A f \in Files : f # File[k] => e[f] = d[f]
    BY <2>1, <2>2, DiskStepOne
  <2> QED BY <1>2, <2>3 DEF e
<1>3. CASE outcome = "unopened"
  <2>1. e = d
    BY <1>3 DEF writeFile
  <2> HIDE DEF e
  <2>2. DiskStep(keys, d, e)
    BY <2>1, DiskStepSame
  <2> QED BY <1>3, <2>1, <2>2 DEF e
<1> QED BY <1>1, <1>2, <1>3 DEF FileOutcomes

\* A single key is promised a value or its absence.
LEMMA PromiseOneIs ==
  ASSUME NEW k, NEW x, PromiseOne(k, x)
  PROVE  \E promise : Promise({k}, promise) /\ promise[k] = x
  BY DEF PromiseOne

LEMMA PutKeeps ==
  ASSUME DBInv, NEW k \in DBKeys, NEW v \in DBValues, Put(k, v)
  PROVE  DBInv'
<1>1. PICK outcome \in FileOutcomes :
        /\ disk' = writeFile(disk, k, v, outcome)
        /\ \/ /\ outcome = "done"
              /\ data' = [data EXCEPT ![k] = v]
              /\ dbCache' = CacheSet(dbCache, k, v)
              /\ Answered({k})
              /\ PromiseOne(k, v)
           \/ outcome # "done" /\ data' = [data EXCEPT ![k] = v] /\ Failed({k})
           \/ Crashed({k})
  BY DEF Put
<1>2. dbState = "open" /\ {k} \in SUBSET DBKeys
  BY DEF Put
<1>3. DiskStep({k}, disk, disk') /\ (outcome = "done" => disk'[File[k]] = [key |-> k, value |-> v])
  <2>1. disk \in DiskType /\ FilesOwn(disk) /\ k \in {k}
    BY DEF DBInv, DurInv
  <2> QED BY <1>1, <1>2, <2>1, WriteFileOK
<1>4. ASSUME data' = [data EXCEPT ![k] = v]
      PROVE  data' \in DataType /\ data'[k] = v /\ \A x \in DBKeys \ {k} : data'[x] = data[x]
  BY <1>4 DEF DBInv, DBRest, DataType
<1>5. CASE Crashed({k})
  BY <1>2, <1>3, <1>5, CrashedKeeps
<1>6. CASE data' = [data EXCEPT ![k] = v] /\ Failed({k})
  BY <1>2, <1>3, <1>4, <1>6, FailedKeeps
<1>7. CASE /\ outcome = "done"
           /\ data' = [data EXCEPT ![k] = v]
           /\ dbCache' = CacheSet(dbCache, k, v)
           /\ Answered({k})
           /\ PromiseOne(k, v)
  <2>1. PICK promise : Promise({k}, promise) /\ promise[k] = v
    BY <1>7, PromiseOneIs
  <2>2. faults' = faults /\ dbState' = "open" /\ tainted' = tainted \ {k}
    BY <1>2, <1>7 DEF Answered
  <2>3. DurInv'
    <3>1. Kept(disk', promise, k)
      BY <1>3, <1>7, <2>1, DBConstants DEF Kept
    <3>2. \A x \in {k} : promise[x] \in DBValues \cup {Absent, InDoubt} /\ Kept(disk', promise, x)
      BY <2>1, <3>1
    <3> QED BY <1>2, <1>3, <2>1, <3>2, PromiseKeepsDisk DEF DBInv
  <2>4. MemInv'
    <3>1. \A x \in {k} : promise[x] # InDoubt => data'[x] = promise[x]
      BY <1>4, <1>7, <2>1
    <3> QED BY <1>2, <1>4, <1>7, <2>1, <3>1, PromiseKeepsMemory DEF DBInv
  <2>5. AgreeInv'
    <3>1. AgreeInv /\ CacheOK(dbCache, DBKeys) /\ PlainItems(dbCache) /\ CacheAgrees
      BY DEF DBInv, AgreeInv
    <3>2. /\ Uses(dbCache, dbCache', k, DBKeys)
          /\ \A x \in Cached(dbCache') : dbCache'.items[x].value = IF x = k THEN v ELSE dbCache.items[x].value
          /\ \A x \in Cached(dbCache') : dbCache'.items[x].expiry = NoExpiry
      BY <1>7, <3>1, CacheSetOK DEF PlainItems
    <3>3. CacheOK(dbCache', DBKeys) /\ PlainItems(dbCache') /\ Cached(dbCache') \subseteq Cached(dbCache) \cup {k}
      BY <3>2 DEF PlainItems, Uses
    <3>4. Cached(dbCache) \subseteq DBKeys
      BY <3>1 DEF CacheOK, ToSet
    <3>5. ASSUME NEW x \in Cached(dbCache') \ tainted' PROVE data'[x] = dbCache'.items[x].value
      <4>1. CASE x = k
        BY <1>4, <1>7, <3>2, <4>1
      <4>2. CASE x # k
        <5>1. x \in Cached(dbCache) \ tainted
          BY <2>2, <3>3, <4>2
        <5> QED BY <1>2, <1>4, <1>7, <3>1, <3>2, <3>4, <4>2, <5>1 DEF CacheAgrees
      <4> QED BY <4>1, <4>2
    <3> QED BY <1>2, <2>2, <3>1, <3>3, <3>5, AgreeKeeps
  <2>6. DBRest'
    BY <1>4, <1>7, <2>2 DEF DBInv, DBRest, DataType
  <2> QED BY <2>3, <2>4, <2>5, <2>6 DEF DBInv
<1> QED BY <1>1, <1>5, <1>6, <1>7

\* The steps that leave files, promises and memory alone.
LEMMA DurSame ==
  ASSUME DurInv, UNCHANGED <<disk, promised>>
  PROVE  DurInv'
  BY DEF DurInv, FilesOwn, Kept, DiskType, PromiseType, EntryRec

LEMMA MemSame ==
  ASSUME MemInv, UNCHANGED <<data, promised>>, dbState' = "open" => dbState = "open"
  PROVE  MemInv'
  BY DEF MemInv

LEMMA GetKeeps ==
  ASSUME DBInv, NEW k \in DBKeys, Get(k)
  PROVE  DBInv'
<1>1. /\ dbState = "open" /\ UNCHANGED <<data, disk, dbState, promised, faults>>
      /\ dbCache' = IF Hit(dbCache, k, 0) THEN CacheGet(dbCache, k, 0)
                  ELSE IF data[k] # Absent THEN CacheSet(dbCache, k, data[k]) ELSE dbCache
      /\ tainted' = IF Hit(dbCache, k, 0) THEN tainted ELSE tainted \ {k}
  BY DEF Get
<1>2. DurInv' /\ MemInv'
  BY <1>1, DurSame, MemSame DEF DBInv
<1>3. AgreeInv /\ CacheOK(dbCache, DBKeys) /\ PlainItems(dbCache) /\ CacheAgrees
  BY DEF DBInv, AgreeInv
<1>4. Hit(dbCache, k, 0) <=> k \in Cached(dbCache)
  BY <1>3 DEF Hit, Expired, PlainItems
<1>5. AgreeInv'
  <2>1. CASE Hit(dbCache, k, 0)
    <3>1. dbCache' = CacheGet(dbCache, k, 0) /\ tainted' = tainted
      BY <1>1, <2>1
    <3>2. Uses(dbCache, dbCache', k, DBKeys) /\ Cached(dbCache') = Cached(dbCache) /\ dbCache'.items = dbCache.items
      BY <1>3, <2>1, <3>1, HitUses
    <3>3. CacheOK(dbCache', DBKeys) /\ PlainItems(dbCache')
      BY <1>3, <3>2 DEF Uses, PlainItems
    <3>4. \A x \in Cached(dbCache') \ tainted' : data'[x] = dbCache'.items[x].value
      BY <1>1, <1>3, <3>1, <3>2 DEF CacheAgrees
    <3> QED BY <1>1, <1>3, <3>3, <3>4, AgreeKeeps
  <2>2. CASE ~ Hit(dbCache, k, 0) /\ data[k] # Absent
    <3>1. dbCache' = CacheSet(dbCache, k, data[k]) /\ tainted' = tainted \ {k}
      BY <1>1, <2>2
    <3>2. /\ Uses(dbCache, dbCache', k, DBKeys)
          /\ \A x \in Cached(dbCache') : dbCache'.items[x].value = IF x = k THEN data[k] ELSE dbCache.items[x].value
          /\ \A x \in Cached(dbCache') : dbCache'.items[x].expiry = NoExpiry
      BY <1>3, <3>1, CacheSetOK DEF PlainItems
    <3>3. CacheOK(dbCache', DBKeys) /\ PlainItems(dbCache') /\ Cached(dbCache') \subseteq Cached(dbCache) \cup {k}
      BY <3>2 DEF PlainItems, Uses
    <3>4. \A x \in Cached(dbCache') \ tainted' : data'[x] = dbCache'.items[x].value
      BY <1>1, <1>3, <3>1, <3>2, <3>3 DEF CacheAgrees
    <3> QED BY <1>1, <1>3, <3>3, <3>4, AgreeKeeps
  <2>3. CASE ~ Hit(dbCache, k, 0) /\ data[k] = Absent
    <3>1. dbCache' = dbCache /\ tainted' = tainted \ {k} /\ k \notin Cached(dbCache)
      BY <1>1, <1>4, <2>3
    <3>2. \A x \in Cached(dbCache') \ tainted' : data'[x] = dbCache'.items[x].value
      BY <1>1, <1>3, <3>1 DEF CacheAgrees
    <3> QED BY <1>1, <1>3, <3>1, <3>2, AgreeKeeps
  <2> QED BY <2>1, <2>2, <2>3
<1>6. DBRest'
  BY <1>1 DEF DBInv, DBRest, DataType
<1> QED BY <1>2, <1>5, <1>6 DEF DBInv

LEMMA WithoutIs ==
  ASSUME data \in DataType, NEW k \in DBKeys
  PROVE  Without(k) \in DataType /\ Without(k)[k] = Absent /\ \A x \in DBKeys \ {k} : Without(k)[x] = data[x]
  BY DEF Without, DataType

LEMMA DeleteKeeps ==
  ASSUME DBInv, NEW k \in DBKeys, Delete(k)
  PROVE  DBInv'
<1>1. dbState = "open" /\ {k} \in SUBSET DBKeys /\ k \in {k}
  BY DEF Delete
<1>2. disk \in DiskType /\ FilesOwn(disk) /\ data \in DataType /\ File[k] \in Files
  BY DBConstants DEF DBInv, DurInv, DBRest
<1>3. ASSUME data' = Without(k)
      PROVE  data' \in DataType /\ data'[k] = Absent /\ \A x \in DBKeys \ {k} : data'[x] = data[x]
  BY <1>2, <1>3, WithoutIs
<1>4. AgreeInv /\ CacheOK(dbCache, DBKeys) /\ PlainItems(dbCache) /\ CacheAgrees
  BY DEF DBInv, AgreeInv
<1>5. Cached(dbCache) \subseteq DBKeys
  BY <1>4 DEF CacheOK, ToSet
<1>6. CASE /\ disk' = [disk EXCEPT ![File[k]] = NoFile]
           /\ data' = Without(k)
           /\ dbCache' = CacheDelete(dbCache, k)
           /\ Answered({k}) /\ PromiseOne(k, Absent)
  <2>1. PICK promise : Promise({k}, promise) /\ promise[k] = Absent
    BY <1>6, PromiseOneIs
  <2>2. faults' = faults /\ dbState' = "open" /\ tainted' = tainted \ {k}
    BY <1>1, <1>6 DEF Answered
  <2>3. DiskStep({k}, disk, disk') /\ disk'[File[k]] = NoFile
    <3>1. MayHold(disk, k, NoFile) /\ Replaces(disk, k, NoFile, disk')
      BY <1>6 DEF MayHold, Replaces
    <3> QED BY <1>1, <1>2, <3>1, DiskStepOne
  <2>4. DurInv'
    <3>1. \A x \in {k} : promise[x] \in DBValues \cup {Absent, InDoubt} /\ Kept(disk', promise, x)
      BY <2>1, <2>3, DBConstants DEF Kept
    <3> QED BY <1>1, <2>1, <2>3, <3>1, PromiseKeepsDisk DEF DBInv
  <2>5. MemInv'
    <3>1. \A x \in {k} : promise[x] # InDoubt => data'[x] = promise[x]
      BY <1>3, <1>6, <2>1
    <3> QED BY <1>1, <1>3, <1>6, <2>1, <3>1, PromiseKeepsMemory DEF DBInv
  <2>6. AgreeInv'
    <3>1. dbCache' = removeItem(dbCache, k)
      BY <1>6 DEF CacheDelete
    <3>2. /\ CacheOK(dbCache', DBKeys) /\ Cached(dbCache') = Cached(dbCache) \ {k}
          /\ \A x \in Cached(dbCache') : dbCache'.items[x] = dbCache.items[x]
      BY <1>4, <3>1, RemoveItemOK
    <3>3. PlainItems(dbCache')
      BY <1>4, <3>2 DEF PlainItems
    <3>4. \A x \in Cached(dbCache') \ tainted' : data'[x] = dbCache'.items[x].value
      BY <1>1, <1>3, <1>4, <1>5, <1>6, <2>2, <3>2 DEF CacheAgrees
    <3> QED BY <1>1, <1>4, <2>2, <3>2, <3>3, <3>4, AgreeKeeps
  <2>7. DBRest'
    BY <1>3, <1>6, <2>2 DEF DBInv, DBRest, DataType
  <2> QED BY <2>4, <2>5, <2>6, <2>7 DEF DBInv
<1>7. CASE /\ disk[File[k]] = NoFile
           /\ data' = Without(k)
           /\ tainted' = tainted \cup {k}
           /\ promised' = [promised EXCEPT ![k] = Absent]
           /\ UNCHANGED <<disk, dbState, dbCache, faults>>
  <2>1. /\ promised' \in PromiseType /\ promised'[k] = Absent
        /\ \A x \in DBKeys \ {k} : promised'[x] = promised[x]
    BY <1>7 DEF DBInv, DurInv, PromiseType
  <2>2. DurInv'
    <3>1. ASSUME NEW x \in DBKeys PROVE Kept(disk', promised', x)
      <4>1. CASE x = k
        BY <1>7, <2>1, <4>1, DBConstants DEF Kept
      <4>2. CASE x # k
        <5>1. Kept(disk, promised, x)
          BY DEF DBInv, DurInv
        <5> QED BY <1>7, <2>1, <4>2, <5>1 DEF Kept
      <4> QED BY <4>1, <4>2
    <3>2. \A x \in DBKeys : Kept(disk, promised, x)'
      BY <3>1 DEF Kept, EntryRec
    <3>3. FilesOwn(disk)' /\ disk' \in DiskType
      BY <1>2, <1>7 DEF FilesOwn, EntryRec
    <3> QED BY <2>1, <3>2, <3>3 DEF DurInv, DiskType, PromiseType, EntryRec
  <2>3. MemInv'
    <3>1. \A x \in DBKeys : promised[x] # InDoubt => data[x] = promised[x]
      BY <1>1 DEF DBInv, MemInv
    <3>2. \A x \in DBKeys : promised'[x] # InDoubt => data'[x] = promised'[x]
      BY <1>3, <1>7, <2>1, <3>1
    <3> QED BY <3>2 DEF MemInv
  <2>4. AgreeInv'
    <3>1. CacheOK(dbCache', DBKeys) /\ PlainItems(dbCache')
      BY <1>4, <1>7
    <3>2. \A x \in Cached(dbCache') \ tainted' : data'[x] = dbCache'.items[x].value
      BY <1>1, <1>3, <1>4, <1>5, <1>7 DEF CacheAgrees
    <3> QED BY <1>1, <1>4, <1>7, <3>1, <3>2, AgreeKeeps
  <2>5. DBRest'
    BY <1>3, <1>7 DEF DBInv, DBRest, DataType
  <2> QED BY <2>2, <2>3, <2>4, <2>5 DEF DBInv
<1>8. CASE data' = Without(k) /\ UNCHANGED disk /\ Failed({k})
  <2>1. DiskStep({k}, disk, disk')
    BY <1>2, <1>8, DiskStepSame
  <2> QED BY <1>1, <1>3, <1>8, <2>1, FailedKeeps
<1>9. CASE (\E f \in {disk[File[k]], NoFile} : disk' = [disk EXCEPT ![File[k]] = f]) /\ Crashed({k})
  <2>1. PICK f \in {disk[File[k]], NoFile} : disk' = [disk EXCEPT ![File[k]] = f]
    BY <1>9
  <2>2. DiskStep({k}, disk, disk')
    <3>1. MayHold(disk, k, f) /\ Replaces(disk, k, f, disk')
      BY <2>1 DEF MayHold, Replaces
    <3> QED BY <1>1, <1>2, <3>1, DiskStepOne
  <2> QED BY <1>1, <1>9, <2>2, CrashedKeeps
<1> QED BY <1>6, <1>7, <1>8, <1>9 DEF Delete

LEMMA CompactKeeps == ASSUME DBInv, Compact PROVE DBInv'
<1>1. /\ dbState = "open" /\ UNCHANGED <<data, dbState, dbCache, promised, tainted, faults>>
      /\ disk' = [f \in Files |->
            IF disk[f] \notin {NoFile, Torn} /\ data[disk[f].key] = Absent THEN NoFile ELSE disk[f]]
  BY DEF Compact
<1>2. /\ disk \in DiskType /\ FilesOwn(disk) /\ promised \in PromiseType
      /\ \A k \in DBKeys : Kept(disk, promised, k)
      /\ \A k \in DBKeys : promised[k] # InDoubt => data[k] = promised[k]
  BY <1>1 DEF DBInv, DurInv, MemInv
<1>3. \A f \in Files : disk'[f] = disk[f] \/ (disk'[f] = NoFile /\ data[disk[f].key] = Absent /\ disk[f] \in EntryRec)
  BY <1>1, <1>2 DEF DiskType
<1>4. disk' \in DiskType
  BY <1>1, <1>2 DEF DiskType
<1>5. FilesOwn(disk')
  BY <1>2, <1>3, DBConstants DEF FilesOwn
<1>6. ASSUME NEW k \in DBKeys PROVE Kept(disk', promised, k)
  <2>1. File[k] \in Files /\ Kept(disk, promised, k)
    BY <1>2, DBConstants
  <2>2. CASE disk'[File[k]] = disk[File[k]]
    BY <2>1, <2>2 DEF Kept
  <2>3. CASE disk'[File[k]] # disk[File[k]]
    <3>1. disk'[File[k]] = NoFile /\ data[disk[File[k]].key] = Absent
      BY <1>3, <2>1, <2>3
    <3>2. promised[k] \notin DBValues
      <4> SUFFICES ASSUME promised[k] \in DBValues PROVE FALSE
        OBVIOUS
      <4>1. disk[File[k]] = [key |-> k, value |-> promised[k]]
        BY <2>1 DEF Kept
      <4>2. disk[File[k]].key = k
        BY <4>1
      <4>3. data[k] = promised[k]
        BY <1>2, DBConstants
      <4> QED BY <3>1, <4>2, <4>3, DBConstants
    <3> QED BY <3>1, <3>2, DBConstants DEF Kept
  <2> QED BY <2>2, <2>3
<1>7. DurInv'
  <2>1. FilesOwn(disk)' /\ \A k \in DBKeys : Kept(disk, promised, k)'
    BY <1>1, <1>5, <1>6 DEF FilesOwn, Kept, EntryRec
  <2> QED BY <1>1, <1>2, <1>4, <2>1 DEF DurInv, DiskType, PromiseType, EntryRec
<1>8. MemInv'
  BY <1>1, MemSame DEF DBInv
<1>9. AgreeInv' /\ DBRest'
  BY <1>1 DEF DBInv, AgreeInv, DBRest, DataType, CacheOK, PlainItems, CacheAgrees, Cached
<1> QED BY <1>7, <1>8, <1>9 DEF DBInv

LEMMA CacheClearKeeps ==
  ASSUME AgreeInv, dbCache' = CacheClear(dbCache)
  PROVE  AgreeInv'
<1>1. dbCache' = NewLRUCache(dbCache.maxSize) /\ dbCache.maxSize \in Nat
  BY DEF CacheClear, AgreeInv, CacheOK
<1> QED BY <1>1, EmptyAgrees

LEMMA ClearCacheKeeps == ASSUME DBInv, ClearCache PROVE DBInv'
<1>1. dbCache' = CacheClear(dbCache) /\ tainted' = {} /\ UNCHANGED <<data, disk, dbState, promised, faults>>
  BY DEF ClearCache
<1>2. DurInv' /\ MemInv' /\ AgreeInv'
  BY <1>1, DurSame, MemSame, CacheClearKeeps DEF DBInv
<1>3. DBRest'
  BY <1>1 DEF DBInv, DBRest, DataType
<1> QED BY <1>2, <1>3 DEF DBInv

LEMMA CloseKeeps == ASSUME DBInv, CloseDB PROVE DBInv'
<1>1. /\ dbCache' = CacheClear(dbCache) /\ tainted' = {} /\ dbState' = "closed"
      /\ UNCHANGED <<data, disk, promised, faults>>
  BY DEF CloseDB
<1>2. DurInv' /\ MemInv' /\ AgreeInv'
  BY <1>1, DurSame, MemSame, CacheClearKeeps DEF DBInv
<1>3. DBRest'
  BY <1>1 DEF DBInv, DBRest, DataType
<1> QED BY <1>2, <1>3 DEF DBInv

LEMMA ExitKeeps == ASSUME DBInv, Exit PROVE DBInv'
<1>1. /\ dbState' = "down" /\ data' = NoData /\ dbCache' = NewLRUCache(DBCacheSize) /\ tainted' = {}
      /\ UNCHANGED <<disk, promised, faults>>
  BY DEF Exit
<1>2. DurInv' /\ AgreeInv'
  BY <1>1, DurSame, EmptyAgrees, DBConstants DEF DBInv
<1>3. MemInv'
  BY <1>1 DEF MemInv
<1>4. DBRest'
  BY <1>1, NoDataType DEF DBInv, DBRest, DataType
<1> QED BY <1>2, <1>3, <1>4 DEF DBInv

\* What load reads back is what was promised.
LEMMA LoadIs ==
  ASSUME DurInv, Loadable
  PROVE  load \in DataType /\ \A k \in DBKeys : promised[k] # InDoubt => load[k] = promised[k]
<1>1. /\ disk \in DiskType /\ FilesOwn(disk) /\ promised \in PromiseType
      /\ \A k \in DBKeys : Kept(disk, promised, k)
  BY DEF DurInv
<1>2. \A f \in Files : disk[f] \in {NoFile, Torn} \cup EntryRec
  BY <1>1 DEF DiskType
<1>3. ASSUME NEW k \in DBKeys, NEW e \in EntriesOf(k)
      PROVE  e \in EntryRec /\ e.key = k /\ e = disk[File[k]] /\ e.value \in DBValues
  <2>1. e.key = k /\ e \notin {NoFile, Torn} /\ \E f \in Files : e = disk[f]
    BY DEF EntriesOf
  <2>2. PICK f \in Files : e = disk[f]
    BY <2>1
  <2>3. e \in EntryRec
    BY <1>2, <2>1, <2>2
  <2>4. f = File[k]
    BY <1>1, <2>1, <2>2, <2>3 DEF FilesOwn
  <2>5. e.value \in DBValues
    BY <2>3 DEF EntryRec
  <2> QED BY <2>1, <2>2, <2>3, <2>4, <2>5
<1>4. ASSUME NEW k \in DBKeys, disk[File[k]] \in EntryRec, disk[File[k]].key = k
      PROVE  disk[File[k]] \in EntriesOf(k)
  BY <1>4, DBConstants DEF EntriesOf
<1>5. \A k \in DBKeys : load[k] = IF EntriesOf(k) = {} THEN Absent ELSE (CHOOSE e \in EntriesOf(k) : TRUE).value
  BY DEF load
<1>6. \A k \in DBKeys : EntriesOf(k) # {} => (CHOOSE e \in EntriesOf(k) : TRUE) \in EntriesOf(k)
  OBVIOUS
<1>7. \A k \in DBKeys : load[k] \in DBValues \cup {Absent}
  BY <1>3, <1>5, <1>6
<1>8. load \in DataType
  BY <1>7 DEF load, DataType
<1>9. ASSUME NEW k \in DBKeys, promised[k] # InDoubt PROVE load[k] = promised[k]
  <2>1. Kept(disk, promised, k) /\ promised[k] \in DBValues \cup {Absent}
    BY <1>1, <1>9 DEF PromiseType
  <2>2. CASE promised[k] = Absent
    <3>1. EntriesOf(k) = {}
      BY <1>3, <2>1, <2>2 DEF Kept
    <3> QED BY <1>5, <2>2, <3>1
  <2>3. CASE promised[k] \in DBValues
    <3>1. disk[File[k]] = [key |-> k, value |-> promised[k]]
      BY <2>1, <2>3 DEF Kept
    <3>2. disk[File[k]] \in EntryRec /\ disk[File[k]].key = k /\ disk[File[k]].value = promised[k]
      BY <2>3, <3>1, EntryIs
    <3>3. EntriesOf(k) # {}
      BY <1>4, <3>2
    <3>4. (CHOOSE e \in EntriesOf(k) : TRUE) = disk[File[k]]
      BY <1>3, <1>6, <3>3
    <3> QED BY <1>5, <3>2, <3>3, <3>4
  <2> QED BY <2>1, <2>2, <2>3
<1> QED BY <1>8, <1>9

LEMMA OpenKeeps == ASSUME DBInv, OpenDB PROVE DBInv'
<1>1. /\ dbState = "down" /\ Loadable /\ data' = load /\ dbState' = "open"
      /\ UNCHANGED <<disk, dbCache, promised, tainted, faults>>
  BY DEF OpenDB
<1>2. load \in DataType /\ \A k \in DBKeys : promised[k] # InDoubt => load[k] = promised[k]
  BY <1>1, LoadIs DEF DBInv
<1>3. DurInv'
  BY <1>1, DurSame DEF DBInv
<1>4. MemInv'
  <2>1. \A k \in DBKeys : promised'[k] # InDoubt => data'[k] = promised'[k]
    BY <1>1, <1>2
  <2> QED BY <2>1 DEF MemInv
<1>5. Cached(dbCache) = {}
  BY <1>1 DEF DBInv, AgreeInv
<1>6. AgreeInv'
  BY <1>1, <1>5 DEF DBInv, AgreeInv, CacheOK, PlainItems, CacheAgrees, Cached
<1>7. DBRest'
  BY <1>1, <1>2 DEF DBInv, DBRest, DataType
<1> QED BY <1>3, <1>4, <1>6, <1>7 DEF DBInv

LEMMA DBInvSound == DBInv => CacheAgrees /\ Durable /\ DBTypeOK
<1> SUFFICES ASSUME DBInv PROVE CacheAgrees /\ Durable /\ DBTypeOK
  OBVIOUS
<1>1. CacheAgrees
  BY DEF DBInv, AgreeInv
<1>2. ASSUME NEW k \in DBKeys, promised[k] # InDoubt, Loadable PROVE promised[k] = load[k]
  BY <1>2, LoadIs DEF DBInv
<1>3. ASSUME NEW k \in DBKeys, promised[k] # InDoubt, dbState = "open" PROVE promised[k] = data[k]
  BY <1>3 DEF DBInv, MemInv
<1>4. Durable
  BY <1>2, <1>3 DEF Durable
<1>5. DBTypeOK
  BY DEF DBTypeOK, DBInv, DurInv, DBRest, DiskType, DataType, PromiseType, EntryRec
<1> QED BY <1>1, <1>4, <1>5

BatchOK(b) ==
    /\ IsFiniteSet(DOMAIN b.puts) /\ DOMAIN b.puts \subseteq DBKeys
    /\ \A k \in DOMAIN b.puts : b.puts[k] \in DBValues
    /\ b.dels \subseteq DBKeys \ DOMAIN b.puts

LEMMA BatchesOK == \A b \in Batches : BatchOK(b)
  BY DBAssumption DEF BatchOK

\* No other key of the batch shares the file of k.
Alone(b, k) == Neighbours({k}) \cap BatchKeys(b) = {}

LEMMA AloneIs ==
  ASSUME NEW b, BatchOK(b), NEW k \in BatchKeys(b), Alone(b, k), NEW x \in BatchKeys(b), File[x] = File[k]
  PROVE  x = k
<1>1. x \in DBKeys
  BY DEF BatchOK, BatchKeys
<1> QED BY <1>1 DEF Alone, Neighbours

LEMMA RemovedOK ==
  ASSUME NEW d \in DiskType, FilesOwn(d), NEW keys \in SUBSET DBKeys, NEW gone \in SUBSET keys
  PROVE  /\ DiskStep(keys, d, Removed(d, gone))
         /\ \A k \in gone : Removed(d, gone)[File[k]] = NoFile
<1>1. \A f \in Files : Removed(d, gone)[f] = IF \E k \in gone : File[k] = f THEN NoFile ELSE d[f]
  BY DEF Removed
<1>2. Removed(d, gone) \in DiskType
  BY DEF Removed, DiskType
<1>3. FilesOwn(Removed(d, gone))
  BY <1>1, DBConstants DEF FilesOwn
<1>4. \A k \in gone : File[k] \in Files
  BY DBConstants
<1> QED BY <1>1, <1>2, <1>3, <1>4, DBConstants DEF DiskStep

\* One turn of the loop over the puts.
WriteTurn(b, order, n, outcome, files, i) ==
    writeFile(files, order[i], b.puts[order[i]], IF i = n THEN outcome ELSE "done")

FilesFcn(b, gone, order, n, outcome) ==
    CHOOSE f : f = [t \in SUBSET DOMAIN [i \in 1 .. n |-> i] |-> IF t = {} THEN Removed(disk, gone) ELSE
        WriteTurn(b, order, n, outcome, f[t \ {Max(t)}], [i \in 1 .. n |-> i][Max(t)])]

LEMMA WrittenFilesDef ==
  ASSUME NEW b, NEW gone, NEW order, NEW n, NEW outcome
  PROVE  WrittenFiles(b, gone, order, n, outcome) = FilesFcn(b, gone, order, n, outcome)[DOMAIN [i \in 1 .. n |-> i]]
  BY DEF WrittenFiles, FoldLeft, MapThenFoldSet, FilesFcn, WriteTurn

\* What the files hold after the removals and the first i puts.
WrittenUpTo(b, gone, order, d, i) ==
    /\ \A j \in 1 .. i : Alone(b, order[j]) => d[File[order[j]]] = [key |-> order[j], value |-> b.puts[order[j]]]
    /\ \A k \in gone : Alone(b, k) => d[File[k]] = NoFile

LEMMA WrittenFilesOK ==
  ASSUME disk \in DiskType, FilesOwn(disk), NEW b, BatchOK(b), NEW gone \in SUBSET b.dels,
         NEW N \in Nat, NEW order \in Orders(DOMAIN b.puts, N), NEW n \in 0 .. N, NEW outcome \in FileOutcomes
  PROVE  /\ DiskStep(BatchKeys(b), disk, WrittenFiles(b, gone, order, n, outcome))
         /\ outcome = "done" => WrittenUpTo(b, gone, order, WrittenFiles(b, gone, order, n, outcome), n)
<1> DEFINE keys == BatchKeys(b)
           V == {d \in DiskType : DiskStep(keys, disk, d)}
           step == [i \in 1 .. n |-> [d \in V |-> WriteTurn(b, order, n, outcome, d, i)]]
           base == Removed(disk, gone)
           p == FilesFcn(b, gone, order, n, outcome)
           Eq(f) == f = [t \in SUBSET (1 .. n) |-> IF t = {} THEN base ELSE
                            WriteTurn(b, order, n, outcome, f[t \ {Max(t)}], Max(t))]
<1>1. /\ n \in Nat /\ DOMAIN [i \in 1 .. n |-> i] = 1 .. n /\ keys \in SUBSET DBKeys
      /\ gone \in SUBSET keys
      /\ \A i \in 1 .. n : order[i] \in keys /\ b.puts[order[i]] \in DBValues /\ order[i] \in DOMAIN b.puts
      /\ \A i, j \in 1 .. n : i # j => order[i] # order[j]
  BY DEF BatchOK, BatchKeys, Orders
<1>2. ASSUME NEW i \in 1 .. n, NEW d \in V
      PROVE  LET e == WriteTurn(b, order, n, outcome, d, i)
             IN  /\ e \in V
                 /\ outcome = "done" => e[File[order[i]]] = [key |-> order[i], value |-> b.puts[order[i]]]
                 /\ \A f \in Files : f # File[order[i]] => e[f] = d[f]
  <2> DEFINE o == IF i = n THEN outcome ELSE "done"
             e == WriteTurn(b, order, n, outcome, d, i)
  <2>1. o \in FileOutcomes /\ (outcome = "done" => o = "done")
    BY DEF FileOutcomes
  <2>2. e = writeFile(d, order[i], b.puts[order[i]], o)
    BY DEF WriteTurn
  <2>3. d \in DiskType /\ FilesOwn(d) /\ DiskStep(keys, disk, d)
    BY DEF DiskStep
  <2> HIDE DEF o, e, keys, V
  <2>4. /\ DiskStep(keys, d, e)
        /\ o = "done" => e[File[order[i]]] = [key |-> order[i], value |-> b.puts[order[i]]]
        /\ \A f \in Files : f # File[order[i]] => e[f] = d[f]
    <3> DEFINE k == order[i]
               v == b.puts[k]
    <3>1. keys \in SUBSET DBKeys /\ k \in keys /\ v \in DBValues
      BY <1>1
    <3>2. e = writeFile(d, k, v, o)
      BY <2>2
    <3> HIDE DEF k, v
    <3>3. /\ DiskStep(keys, d, e)
          /\ o = "done" => e[File[k]] = [key |-> k, value |-> v]
          /\ \A f \in Files : f # File[k] => e[f] = d[f]
      BY <2>1, <2>3, <3>1, <3>2, WriteFileOK
    <3> QED BY <3>3 DEF k, v
  <2>5. DiskStep(keys, disk, e) /\ e \in DiskType
    BY <2>3, <2>4, DiskStepTrans DEF DiskStep
  <2> QED BY <2>1, <2>4, <2>5 DEF e, V
<1>3. base \in V /\ \A k \in gone : base[File[k]] = NoFile
  <2>1. DiskStep(keys, disk, base) /\ \A k \in gone : base[File[k]] = NoFile
    BY <1>1, RemovedOK
  <2> QED BY <2>1 DEF DiskStep
<1> HIDE DEF V
<1>4. step \in [1 .. n -> [V -> V]]
  BY <1>2
<1>5. \A i \in 1 .. n : \A d \in V : step[i][d] = WriteTurn(b, order, n, outcome, d, i)
  OBVIOUS
<1>6. \A t \in SUBSET (1 .. n) : t # {} => Max(t) \in 1 .. n
  <2> SUFFICES ASSUME NEW t \in SUBSET (1 .. n), t # {} PROVE Max(t) \in 1 .. n
    OBVIOUS
  <2>1. t \in SUBSET (0 .. n)
    BY <1>1
  <2> QED BY <1>1, <2>1, MaxBounded
<1>7. p = CHOOSE f : Eq(f)
  <2>1. \A f : Eq(f) <=> f = [t \in SUBSET DOMAIN [i \in 1 .. n |-> i] |-> IF t = {} THEN Removed(disk, gone) ELSE
        WriteTurn(b, order, n, outcome, f[t \ {Max(t)}], [i \in 1 .. n |-> i][Max(t)])]
    BY <1>1, <1>6
  <2> QED BY <2>1 DEF FilesFcn
<1> HIDE DEF step, base
<1>8. PICK f \in [SUBSET (1 .. n) -> V] : IsLoop(n, base, step, f)
  BY <1>1, <1>3, <1>4, LoopExists
<1>9. Eq(f)
  <2>1. ASSUME NEW t \in SUBSET (1 .. n)
        PROVE  f[t] = IF t = {} THEN base ELSE WriteTurn(b, order, n, outcome, f[t \ {Max(t)}], Max(t))
    <3>1. CASE t # {}
      <4>1. f[t \ {Max(t)}] \in V /\ f[t] = step[Max(t)][f[t \ {Max(t)}]]
        BY <1>8, <3>1 DEF IsLoop
      <4> QED BY <1>5, <1>6, <3>1, <4>1
    <3> QED BY <1>8, <3>1 DEF IsLoop
  <2> QED BY <1>8, <2>1
<1>10. Eq(p)
  BY <1>7, <1>9
<1>11. IsRounds(n, V, base, step, p)
  <2>1. \A t \in SUBSET (1 .. n) : p[t] = IF t = {} THEN base ELSE WriteTurn(b, order, n, outcome, p[t \ {Max(t)}], Max(t))
    BY <1>10
  <2> HIDE DEF p
  <2> QED BY <1>1, <1>3, <1>4, <1>5, <1>6, <2>1 DEF IsRounds
<1> HIDE DEF p
<1>12. /\ p[1 .. 0] = base
       /\ \A i \in 0 .. n : p[1 .. i] \in V
       /\ \A i \in 1 .. n : p[1 .. i] = step[i][p[1 .. (i - 1)]]
  BY <1>11, LoopPrefixes
<1>13. WrittenFiles(b, gone, order, n, outcome) = p[1 .. n]
  BY <1>1, WrittenFilesDef DEF p
<1>14. DiskStep(keys, disk, p[1 .. n])
  BY <1>1, <1>12 DEF V
<1>15. ASSUME outcome = "done" PROVE WrittenUpTo(b, gone, order, p[1 .. n], n)
  <2> DEFINE Good == {i \in 0 .. n : WrittenUpTo(b, gone, order, p[1 .. i], i)}
  <2>1. 0 \in Good
    <3>1. WrittenUpTo(b, gone, order, base, 0)
      BY <1>3 DEF WrittenUpTo
    <3> QED BY <1>1, <1>12, <3>1
  <2>2. ASSUME NEW i \in 1 .. n, i - 1 \in Good PROVE i \in Good
    <3> DEFINE d == p[1 .. (i - 1)]
               e == p[1 .. i]
               k == order[i]
    <3>1. i - 1 \in 0 .. n /\ i \in 0 .. n
      BY <1>1
    <3>2. d \in V /\ e = WriteTurn(b, order, n, outcome, d, i) /\ WrittenUpTo(b, gone, order, d, i - 1)
      BY <1>5, <1>12, <2>2, <3>1
    <3> HIDE DEF d, e
    <3>3. /\ e[File[k]] = [key |-> k, value |-> b.puts[k]]
          /\ \A f0 \in Files : f0 # File[k] => e[f0] = d[f0]
      BY <1>2, <1>15, <3>2
    <3>4. ASSUME NEW j \in 1 .. i, Alone(b, order[j])
          PROVE  e[File[order[j]]] = [key |-> order[j], value |-> b.puts[order[j]]]
      <4>1. CASE j = i
        BY <3>3, <4>1
      <4>2. CASE j # i
        <5>1. j \in 1 .. (i - 1) /\ j \in 1 .. n
          BY <1>1, <4>2
        <5>2. order[j] # k /\ order[j] \in keys /\ k \in keys /\ File[order[j]] \in Files
          BY <1>1, <4>2, <5>1, DBConstants
        <5>3. File[order[j]] # File[k]
          BY <3>4, <5>2, AloneIs
        <5>4. d[File[order[j]]] = [key |-> order[j], value |-> b.puts[order[j]]]
          BY <3>2, <3>4, <5>1 DEF WrittenUpTo
        <5> QED BY <3>3, <5>2, <5>3, <5>4
      <4> QED BY <4>1, <4>2
    <3>5. ASSUME NEW x \in gone, Alone(b, x) PROVE e[File[x]] = NoFile
      <4>1. x \in keys /\ k \in keys /\ x # k /\ File[x] \in Files
        BY <1>1, DBConstants DEF BatchOK
      <4>2. File[x] # File[k]
        BY <3>5, <4>1, AloneIs
      <4>3. d[File[x]] = NoFile
        BY <3>2, <3>5 DEF WrittenUpTo
      <4> QED BY <3>3, <4>1, <4>2, <4>3
    <3>6. WrittenUpTo(b, gone, order, e, i)
      BY <3>4, <3>5 DEF WrittenUpTo
    <3> QED BY <3>1, <3>6 DEF e
  <2>3. Good \in SUBSET (0 .. n)
    OBVIOUS
  <2> HIDE DEF Good
  <2>4. Good = 0 .. n
    BY <1>1, <2>1, <2>2, <2>3, UpInduction
  <2> QED BY <1>1, <2>4 DEF Good
<1> QED BY <1>13, <1>14, <1>15

\* A batch that was written in full.
LEMMA WholeBatchPromised ==
  ASSUME NEW b, BatchOK(b), NEW gone \in SUBSET b.dels, NEW N, N = Cardinality(DOMAIN b.puts),
         NEW order \in Orders(DOMAIN b.puts, N), NEW d, WrittenUpTo(b, gone, order, d, N)
  PROVE  LET promise == BatchPromise(b, gone)
         IN  \A k \in BatchKeys(b) :
                /\ promise[k] \in DBValues \cup {Absent, InDoubt}
                /\ promise[k] = InDoubt \/ (k \in DOMAIN b.puts /\ promise[k] = b.puts[k]) \/ (k \in b.dels /\ promise[k] = Absent)
                /\ Kept(d, promise, k)
<1> DEFINE promise == BatchPromise(b, gone)
<1> SUFFICES ASSUME NEW k \in BatchKeys(b)
             PROVE  /\ promise[k] \in DBValues \cup {Absent, InDoubt}
                    /\ promise[k] = InDoubt \/ (k \in DOMAIN b.puts /\ promise[k] = b.puts[k]) \/ (k \in b.dels /\ promise[k] = Absent)
                    /\ Kept(d, promise, k)
  OBVIOUS
<1>1. promise[k] =
    CASE k \in b.dels \ gone \/ ~ Alone(b, k)    -> InDoubt
      [] k \in gone /\ Alone(b, k)          -> Absent
      [] k \in DOMAIN b.puts /\ Alone(b, k) -> b.puts[k]
  BY DEF BatchPromise, Alone
<1>2. k \in DOMAIN b.puts \/ k \in b.dels
  BY DEF BatchKeys
<1>3. ~ (k \in DOMAIN b.puts /\ k \in b.dels) /\ (k \in DOMAIN b.puts => b.puts[k] \in DBValues)
  BY DEF BatchOK
<1> HIDE DEF promise
<1>4. CASE k \in b.dels \ gone \/ ~ Alone(b, k)
  <2>1. promise[k] = InDoubt
    BY <1>1, <1>3, <1>4
  <2> QED BY <2>1, DBConstants DEF Kept
<1>5. CASE k \in gone /\ Alone(b, k)
  <2>1. promise[k] = Absent
    BY <1>1, <1>3, <1>5
  <2>2. d[File[k]] = NoFile
    BY <1>5 DEF WrittenUpTo
  <2>3. k \in b.dels
    BY <1>5
  <2> QED BY <2>1, <2>2, <2>3, DBConstants DEF Kept
<1>6. CASE k \in DOMAIN b.puts /\ Alone(b, k)
  <2>1. promise[k] = b.puts[k]
    BY <1>1, <1>3, <1>6
  <2>2. PICK j \in 1 .. N : order[j] = k
    <3>1. IsFiniteSet(DOMAIN b.puts)
      BY DEF BatchOK
    <3> QED BY <1>6, <3>1, OrderHoldsAll
  <2>3. d[File[k]] = [key |-> k, value |-> b.puts[k]]
    BY <1>6, <2>2 DEF WrittenUpTo
  <2> QED BY <1>3, <1>6, <2>1, <2>3, DBConstants DEF Kept
<1> QED BY <1>2, <1>4, <1>5, <1>6

LEMMA WrittenDataIs ==
  ASSUME data \in DataType, NEW b, BatchOK(b), NEW N \in Nat, NEW order \in Orders(DOMAIN b.puts, N), NEW n \in 0 .. N
  PROVE  LET w == WrittenData(b, order, n)
         IN  /\ w \in DataType
             /\ \A k \in DBKeys \ BatchKeys(b) : w[k] = data[k]
             /\ \A k \in b.dels : w[k] = Absent
             /\ \A i \in 1 .. n : w[order[i]] = b.puts[order[i]]
<1> DEFINE w == WrittenData(b, order, n)
           Put0(k) == \E i \in 1 .. n : order[i] = k
<1>1. w = [k \in DBKeys |-> CASE Put0(k)     -> b.puts[k]
                              [] k \in b.dels -> Absent
                              [] OTHER        -> data[k]]
  BY DEF WrittenData
<1>2. /\ \A i \in 1 .. n : order[i] \in DOMAIN b.puts
      /\ \A k \in DOMAIN b.puts : k \in DBKeys /\ b.puts[k] \in DBValues /\ k \notin b.dels
      /\ \A k \in b.dels : k \in DBKeys
  BY DEF Orders, BatchOK
<1>3. \A k \in DBKeys : Put0(k) => k \in DOMAIN b.puts
  BY <1>2
<1>4. \A i \in 1 .. n : Put0(order[i])
  OBVIOUS
<1> HIDE DEF w, Put0
<1>5. \A k \in DBKeys : w[k] = IF Put0(k) THEN b.puts[k] ELSE IF k \in b.dels THEN Absent ELSE data[k]
  BY <1>1, <1>2, <1>3
<1>6. w \in DataType
  <2>1. \A k \in DBKeys : w[k] \in DBValues \cup {Absent}
    BY <1>2, <1>3, <1>5 DEF DataType
  <2>2. w = [k \in DBKeys |-> w[k]]
    BY <1>1
  <2> QED BY <2>1, <2>2 DEF DataType
<1>7. \A k \in DBKeys \ BatchKeys(b) : w[k] = data[k]
  BY <1>3, <1>5 DEF BatchKeys
<1> QED BY <1>2, <1>3, <1>4, <1>5, <1>6, <1>7 DEF w

LEMMA WriteKeeps ==
  ASSUME DBInv, NEW b \in Batches, NEW throughCache \in BOOLEAN, Write(b, throughCache)
  PROVE  DBInv'
<1> DEFINE S == DOMAIN b.puts
           N == Cardinality(S)
           keys == BatchKeys(b)
<1>1. BatchOK(b) /\ IsFiniteSet(S) /\ N \in Nat /\ keys \in SUBSET DBKeys
  BY BatchesOK, FS_CardinalityType DEF BatchOK, BatchKeys
<1>2. dbState = "open" /\ disk \in DiskType /\ FilesOwn(disk) /\ data \in DataType
  BY DEF Write, DBInv, DurInv, DBRest
<1>3. PICK gone \in SUBSET b.dels, order \in SetToSeqs(S), n \in 0 .. N, outcome \in FileOutcomes :
        /\ disk' = WrittenFiles(b, gone, order, n, outcome)
        /\ \/ /\ n = Len(order) /\ outcome = "done"
              /\ data' = WrittenData(b, order, n)
              /\ dbCache' = IF throughCache THEN CacheClear(dbCache) ELSE dbCache
              /\ tainted' = IF throughCache THEN {} ELSE tainted \cup BatchKeys(b)
              /\ Promise(BatchKeys(b), BatchPromise(b, gone))
              /\ \/ gone = b.dels /\ UNCHANGED faults
                 \/ gone # b.dels /\ faults < MaxFaults /\ faults' = faults + 1
              /\ UNCHANGED dbState
           \/ /\ gone = b.dels /\ n > 0 /\ outcome # "done"
              /\ data' = WrittenData(b, order, n)
              /\ Failed(BatchKeys(b))
           \/ /\ gone = b.dels \/ n = 0
              /\ Crashed(BatchKeys(b))
  BY DEF Write
<1> HIDE DEF N, keys
<1>4. order \in Orders(S, N)
  BY OrdersAre DEF N
<1>5. Len(order) = N
  BY <1>1, <1>4, OrderIsSeq
<1>6. /\ DiskStep(keys, disk, disk')
      /\ outcome = "done" => WrittenUpTo(b, gone, order, disk', n)
  BY <1>1, <1>2, <1>3, <1>4, WrittenFilesOK DEF keys
<1>7. ASSUME data' = WrittenData(b, order, n)
      PROVE  /\ data' \in DataType
             /\ \A k \in DBKeys \ keys : data'[k] = data[k]
             /\ \A k \in b.dels : data'[k] = Absent
             /\ \A i \in 1 .. n : data'[order[i]] = b.puts[order[i]]
  BY <1>1, <1>2, <1>4, <1>7, WrittenDataIs DEF keys
<1>8. CASE Crashed(BatchKeys(b))
  BY <1>1, <1>6, <1>8, CrashedKeeps DEF keys
<1>9. CASE data' = WrittenData(b, order, n) /\ Failed(BatchKeys(b))
  BY <1>1, <1>2, <1>6, <1>7, <1>9, FailedKeeps DEF keys
<1>10. CASE /\ n = Len(order) /\ outcome = "done"
            /\ data' = WrittenData(b, order, n)
            /\ dbCache' = IF throughCache THEN CacheClear(dbCache) ELSE dbCache
            /\ tainted' = IF throughCache THEN {} ELSE tainted \cup BatchKeys(b)
            /\ Promise(BatchKeys(b), BatchPromise(b, gone))
            /\ \/ gone = b.dels /\ UNCHANGED faults
               \/ gone # b.dels /\ faults < MaxFaults /\ faults' = faults + 1
            /\ UNCHANGED dbState
  <2> DEFINE promise == BatchPromise(b, gone)
  <2>1. n = N /\ WrittenUpTo(b, gone, order, disk', N)
    BY <1>5, <1>6, <1>10
  <2>2. \A k \in keys :
                /\ promise[k] \in DBValues \cup {Absent, InDoubt}
                /\ promise[k] = InDoubt \/ (k \in S /\ promise[k] = b.puts[k]) \/ (k \in b.dels /\ promise[k] = Absent)
                /\ Kept(disk', promise, k)
    BY <1>1, <1>4, <2>1, WholeBatchPromised DEF keys, N
  <2>3. Promise(keys, promise)
    BY <1>10 DEF keys
  <2> HIDE DEF promise
  <2>4. DurInv'
    BY <1>1, <1>6, <2>2, <2>3, PromiseKeepsDisk DEF DBInv
  <2>5. MemInv'
    <3>1. \A k \in S : \E i \in 1 .. N : order[i] = k
      BY <1>1, <1>4, OrderHoldsAll DEF N
    <3>2. \A k \in S : data'[k] = b.puts[k]
      BY <1>7, <1>10, <2>1, <3>1
    <3>3. \A k \in keys : promise[k] # InDoubt => data'[k] = promise[k]
      BY <1>7, <1>10, <2>2, <3>2
    <3>4. \A k \in DBKeys \ keys : data'[k] = data[k]
      BY <1>7, <1>10
    <3> QED BY <1>1, <1>2, <2>3, <3>3, <3>4, PromiseKeepsMemory DEF DBInv
  <2>6. AgreeInv'
    <3>1. AgreeInv
      BY DEF DBInv
    <3>2. CASE throughCache
      <4>1. dbCache' = CacheClear(dbCache)
        BY <1>10, <3>2
      <4> QED BY <3>1, <4>1, CacheClearKeeps
    <3>3. CASE ~ throughCache
      <4>1. dbCache' = dbCache /\ tainted' = tainted \cup keys /\ dbState' = "open"
        BY <1>2, <1>10, <3>3 DEF keys
      <4>2. CacheOK(dbCache', DBKeys) /\ PlainItems(dbCache') /\ CacheAgrees
        BY <3>1, <4>1 DEF AgreeInv
      <4>3. Cached(dbCache) \subseteq DBKeys
        BY <3>1 DEF AgreeInv, CacheOK, ToSet
      <4>4. \A k \in Cached(dbCache') \ tainted' : data'[k] = dbCache'.items[k].value
        BY <1>2, <1>7, <1>10, <4>1, <4>2, <4>3 DEF CacheAgrees
      <4> QED BY <1>2, <3>1, <4>1, <4>2, <4>4, AgreeKeeps
    <3> QED BY <3>2, <3>3
  <2>7. DBRest'
    <3>1. faults' \in 0 .. MaxFaults
      BY <1>10, DBConstants DEF DBInv, DBRest
    <3>2. tainted' \subseteq DBKeys
      BY <1>1, <1>10 DEF DBInv, DBRest, keys
    <3> QED BY <1>7, <1>10, <3>1, <3>2 DEF DBInv, DBRest, DataType
  <2> QED BY <2>4, <2>5, <2>6, <2>7 DEF DBInv
<1> QED BY <1>3, <1>8, <1>9, <1>10

LEMMA DBInitOK == DBInit => DBInv
<1> SUFFICES ASSUME DBInit PROVE DBInv
  OBVIOUS
<1>1. /\ data = NoData /\ disk = [f \in Files |-> NoFile] /\ dbState = "open"
      /\ dbCache = NewLRUCache(DBCacheSize) /\ promised = [k \in DBKeys |-> Absent] /\ tainted = {} /\ faults = 0
  BY DEF DBInit
<1>2. DurInv
  <2>1. disk \in DiskType /\ promised \in PromiseType
    BY <1>1 DEF DiskType, PromiseType
  <2>2. \A f \in Files : disk[f] = NoFile
    BY <1>1
  <2>3. FilesOwn(disk)
    BY <2>2, DBConstants DEF FilesOwn
  <2>4. \A k \in DBKeys : Kept(disk, promised, k)
    BY <1>1, <2>2, DBConstants DEF Kept
  <2> QED BY <2>1, <2>3, <2>4 DEF DurInv
<1>3. MemInv
  BY <1>1 DEF MemInv, NoData
<1>4. CacheOK(dbCache, DBKeys) /\ Cached(dbCache) = {}
  BY <1>1, DBConstants, NewCacheOK
<1>5. AgreeInv
  BY <1>1, <1>4 DEF AgreeInv, PlainItems, CacheAgrees
<1>6. DBRest
  BY <1>1, NoDataType, DBConstants DEF DBRest
<1> QED BY <1>2, <1>3, <1>5, <1>6 DEF DBInv

LEMMA DBNextOK == DBInv /\ [DBNext]_dbVars => DBInv'
<1> SUFFICES ASSUME DBInv, [DBNext]_dbVars PROVE DBInv'
  OBVIOUS
<1>1. ASSUME NEW e \in Entries, Put(e.key, e.value) PROVE DBInv'
  <2>1. e.key \in DBKeys /\ e.value \in DBValues
    BY DBAssumption
  <2> QED BY <1>1, <2>1, PutKeeps
<1>2. ASSUME NEW k \in DBKeys, Get(k) \/ Delete(k) PROVE DBInv'
  BY <1>2, GetKeeps, DeleteKeeps
<1>3. ASSUME NEW b \in Batches, Write(b, TRUE) \/ Write(b, FALSE) PROVE DBInv'
  <2>1. PICK throughCache \in BOOLEAN : Write(b, throughCache)
    BY <1>3
  <2> QED BY <2>1, WriteKeeps
<1>4. CASE UNCHANGED dbVars
  BY <1>4 DEF dbVars, DBInv, DurInv, MemInv, AgreeInv, DBRest, DiskType, DataType, PromiseType, EntryRec,
              FilesOwn, Kept, CacheOK, Cached, PlainItems, CacheAgrees
<1> QED BY <1>1, <1>2, <1>3, <1>4, CompactKeeps, ClearCacheKeeps, CloseKeeps, ExitKeeps, OpenKeeps DEF DBNext

\* The cache as above; what the cache of CachedDB holds is what the store below
\* it has, tainted keys apart; and what a Put, a Delete or a batch of filedb.go
\* that was answered promised is in memory while the store is open and is what
\* load reads back after a crash or an exit at any step.
THEOREM StoresSoundCorrect == CacheSpec /\ DBSpec => []StoresSound
<1>1. CacheInv /\ DBInv => StoresSound
  BY CacheInvSound, DBInvSound DEF StoresSound
<1> QED BY <1>1, CacheInitOK, CacheNextOK, DBInitOK, DBNextOK, PTL DEF CacheSpec, DBSpec

-----------------------------------------------------------------------------
(* The batch builder.                                                      *)

IsFcn(f) == f = [x \in DOMAIN f |-> f[x]]

WellMade(b) ==
    /\ b = [puts |-> b.puts, dels |-> b.dels] /\ IsFcn(b.puts)
    /\ IsFiniteSet(DOMAIN b.puts) /\ IsFiniteSet(b.dels)
    /\ DOMAIN b.puts \subseteq BatchedKeys /\ b.dels \subseteq BatchedKeys

NoOps(b) == DOMAIN b.puts = {} /\ b.dels = {}

MaxSize == Max({MaxBatchSize, PutSize, DeleteSize})

\* The inductive invariant of the builder: what is counted is 0 for an empty
\* batch, so that one operation alone is all that can exceed the limit.
BuilderInv ==
    /\ IsFcn(target) /\ DOMAIN target \subseteq BatchedKeys
    /\ WellMade(batch)
    /\ size \in Nat /\ (NoOps(batch) => size = 0) /\ (MaxBatchSize > 0 => size <= MaxSize)
    /\ BuilderAgrees

LEMMA MaxSizeIs ==
  MaxSize \in Nat /\ MaxBatchSize <= MaxSize /\ PutSize <= MaxSize /\ DeleteSize <= MaxSize
<1> DEFINE S == {MaxBatchSize, PutSize, DeleteSize}
           n == MaxBatchSize + PutSize + DeleteSize
<1>1. n \in Nat /\ S \in SUBSET (0 .. n) /\ S # {}
  BY BuilderAssumption
<1>2. Max(S) \in S /\ \A x \in S : x <= Max(S)
  <2> HIDE DEF n
  <2> QED BY <1>1, MaxBounded
<1> QED BY <1>2, BuilderAssumption DEF MaxSize

LEMMA NewBatchIs == WellMade(NewBatch) /\ NoOps(NewBatch)
<1>1. NewBatch = [puts |-> <<>>, dels |-> {}] /\ DOMAIN NewBatch.puts = {} /\ NewBatch.dels = {}
  BY DEF NewBatch
<1>2. IsFcn(NewBatch.puts)
  BY <1>1 DEF IsFcn
<1> QED BY <1>1, <1>2, FS_EmptySet DEF WellMade, NoOps, NewBatch

LEMMA BatchLenZero ==
  ASSUME NEW b, WellMade(b)
  PROVE  BatchLen(b) = 0 <=> NoOps(b)
<1>1. IsFiniteSet(DOMAIN b.puts) /\ IsFiniteSet(b.dels)
  BY DEF WellMade
<1>2. Cardinality(DOMAIN b.puts) \in Nat /\ Cardinality(b.dels) \in Nat
  BY <1>1, FS_CardinalityType
<1>3. /\ Cardinality(DOMAIN b.puts) = 0 <=> DOMAIN b.puts = {}
      /\ Cardinality(b.dels) = 0 <=> b.dels = {}
  BY <1>1, FS_EmptySet
<1> QED BY <1>2, <1>3 DEF BatchLen, NoOps

\* Writing a batch.
Made(w, b, store, done) ==
    /\ DOMAIN w = done \cup (DOMAIN store \ b.dels) /\ IsFcn(w)
    /\ \A k \in DOMAIN w : w[k] = IF k \in done THEN b.puts[k] ELSE store[k]

LEMMA WrittenIs ==
  ASSUME NEW b, NEW store, NEW done
  PROVE  Made(Written(b, store, done), b, store, done)
  BY DEF Written, IsFcn, Made

LEMMA WrittenAll ==
  ASSUME NEW b, NEW store
  PROVE  Made(Written(b, store, DOMAIN b.puts), b, store, DOMAIN b.puts)
<1> DEFINE D == DOMAIN b.puts
<1> HIDE DEF D
<1>1. Made(Written(b, store, D), b, store, D)
  BY WrittenIs
<1> QED BY <1>1 DEF D

LEMMA SameFcn ==
  ASSUME NEW f, NEW g, IsFcn(f), IsFcn(g), DOMAIN f = DOMAIN g, \A x \in DOMAIN f : f[x] = g[x]
  PROVE  f = g
  BY DEF IsFcn

LEMMA WrittenNew ==
  ASSUME NEW store, IsFcn(store), NEW b, NoOps(b)
  PROVE  Written(b, store, DOMAIN b.puts) = store
<1> DEFINE w == Written(b, store, DOMAIN b.puts)
<1>1. /\ DOMAIN w = DOMAIN b.puts \cup (DOMAIN store \ b.dels) /\ IsFcn(w)
      /\ \A k \in DOMAIN w : w[k] = IF k \in DOMAIN b.puts THEN b.puts[k] ELSE store[k]
  <2> DEFINE D == DOMAIN b.puts
  <2> HIDE DEF D
  <2>1. Made(Written(b, store, D), b, store, D)
    BY WrittenIs
  <2> QED BY <2>1 DEF Made, D
<1>2. DOMAIN w = DOMAIN store /\ \A k \in DOMAIN w : w[k] = store[k]
  BY <1>1 DEF NoOps
<1> HIDE DEF w
<1>3. w = store
  BY <1>1, <1>2, SameFcn
<1> QED BY <1>3 DEF w

LEMMA BatchPutIs ==
  ASSUME NEW b, WellMade(b), NEW k \in BatchedKeys, NEW v, NEW store
  PROVE  /\ WellMade(BatchPut(b, k, v)) /\ ~ NoOps(BatchPut(b, k, v))
         /\ Written(BatchPut(b, k, v), store, DOMAIN BatchPut(b, k, v).puts)
                = With(Written(b, store, DOMAIN b.puts), k, v)
<1> DEFINE c == BatchPut(b, k, v)
           w == Written(b, store, DOMAIN b.puts)
           x == Written(c, store, DOMAIN c.puts)
           y == With(w, k, v)
<1>1. c = [puts |-> With(b.puts, k, v), dels |-> b.dels \ {k}]
  BY DEF BatchPut
<1>2. /\ DOMAIN c.puts = DOMAIN b.puts \cup {k} /\ IsFcn(c.puts)
      /\ \A j \in DOMAIN c.puts : c.puts[j] = IF j = k THEN v ELSE b.puts[j]
  BY <1>1 DEF With, IsFcn
<1>3. c.dels = b.dels \ {k} /\ c = [puts |-> c.puts, dels |-> c.dels]
  BY <1>1
<1>4. IsFiniteSet(DOMAIN b.puts) /\ IsFiniteSet(b.dels) /\ DOMAIN b.puts \subseteq BatchedKeys /\ b.dels \subseteq BatchedKeys
  BY DEF WellMade
<1> HIDE DEF c
<1>5. IsFiniteSet(DOMAIN c.puts) /\ IsFiniteSet(c.dels)
  <2>1. IsFiniteSet((DOMAIN b.puts) \cup {k})
    BY <1>4, FS_AddElement
  <2>2. IsFiniteSet(b.dels \ {k})
    BY <1>4, FS_RemoveElement
  <2> QED BY <1>2, <1>3, <2>1, <2>2
<1>6. WellMade(c) /\ ~ NoOps(c)
  BY <1>2, <1>3, <1>4, <1>5 DEF WellMade, NoOps
<1>7. /\ DOMAIN w = DOMAIN b.puts \cup (DOMAIN store \ b.dels) /\ IsFcn(w)
      /\ \A j \in DOMAIN w : w[j] = IF j \in DOMAIN b.puts THEN b.puts[j] ELSE store[j]
  <2>1. Made(w, b, store, DOMAIN b.puts)
    BY WrittenAll
  <2> HIDE DEF w
  <2> QED BY <2>1 DEF Made
<1>8. /\ DOMAIN x = DOMAIN c.puts \cup (DOMAIN store \ c.dels) /\ IsFcn(x)
      /\ \A j \in DOMAIN x : x[j] = IF j \in DOMAIN c.puts THEN c.puts[j] ELSE store[j]
  <2>1. Made(x, c, store, DOMAIN c.puts)
    BY WrittenAll
  <2> HIDE DEF x
  <2> QED BY <2>1 DEF Made
<1> HIDE DEF w, x
<1>9. /\ DOMAIN y = DOMAIN w \cup {k} /\ IsFcn(y)
      /\ \A j \in DOMAIN y : y[j] = IF j = k THEN v ELSE w[j]
  BY DEF With, IsFcn
<1> HIDE DEF y
<1>10. DOMAIN x = DOMAIN y
  BY <1>2, <1>3, <1>7, <1>8, <1>9
<1>11. \A j \in DOMAIN x : x[j] = y[j]
  BY <1>2, <1>3, <1>7, <1>8, <1>9, <1>10
<1>12. x = y
  BY <1>8, <1>9, <1>10, <1>11, SameFcn
<1> QED BY <1>6, <1>12 DEF c, w, x, y

LEMMA BatchDeleteIs ==
  ASSUME NEW b, WellMade(b), NEW k \in BatchedKeys, NEW store
  PROVE  /\ WellMade(BatchDelete(b, k)) /\ ~ NoOps(BatchDelete(b, k))
         /\ Written(BatchDelete(b, k), store, DOMAIN BatchDelete(b, k).puts)
                = Minus(Written(b, store, DOMAIN b.puts), {k})
<1> DEFINE c == BatchDelete(b, k)
           w == Written(b, store, DOMAIN b.puts)
           x == Written(c, store, DOMAIN c.puts)
           y == Minus(w, {k})
<1>1. c = [puts |-> Minus(b.puts, {k}), dels |-> b.dels \cup {k}]
  BY DEF BatchDelete
<1>2. /\ DOMAIN c.puts = DOMAIN b.puts \ {k} /\ IsFcn(c.puts)
      /\ \A j \in DOMAIN c.puts : c.puts[j] = b.puts[j]
  BY <1>1 DEF Minus, Restrict, IsFcn
<1>3. c.dels = b.dels \cup {k} /\ c = [puts |-> c.puts, dels |-> c.dels]
  BY <1>1
<1>4. IsFiniteSet(DOMAIN b.puts) /\ IsFiniteSet(b.dels) /\ DOMAIN b.puts \subseteq BatchedKeys /\ b.dels \subseteq BatchedKeys
  BY DEF WellMade
<1> HIDE DEF c
<1>5. IsFiniteSet(DOMAIN c.puts) /\ IsFiniteSet(c.dels)
  <2>1. IsFiniteSet((DOMAIN b.puts) \ {k})
    BY <1>4, FS_RemoveElement
  <2>2. IsFiniteSet(b.dels \cup {k})
    BY <1>4, FS_AddElement
  <2> QED BY <1>2, <1>3, <2>1, <2>2
<1>6. WellMade(c) /\ ~ NoOps(c)
  BY <1>2, <1>3, <1>4, <1>5 DEF WellMade, NoOps
<1>7. /\ DOMAIN w = DOMAIN b.puts \cup (DOMAIN store \ b.dels) /\ IsFcn(w)
      /\ \A j \in DOMAIN w : w[j] = IF j \in DOMAIN b.puts THEN b.puts[j] ELSE store[j]
  <2>1. Made(w, b, store, DOMAIN b.puts)
    BY WrittenAll
  <2> HIDE DEF w
  <2> QED BY <2>1 DEF Made
<1>8. /\ DOMAIN x = DOMAIN c.puts \cup (DOMAIN store \ c.dels) /\ IsFcn(x)
      /\ \A j \in DOMAIN x : x[j] = IF j \in DOMAIN c.puts THEN c.puts[j] ELSE store[j]
  <2>1. Made(x, c, store, DOMAIN c.puts)
    BY WrittenAll
  <2> HIDE DEF x
  <2> QED BY <2>1 DEF Made
<1> HIDE DEF w, x
<1>9. /\ DOMAIN y = DOMAIN w \ {k} /\ IsFcn(y)
      /\ \A j \in DOMAIN y : y[j] = w[j]
  BY DEF Minus, Restrict, IsFcn
<1> HIDE DEF y
<1>10. DOMAIN x = DOMAIN y
  BY <1>2, <1>3, <1>7, <1>8, <1>9
<1>11. \A j \in DOMAIN x : x[j] = y[j]
  BY <1>2, <1>3, <1>7, <1>8, <1>9, <1>10
<1>12. x = y
  BY <1>8, <1>9, <1>10, <1>11, SameFcn
<1> QED BY <1>6, <1>12 DEF c, w, x, y

\* A write that failed half way is repeated.
LEMMA WrittenTwice ==
  ASSUME NEW b, NEW store, NEW done \in SUBSET DOMAIN b.puts
  PROVE  Written(b, Written(b, store, done), DOMAIN b.puts) = Written(b, store, DOMAIN b.puts)
<1> DEFINE w == Written(b, store, DOMAIN b.puts)
           h == Written(b, store, done)
           x == Written(b, h, DOMAIN b.puts)
<1>1. /\ DOMAIN w = DOMAIN b.puts \cup (DOMAIN store \ b.dels) /\ IsFcn(w)
      /\ \A j \in DOMAIN w : w[j] = IF j \in DOMAIN b.puts THEN b.puts[j] ELSE store[j]
  <2>1. Made(w, b, store, DOMAIN b.puts)
    BY WrittenAll
  <2> HIDE DEF w
  <2> QED BY <2>1 DEF Made
<1>2. /\ DOMAIN h = done \cup (DOMAIN store \ b.dels)
      /\ \A j \in DOMAIN h : h[j] = IF j \in done THEN b.puts[j] ELSE store[j]
  <2>1. Made(h, b, store, done)
    BY WrittenIs
  <2> HIDE DEF h
  <2> QED BY <2>1 DEF Made
<1> HIDE DEF h, w
<1>3. /\ DOMAIN x = DOMAIN b.puts \cup (DOMAIN h \ b.dels) /\ IsFcn(x)
      /\ \A j \in DOMAIN x : x[j] = IF j \in DOMAIN b.puts THEN b.puts[j] ELSE h[j]
  <2>1. Made(x, b, h, DOMAIN b.puts)
    BY WrittenAll
  <2> HIDE DEF x
  <2> QED BY <2>1 DEF Made
<1> HIDE DEF x
<1>4. DOMAIN x = DOMAIN w /\ \A j \in DOMAIN x : x[j] = w[j]
  BY <1>1, <1>2, <1>3
<1>5. x = w
  BY <1>1, <1>3, <1>4, SameFcn
<1> QED BY <1>5 DEF x, w, h

LEMMA BuilderInitOK == BuilderInit => BuilderInv
<1> SUFFICES ASSUME BuilderInit PROVE BuilderInv
  OBVIOUS
<1>1. target = <<>> /\ intended = <<>> /\ batch = NewBatch /\ size = 0
  BY DEF BuilderInit
<1>2. IsFcn(target) /\ DOMAIN target = {}
  BY <1>1 DEF IsFcn
<1>3. BuilderAgrees
  BY <1>1, <1>2, NewBatchIs, WrittenNew DEF BuilderAgrees
<1> QED BY <1>1, <1>2, <1>3, NewBatchIs, MaxSizeIs DEF BuilderInv

LEMMA FlushedOK ==
  ASSUME BuilderInv
  PROVE  LET w == Written(batch, target, DOMAIN batch.puts)
         IN  w = intended /\ IsFcn(w) /\ DOMAIN w \subseteq BatchedKeys
<1>1. Written(batch, target, DOMAIN batch.puts) = intended
  BY DEF BuilderInv, BuilderAgrees
<1>2. DOMAIN target \subseteq BatchedKeys /\ DOMAIN batch.puts \subseteq BatchedKeys
  BY DEF BuilderInv, WellMade
<1>3. Made(Written(batch, target, DOMAIN batch.puts), batch, target, DOMAIN batch.puts)
  BY WrittenAll
<1> QED BY <1>1, <1>2, <1>3 DEF Made

\* The operation that follows finds the store and the batch agreeing still.
LEMMA RoomMade ==
  ASSUME BuilderInv, NEW bytes \in {PutSize, DeleteSize}, MakeRoom(bytes)
  PROVE  /\ WellMade(Roomy(bytes)) /\ IsFcn(target') /\ DOMAIN target' \subseteq BatchedKeys
         /\ Written(Roomy(bytes), target', DOMAIN Roomy(bytes).puts) = intended
         /\ size' \in Nat /\ (MaxBatchSize > 0 => size' <= MaxSize)
<1>1. /\ target' = IF Flushes(bytes) THEN Written(batch, target, DOMAIN batch.puts) ELSE target
      /\ size' = bytes + IF Flushes(bytes) THEN 0 ELSE size
  BY DEF MakeRoom
<1>2. size \in Nat /\ bytes \in Nat /\ bytes <= MaxSize /\ MaxSize \in Nat /\ MaxBatchSize \in Nat /\ MaxBatchSize <= MaxSize
  BY MaxSizeIs, BuilderAssumption DEF BuilderInv
<1>3. CASE Flushes(bytes)
  <2>1. Roomy(bytes) = NewBatch
    BY <1>3 DEF Roomy
  <2>2. target' = intended /\ IsFcn(target') /\ DOMAIN target' \subseteq BatchedKeys
    BY <1>1, <1>3, FlushedOK
  <2>3. Written(NewBatch, target', DOMAIN NewBatch.puts) = target'
    BY <2>2, NewBatchIs, WrittenNew
  <2>4. size' = bytes
    BY <1>1, <1>2, <1>3
  <2> QED BY <1>2, <2>1, <2>2, <2>3, <2>4, NewBatchIs
<1>4. CASE ~ Flushes(bytes)
  <2>1. Roomy(bytes) = batch /\ target' = target /\ size' = bytes + size
    BY <1>1, <1>4 DEF Roomy
  <2>2. MaxBatchSize > 0 => size' <= MaxSize
    <3>1. CASE ~ TooLarge(bytes)
      BY <1>2, <2>1, <3>1 DEF TooLarge
    <3>2. CASE BatchLen(batch) = 0
      <4>1. size = 0
        BY <3>2, BatchLenZero DEF BuilderInv
      <4> QED BY <1>2, <2>1, <4>1
    <3> QED BY <1>4, <3>1, <3>2 DEF Flushes
  <2>3. size' \in Nat
    BY <1>2, <2>1
  <2>4. Written(batch, target, DOMAIN batch.puts) = intended /\ WellMade(batch) /\ IsFcn(target) /\ DOMAIN target \subseteq BatchedKeys
    BY DEF BuilderInv, BuilderAgrees
  <2> QED BY <2>1, <2>2, <2>3, <2>4
<1> QED BY <1>3, <1>4

\* The parts of the invariant after a step, unprimed operators apart.
LEMMA BuilderNow ==
  ASSUME IsFcn(target'), DOMAIN target' \subseteq BatchedKeys, WellMade(batch'),
         size' \in Nat, NoOps(batch') => size' = 0, MaxBatchSize > 0 => size' <= MaxSize,
         Written(batch', target', DOMAIN batch'.puts) = intended'
  PROVE  BuilderInv'
<1>1. BuilderAgrees'
  BY DEF BuilderAgrees, Written
<1>2. WellMade(batch)' /\ IsFcn(target)' /\ (NoOps(batch)' => size' = 0)
  BY DEF WellMade, IsFcn, NoOps
<1>3. MaxSize' = MaxSize
  BY DEF MaxSize
<1> QED BY <1>1, <1>2, <1>3 DEF BuilderInv

LEMMA BuilderNextOK == BuilderInv /\ [BuilderNext]_builderVars => BuilderInv'
<1> SUFFICES ASSUME BuilderInv, [BuilderNext]_builderVars PROVE BuilderInv'
  OBVIOUS
<1>1. /\ IsFcn(target) /\ DOMAIN target \subseteq BatchedKeys /\ WellMade(batch) /\ size \in Nat
      /\ (NoOps(batch) => size = 0) /\ (MaxBatchSize > 0 => size <= MaxSize)
      /\ Written(batch, target, DOMAIN batch.puts) = intended
  BY DEF BuilderInv, BuilderAgrees
<1>2. ASSUME NEW k \in BatchedKeys, NEW v \in BatchedValues, BuilderPut(k, v) PROVE BuilderInv'
  <2> DEFINE r == Roomy(PutSize)
  <2>1. MakeRoom(PutSize) /\ batch' = BatchPut(r, k, v) /\ intended' = With(intended, k, v)
    BY <1>2 DEF BuilderPut
  <2>2. /\ WellMade(r) /\ IsFcn(target') /\ DOMAIN target' \subseteq BatchedKeys
        /\ Written(r, target', DOMAIN r.puts) = intended
        /\ size' \in Nat /\ (MaxBatchSize > 0 => size' <= MaxSize)
    BY <2>1, RoomMade
  <2> HIDE DEF r
  <2>3. WellMade(batch') /\ ~ NoOps(batch') /\ Written(batch', target', DOMAIN batch'.puts) = intended'
    BY <2>1, <2>2, BatchPutIs
  <2> QED BY <2>2, <2>3, BuilderNow
<1>3. ASSUME NEW k \in BatchedKeys, BuilderDelete(k) PROVE BuilderInv'
  <2> DEFINE r == Roomy(DeleteSize)
  <2>1. MakeRoom(DeleteSize) /\ batch' = BatchDelete(r, k) /\ intended' = Minus(intended, {k})
    BY <1>3 DEF BuilderDelete
  <2>2. /\ WellMade(r) /\ IsFcn(target') /\ DOMAIN target' \subseteq BatchedKeys
        /\ Written(r, target', DOMAIN r.puts) = intended
        /\ size' \in Nat /\ (MaxBatchSize > 0 => size' <= MaxSize)
    BY <2>1, RoomMade
  <2> HIDE DEF r
  <2>3. WellMade(batch') /\ ~ NoOps(batch') /\ Written(batch', target', DOMAIN batch'.puts) = intended'
    BY <2>1, <2>2, BatchDeleteIs
  <2> QED BY <2>2, <2>3, BuilderNow
<1>4. CASE Flush
  <2>1. target' = Written(batch, target, DOMAIN batch.puts) /\ batch' = NewBatch /\ size' = 0 /\ intended' = intended
    BY <1>4 DEF Flush
  <2>2. target' = intended /\ IsFcn(target') /\ DOMAIN target' \subseteq BatchedKeys
    BY <2>1, FlushedOK
  <2>3. Written(batch', target', DOMAIN batch'.puts) = intended'
    BY <2>1, <2>2, NewBatchIs, WrittenNew
  <2> QED BY <2>1, <2>2, <2>3, NewBatchIs, MaxSizeIs, BuilderNow
<1>5. CASE FlushFails
  <2>1. PICK done \in SUBSET DOMAIN batch.puts \ {{}} : target' = Written(batch, target, done)
    BY <1>5 DEF FlushFails
  <2>2. UNCHANGED <<batch, size, intended>>
    BY <1>5 DEF FlushFails
  <2>3. IsFcn(target') /\ DOMAIN target' = done \cup (DOMAIN target \ batch.dels)
    BY <2>1, WrittenIs DEF Made
  <2>4. DOMAIN target' \subseteq BatchedKeys
    BY <1>1, <2>1, <2>3 DEF WellMade
  <2>5. Written(batch, target', DOMAIN batch.puts) = intended
    BY <1>1, <2>1, WrittenTwice
  <2> QED BY <1>1, <2>2, <2>3, <2>4, <2>5, BuilderNow
<1>6. CASE Reset
  <2>1. batch' = NewBatch /\ size' = 0 /\ intended' = target /\ target' = target
    BY <1>6 DEF Reset
  <2>2. Written(batch', target', DOMAIN batch'.puts) = intended'
    BY <1>1, <2>1, NewBatchIs, WrittenNew
  <2> QED BY <1>1, <2>1, <2>2, NewBatchIs, MaxSizeIs, BuilderNow
<1>7. CASE UNCHANGED builderVars
  BY <1>1, <1>7, BuilderNow DEF builderVars
<1> QED BY <1>2, <1>3, <1>4, <1>5, <1>6, <1>7 DEF BuilderNext

LEMMA BuilderInvSound == BuilderInv => BuilderAgrees /\ BuilderTypeOK
  BY DEF BuilderInv, BuilderTypeOK, WellMade, MaxSize

-----------------------------------------------------------------------------
(* Sets of numbers in order.                                               *)

IsAscending(s) == \A i, j \in DOMAIN s : i < j => s[i] < s[j]

LEMMA LargestInt ==
  ASSUME NEW S, IsFiniteSet(S), S \subseteq Int, S # {}
  PROVE  \E m \in S : \A x \in S : x <= m
<1> DEFINE Has(t) == \E m \in t : \A x \in t : x <= m
           Good == {t \in SUBSET S : t = {} \/ Has(t)}
<1>1. {} \in Good /\ Good \in SUBSET (SUBSET S)
  OBVIOUS
<1>2. ASSUME NEW t \in SUBSET S, t # {}, \A x \in t : t \ {x} \in Good PROVE t \in Good
  <2>1. PICK x \in t : TRUE
    BY <1>2
  <2>2. CASE t \ {x} = {}
    <3>1. t = {x} /\ x \in Int
      BY <2>1, <2>2
    <3> QED BY <3>1
  <2>3. CASE t \ {x} # {}
    <3>1. PICK m \in t \ {x} : \A y \in t \ {x} : y <= m
      BY <1>2, <2>1, <2>3
    <3>2. m \in Int /\ x \in Int /\ \A y \in t : y \in Int
      BY <2>1, <3>1
    <3>3. CASE m <= x
      <4>1. \A y \in t : y <= x
        BY <3>1, <3>2, <3>3
      <4> QED BY <2>1, <4>1
    <3>4. CASE x <= m
      <4>1. \A y \in t : y <= m
        BY <3>1, <3>2, <3>4
      <4> QED BY <3>1, <4>1
    <3> QED BY <3>2, <3>3, <3>4
  <2> QED BY <2>2, <2>3
<1>3. Good = SUBSET S
  <2> HIDE DEF Good
  <2> QED BY <1>1, <1>2, SubsetInduction
<1>4. S \in Good
  BY <1>3
<1> QED BY <1>4

LEMMA AscendingExists ==
  ASSUME NEW S, IsFiniteSet(S), S \subseteq Int
  PROVE  \E s \in [1 .. Cardinality(S) -> S] : IsAscending(s)
<1> DEFINE Has(t) == \E s \in [1 .. Cardinality(t) -> t] : IsAscending(s)
           Good == {t \in SUBSET S : Has(t)}
<1>1. {} \in Good /\ Good \in SUBSET (SUBSET S)
  <2>1. Cardinality({}) = 0 /\ 1 .. 0 = {}
    BY FS_EmptySet
  <2>2. [i \in {} |-> i] \in [{} -> {}] /\ IsAscending([i \in {} |-> i])
    BY DEF IsAscending
  <2>3. Has({})
    BY <2>1, <2>2
  <2> QED BY <2>3
<1>2. ASSUME NEW t \in SUBSET S, t # {}, \A x \in t : t \ {x} \in Good PROVE t \in Good
  <2>1. IsFiniteSet(t) /\ t \subseteq Int
    BY FS_Subset
  <2>2. PICK m \in t : \A x \in t : x <= m
    BY <1>2, <2>1, LargestInt
  <2> DEFINE r == t \ {m}
             c == Cardinality(t)
  <2>3. Cardinality(r) = c - 1 /\ c \in Nat
    BY <2>1, <2>2, FS_RemoveElement, FS_CardinalityType
  <2>4. c # 0
    BY <1>2, <2>1, FS_EmptySet
  <2>5. PICK s \in [1 .. (c - 1) -> r] : IsAscending(s)
    BY <1>2, <2>2, <2>3
  <2> DEFINE u == [i \in 1 .. c |-> IF i = c THEN m ELSE s[i]]
  <2> HIDE DEF c
  <2>6. \A i \in 1 .. c : i # c => i \in 1 .. (c - 1)
    BY <2>3, <2>4
  <2>7. u \in [1 .. c -> t]
    BY <2>2, <2>5, <2>6
  <2>8. ASSUME NEW i \in 1 .. c, NEW j \in 1 .. c, i < j PROVE u[i] < u[j]
    <3>1. i # c /\ i \in 1 .. (c - 1) /\ u[i] = s[i] /\ s[i] \in r
      BY <2>3, <2>4, <2>5, <2>6, <2>8
    <3>2. CASE j = c
      <4>1. u[j] = m /\ s[i] \in t /\ s[i] # m /\ s[i] <= m /\ s[i] \in Int /\ m \in Int
        BY <2>1, <2>2, <3>1, <3>2
      <4> HIDE DEF u
      <4> QED BY <3>1, <4>1
    <3>3. CASE j # c
      BY <2>5, <2>6, <2>8, <3>1, <3>3 DEF IsAscending
    <3> QED BY <3>2, <3>3
  <2>9. IsAscending(u)
    BY <2>8 DEF IsAscending
  <2> QED BY <2>7, <2>9 DEF c
<1>3. Good = SUBSET S
  <2> HIDE DEF Good
  <2> QED BY <1>1, <1>2, SubsetInduction
<1>4. S \in Good
  BY <1>3
<1> QED BY <1>4

\* The members in ascending order, each once.
LEMMA AscendingIs ==
  ASSUME NEW S, IsFiniteSet(S), S \subseteq Int
  PROVE  /\ Ascending(S) \in Seq(S) /\ IsAscending(Ascending(S))
         /\ Ascending(S) \in Orders(S, Cardinality(S))
         /\ Len(Ascending(S)) = Cardinality(S)
         /\ \A x \in S : \E i \in DOMAIN Ascending(S) : Ascending(S)[i] = x
<1> DEFINE n == Cardinality(S)
           a == Ascending(S)
<1>1. n \in Nat
  BY FS_CardinalityType
<1>2. a \in [1 .. n -> S] /\ IsAscending(a)
  <2>1. \E s \in [1 .. n -> S] : \A i, j \in DOMAIN s : i < j => s[i] < s[j]
    BY AscendingExists DEF IsAscending
  <2> QED BY <2>1 DEF Ascending, IsAscending
<1> HIDE DEF n, a
<1>3. ASSUME NEW i \in 1 .. n, NEW j \in 1 .. n, i # j PROVE a[i] # a[j]
  <2>0. a[i] \in S /\ a[j] \in S
    BY <1>2
  <2>3. i < j \/ j < i
    BY <1>1, <1>3
  <2>1. a[i] \in Int /\ a[j] \in Int /\ (i < j \/ j < i)
    BY <2>0, <2>3
  <2>2. a[i] < a[j] \/ a[j] < a[i]
    BY <1>2, <2>1 DEF IsAscending
  <2> QED BY <2>1, <2>2
<1>4. a \in Orders(S, n)
  BY <1>2, <1>3 DEF Orders
<1>5. a \in Seq(S) /\ Len(a) = n /\ DOMAIN a = 1 .. n
  BY <1>1, <1>2
<1>6. \A x \in S : \E i \in 1 .. n : a[i] = x
  BY <1>4, OrderHoldsAll DEF n
<1> QED BY <1>2, <1>4, <1>5, <1>6 DEF n, a

-----------------------------------------------------------------------------
(* The binary search.                                                      *)

\* The keys smaller than k are the first c.
SmallerUpTo(keys, k, c) == c \in 0 .. Len(keys) /\ \A i \in 1 .. Len(keys) : keys[i] < k <=> i <= c

LEMMA SmallerFirst ==
  ASSUME NEW keys \in Seq(Int), IsAscending(keys), NEW k \in Int
  PROVE  \E c \in 0 .. Len(keys) : SmallerUpTo(keys, k, c)
<1> DEFINE n == Len(keys)
           T == {i \in 1 .. n : ~ (keys[i] < k)}
<1>1. n \in Nat /\ DOMAIN keys = 1 .. n /\ \A i \in 1 .. n : keys[i] \in Int
  OBVIOUS
<1>2. CASE T = {}
  <2>1. n \in 0 .. n /\ \A i \in 1 .. n : keys[i] < k /\ i <= n
    BY <1>1, <1>2
  <2>2. SmallerUpTo(keys, k, n)
    BY <2>1 DEF SmallerUpTo
  <2> QED BY <2>1, <2>2
<1>3. CASE T # {}
  <2>1. T \in SUBSET Nat
    BY <1>1
  <2>2. PICK m \in T : \A i \in T : m <= i
    BY <1>3, <2>1, LeastNatural
  <2>3. m \in 1 .. n /\ ~ (keys[m] < k)
    BY <2>2
  <2>4. ASSUME NEW i \in 1 .. n PROVE keys[i] < k <=> i <= m - 1
    <3>1. CASE i < m
      <4>1. i \notin T
        BY <1>1, <2>2, <2>3, <3>1
      <4> QED BY <1>1, <2>3, <3>1, <4>1
    <3>2. CASE i = m
      BY <1>1, <2>3, <3>2
    <3>3. CASE m < i
      <4>1. keys[m] < keys[i]
        BY <1>1, <2>3, <3>3 DEF IsAscending
      <4> HIDE DEF n, T
      <4> QED BY <1>1, <2>3, <3>3, <4>1
    <3> QED BY <1>1, <2>3, <3>1, <3>2, <3>3
  <2>5. m - 1 \in 0 .. n
    BY <1>1, <2>3
  <2>6. SmallerUpTo(keys, k, m - 1)
    BY <2>4, <2>5 DEF SmallerUpTo
  <2> QED BY <2>5, <2>6
<1> QED BY <1>2, <1>3

SearchFcn(keys, k) ==
    CHOOSE search : search = [r \in Ranges(keys) |->
            IF r[1] < r[2] THEN IF keys[Middle(r) + 1] < k
                                THEN search[<<Middle(r) + 1, r[2]>>] ELSE search[<<r[1], Middle(r)>>]
                           ELSE r[1]]

LEMMA LowerBoundDef ==
  ASSUME NEW keys, NEW k
  PROVE  lowerBound(keys, k) = SearchFcn(keys, k)[<<0, Len(keys)>>]
  BY DEF lowerBound, SearchFcn

\* Where the search of a range ends, if c keys are smaller.
Clamped(c, low, high) == IF low >= high \/ c <= low THEN low ELSE IF high <= c THEN high ELSE c

LEMMA Halved ==
  ASSUME NEW low \in Nat, NEW high \in Nat, low < high, NEW m, m = (low + high) \div 2
  PROVE  m \in Nat /\ low <= m /\ m < high
  OBVIOUS

\* One step of the search keeps where it ends.
LEMMA ClampedStep ==
  ASSUME NEW low \in Nat, NEW high \in Nat, low < high, NEW m \in Nat, low <= m, m < high, NEW c \in Nat
  PROVE  Clamped(c, low, high) = IF m < c THEN Clamped(c, m + 1, high) ELSE Clamped(c, low, m)
  BY DEF Clamped

LEMMA LowerBoundIs ==
  ASSUME NEW keys \in Seq(Int), NEW k \in Int, NEW c, SmallerUpTo(keys, k, c)
  PROVE  lowerBound(keys, k) = c
<1> DEFINE n == Len(keys)
           D == (0 .. n) \X (0 .. n)
           Turn(f, r) == IF r[1] < r[2] THEN IF keys[Middle(r) + 1] < k
                                THEN f[<<Middle(r) + 1, r[2]>>] ELSE f[<<r[1], Middle(r)>>]
                           ELSE r[1]
           Eq(f) == f = [r \in D |-> Turn(f, r)]
           p == SearchFcn(keys, k)
           g == [r \in D |-> Clamped(c, r[1], r[2])]
<1>1. n \in Nat /\ c \in 0 .. n /\ c \in Nat /\ Ranges(keys) = D
  BY DEF SmallerUpTo, Ranges
<1>2. p = CHOOSE f : Eq(f)
  BY <1>1 DEF SearchFcn
<1>3. ASSUME NEW r \in D, r[1] < r[2]
      PROVE  /\ Middle(r) \in Nat /\ r[1] <= Middle(r) /\ Middle(r) < r[2]
             /\ r[1] \in Nat /\ r[2] \in Nat
             /\ <<Middle(r) + 1, r[2]>> \in D /\ <<r[1], Middle(r)>> \in D
             /\ keys[Middle(r) + 1] < k <=> Middle(r) < c
  <2> DEFINE m == Middle(r)
  <2>1. r[1] \in 0 .. n /\ r[2] \in 0 .. n /\ r[1] \in Nat /\ r[2] \in Nat
    BY <1>1
  <2>2. m \in Nat /\ r[1] <= m /\ m < r[2]
    BY <1>3, <2>1, Halved DEF Middle
  <2> HIDE DEF m
  <2>3. m + 1 \in 1 .. n /\ m + 1 \in 0 .. n /\ m \in 0 .. n
    BY <1>1, <2>1, <2>2
  <2>4. keys[m + 1] < k <=> m + 1 <= c
    BY <2>3 DEF SmallerUpTo
  <2>5. m + 1 <= c <=> m < c
    BY <1>1, <2>2
  <2>6. <<m + 1, r[2]>> \in D /\ <<r[1], m>> \in D
    BY <2>1, <2>3
  <2> QED BY <2>1, <2>2, <2>4, <2>5, <2>6 DEF m
<1>4. ASSUME NEW r \in D, r[1] < r[2]
      PROVE  Clamped(c, r[1], r[2]) = IF Middle(r) < c THEN Clamped(c, Middle(r) + 1, r[2]) ELSE Clamped(c, r[1], Middle(r))
  <2>1. r[1] \in Nat /\ r[2] \in Nat /\ Middle(r) \in Nat /\ r[1] <= Middle(r) /\ Middle(r) < r[2]
    BY <1>3, <1>4
  <2> QED BY <1>1, <1>4, <2>1, ClampedStep
<1>5. ASSUME NEW r \in D, ~ (r[1] < r[2]) PROVE Clamped(c, r[1], r[2]) = r[1]
  <2>1. r[1] \in Nat /\ r[2] \in Nat
    BY <1>1
  <2> QED BY <1>5, <2>1 DEF Clamped
<1>6. ASSUME NEW r \in D PROVE g[r] = Turn(g, r)
  <2>1. CASE r[1] < r[2]
    <3>1. g[<<Middle(r) + 1, r[2]>>] = Clamped(c, Middle(r) + 1, r[2]) /\ g[<<r[1], Middle(r)>>] = Clamped(c, r[1], Middle(r))
      BY <1>3, <2>1
    <3> QED BY <1>3, <1>4, <2>1, <3>1
  <2>2. CASE ~ (r[1] < r[2])
    BY <1>5, <2>2
  <2> QED BY <2>1, <2>2
<1>7. Eq(g)
  BY <1>6
<1>8. Eq(p)
  BY <1>2, <1>7
<1>9. \A r \in D : p[r] = Turn(p, r)
  BY <1>8
<1> HIDE DEF p
<1> DEFINE Good == {i \in 0 .. n : \A r \in D : r[2] - r[1] <= i => p[r] = Clamped(c, r[1], r[2])}
<1>10. 0 \in Good
  <2>1. ASSUME NEW r \in D, r[2] - r[1] <= 0 PROVE p[r] = Clamped(c, r[1], r[2])
    <3>1. ~ (r[1] < r[2])
      BY <1>1, <2>1
    <3> QED BY <1>5, <1>9, <3>1
  <2> QED BY <1>1, <2>1
<1>11. ASSUME NEW i \in 1 .. n, i - 1 \in Good PROVE i \in Good
  <2>1. ASSUME NEW r \in D, r[2] - r[1] <= i PROVE p[r] = Clamped(c, r[1], r[2])
    <3>1. CASE r[1] < r[2]
      <4>1. /\ Middle(r) \in Nat /\ r[1] <= Middle(r) /\ Middle(r) < r[2] /\ r[1] \in Nat /\ r[2] \in Nat
            /\ <<Middle(r) + 1, r[2]>> \in D /\ <<r[1], Middle(r)>> \in D
            /\ keys[Middle(r) + 1] < k <=> Middle(r) < c
        BY <1>3, <3>1
      <4> DEFINE m == Middle(r)
      <4>2. r[2] - (m + 1) <= i - 1 /\ m - r[1] <= i - 1
        <5> HIDE DEF m
        <5>1. m \in Nat /\ r[1] <= m /\ m < r[2] /\ r[1] \in Nat /\ r[2] \in Nat /\ i \in Nat
          BY <4>1, <1>1 DEF m
        <5> QED BY <2>1, <5>1
      <4>3. p[<<m + 1, r[2]>>] = Clamped(c, m + 1, r[2])
        BY <1>11, <4>1, <4>2
      <4>4. p[<<r[1], m>>] = Clamped(c, r[1], m)
        BY <1>11, <4>1, <4>2
      <4> QED BY <1>4, <1>9, <3>1, <4>1, <4>3, <4>4
    <3>2. CASE ~ (r[1] < r[2])
      BY <1>5, <1>9, <3>2
    <3> QED BY <3>1, <3>2
  <2>2. i \in 0 .. n
    BY <1>1
  <2> QED BY <2>1, <2>2
<1>12. Good = 0 .. n
  <2>1. Good \in SUBSET (0 .. n)
    OBVIOUS
  <2> HIDE DEF Good
  <2> QED BY <1>1, <1>10, <1>11, <2>1, UpInduction
<1>13. <<0, n>> \in D /\ n \in Good
  BY <1>1, <1>12
<1>14. p[<<0, n>>] = Clamped(c, 0, n)
  BY <1>1, <1>13
<1>15. Clamped(c, 0, n) = c
  BY <1>1 DEF Clamped
<1> QED BY <1>14, <1>15, LowerBoundDef DEF p

-----------------------------------------------------------------------------
(* The iterator and the helpers over it.                                   *)

\* An iterator over keys of the prefix, in their order.
IsIterator(it) ==
    /\ it = [keys |-> it.keys, index |-> it.index]
    /\ it.keys \in Seq(Prefix) /\ IsAscending(it.keys)
    /\ it.index \in -2 .. Len(it.keys) + 1

\* The keys of the first n places.
VisitedKeys(it, n) == {it.keys[i] : i \in 1 .. n}

\* The inductive invariant of the helpers.  The iterator's keys that nobody
\* wrote since are those that are there; a helper's batch has an entry for
\* those visited, and that of an untouched key is its value; only a caller
\* that strayed is behind an end.
HelperStates == {"none", "browse", "backup", "delete", "saved", "deleted"}

IteratedNow == \A k \in Prefix \ touched : k \in Present <=> k \in ToSet(iter.keys)

CollectedNow ==
    /\ \A k \in DOMAIN collected \ touched : collected[k] = source[k]
    /\ \A k \in DOMAIN collected : collected[k] = Empty => k \in touched

IterInv ==
    /\ source \in [IterKeys -> SourceValues \cup {Missing}]
    /\ IsIterator(iter)
    /\ helper \in HelperStates
    /\ touched \subseteq IterKeys /\ answer \in BOOLEAN /\ strayed \in BOOLEAN
    /\ ~ strayed => iter.index \in -1 .. Len(iter.keys)
    /\ helper = "none" => ~ answer /\ ~ strayed /\ touched = {}
    /\ helper \in {"none", "browse"} => DOMAIN collected = {}
    /\ TrueHasKey
    /\ helper \in {"browse", "backup", "delete", "saved"} => IteratedNow
    /\ helper \in {"backup", "delete"} =>
            /\ iter.index + 1 \in 0 .. Len(iter.keys) /\ ~ strayed
            /\ DOMAIN collected = VisitedKeys(iter, iter.index + 1)
    /\ helper = "saved" => DOMAIN collected = ToSet(iter.keys)
    /\ helper = "deleted" => DOMAIN collected \subseteq Prefix /\ \A k \in Prefix \ touched : source[k] = Missing
    /\ helper \in {"backup", "saved"} => CollectedNow

LEMMA MovedIs ==
  ASSUME NEW it, IsIterator(it), NEW step \in Int, it.index + step \in -2 .. Len(it.keys) + 1
  PROVE  IsIterator(Moved(it, step)) /\ Moved(it, step).keys = it.keys /\ Moved(it, step).index = it.index + step
<1> DEFINE m == Moved(it, step)
<1>1. m = [keys |-> it.keys, index |-> it.index + step]
  BY DEF Moved, IsIterator
<1> HIDE DEF m
<1>2. m.keys = it.keys /\ m.index = it.index + step /\ m = [keys |-> m.keys, index |-> m.index]
  BY <1>1
<1> QED BY <1>2 DEF IsIterator, m

LEMMA SeekToIs ==
  ASSUME NEW it, IsIterator(it), NEW k \in IterKeys
  PROVE  /\ IsIterator(SeekTo(it, k)) /\ SeekTo(it, k).keys = it.keys
         /\ SeekTo(it, k).index \in 0 .. Len(it.keys)
         /\ SeekTo(it, k).index = Cardinality({i \in DOMAIN it.keys : it.keys[i] < k})
         /\ NextAnswers([it EXCEPT !.index = lowerBound(it.keys, k) - 1]) <=> SeekTo(it, k).index < Len(it.keys)
<1> DEFINE n == Len(it.keys)
           b == [it EXCEPT !.index = lowerBound(it.keys, k) - 1]
           s == SeekTo(it, k)
<1>1. it.keys \in Seq(Int) /\ IsAscending(it.keys) /\ k \in Int /\ n \in Nat /\ DOMAIN it.keys = 1 .. n
  <2>1. it.keys \in Seq(Prefix) /\ IsAscending(it.keys) /\ Prefix \subseteq Int /\ k \in Int
    BY IteratorAssumption DEF IsIterator
  <2> DEFINE ks == it.keys
  <2>2. ks \in Seq(Prefix)
    BY <2>1
  <2> HIDE DEF ks
  <2>3. Len(ks) \in Nat /\ DOMAIN ks = 1 .. Len(ks) /\ ks \in [1 .. Len(ks) -> Prefix]
    BY <2>2
  <2>4. ks \in [1 .. Len(ks) -> Int]
    BY <2>1, <2>3
  <2>5. ks \in Seq(Int)
    BY <2>3, <2>4
  <2> QED BY <2>1, <2>3, <2>5 DEF ks
<1>2. PICK c \in 0 .. n : SmallerUpTo(it.keys, k, c)
  BY <1>1, SmallerFirst
<1>3. lowerBound(it.keys, k) = c
  BY <1>1, <1>2, LowerBoundIs
<1>4. b = [keys |-> it.keys, index |-> c - 1]
  BY <1>3 DEF IsIterator
<1>5. b.keys = it.keys /\ b.index = c - 1 /\ b = [keys |-> b.keys, index |-> b.index]
  BY <1>4
<1>6. s = Moved(b, 1)
  BY DEF SeekTo
<1> HIDE DEF b
<1>7. c - 1 \in -2 .. n + 1 /\ (c - 1) + 1 = c /\ c \in -2 .. n + 1
  BY <1>1, <1>2
<1>8. IsIterator(b)
  BY <1>5, <1>7 DEF IsIterator
<1>9. IsIterator(s) /\ s.keys = it.keys /\ s.index = c
  BY <1>5, <1>6, <1>7, <1>8, MovedIs
<1>10. NextAnswers(b) <=> c < n
  BY <1>5, <1>7 DEF NextAnswers
<1>11. Cardinality({i \in DOMAIN it.keys : it.keys[i] < k}) = c
  <2> DEFINE T == {i \in DOMAIN it.keys : it.keys[i] < k}
  <2>1. T = 1 .. c
    BY <1>1, <1>2 DEF SmallerUpTo
  <2>2. 1 \in Int /\ c \in Int /\ c \in Nat
    BY <1>1, <1>2
  <2>3. Cardinality(1 .. c) = IF 1 > c THEN 0 ELSE c - 1 + 1
    BY <2>2, FS_Interval
  <2>4. Cardinality(1 .. c) = c
    BY <2>2, <2>3
  <2> HIDE DEF T
  <2>5. Cardinality(T) = c
    BY <2>1, <2>4
  <2> QED BY <2>5 DEF T
<1> HIDE DEF s
<1> QED BY <1>9, <1>10, <1>11, <1>2 DEF b, s

LEMMA NewIteratorIs ==
  ASSUME NEW keys \in SUBSET Prefix
  PROVE  /\ IsIterator(NewIterator(keys)) /\ NewIterator(keys).index = -1
         /\ ToSet(NewIterator(keys).keys) = keys
<1> DEFINE it == NewIterator(keys)
           a == Ascending(keys)
<1>1. keys \subseteq IterKeys /\ IsFiniteSet(IterKeys) /\ IterKeys \subseteq Int
  BY IteratorAssumption
<1>2. IsFiniteSet(keys) /\ keys \subseteq Int
  BY <1>1, FS_Subset
<1>3. /\ a \in Seq(keys) /\ IsAscending(a) /\ \A x \in keys : \E i \in DOMAIN a : a[i] = x
  BY <1>2, AscendingIs
<1>4. it = [keys |-> a, index |-> -1]
  BY DEF NewIterator
<1> HIDE DEF a, it
<1>5. a \in Seq(Prefix) /\ \A i \in DOMAIN a : a[i] \in keys
  BY <1>3
<1>6. ToSet(a) = keys
  BY <1>3, <1>5 DEF ToSet
<1>7. -1 \in -2 .. Len(a) + 1
  BY <1>3
<1>8. it.keys = a /\ it.index = -1 /\ it = [keys |-> it.keys, index |-> it.index]
  BY <1>4
<1> QED BY <1>3, <1>5, <1>6, <1>7, <1>8 DEF IsIterator, it

LEMMA IterInitOK == IterInit => IterInv
<1> SUFFICES ASSUME IterInit PROVE IterInv
  OBVIOUS
<1>1. /\ iter = NewIterator({}) /\ helper = "none" /\ DOMAIN collected = {} /\ answer = FALSE
      /\ touched = {} /\ strayed = FALSE /\ source \in [IterKeys -> SourceValues \cup {Missing}]
  BY DEF IterInit
<1>2. IsIterator(iter) /\ iter.index = -1 /\ Len(iter.keys) \in Nat
  BY <1>1, NewIteratorIs DEF IsIterator
<1>3. iter.index \in -1 .. Len(iter.keys)
  BY <1>2
<1> QED BY <1>1, <1>2, <1>3 DEF IterInv, HelperStates, TrueHasKey

LEMMA IterInvSound == IterInv => SeekFinds /\ TrueHasKey /\ HelpersUndisturbed /\ IterTypeOK
<1> SUFFICES ASSUME IterInv PROVE SeekFinds /\ TrueHasKey /\ HelpersUndisturbed /\ IterTypeOK
  OBVIOUS
<1>1. SeekFinds
  BY SeekToIs DEF IterInv, SeekFinds
<1>2. TrueHasKey
  BY DEF IterInv
<1>3. iter.keys \in Seq(Prefix) /\ Prefix \subseteq IterKeys /\ iter.index \in -2 .. Len(iter.keys) + 1
  BY IteratorAssumption DEF IterInv, IsIterator
<1>4. \A n \in 0 .. Len(iter.keys) : VisitedKeys(iter, n) \subseteq Prefix
  BY <1>3 DEF VisitedKeys
<1>5. ToSet(iter.keys) \subseteq Prefix
  BY <1>3 DEF ToSet
<1>6. DOMAIN collected \subseteq IterKeys
  BY <1>3, <1>4, <1>5 DEF IterInv, HelperStates
<1>7. IterTypeOK
  <2>1. iter.keys \in Seq(IterKeys)
    BY <1>3
  <2> QED BY <1>3, <1>6, <2>1 DEF IterInv, IterTypeOK, HelperStates
<1>8. HelpersUndisturbed
  <2>1. ASSUME helper = "saved", NEW k \in Prefix \ touched
        PROVE  (k \in Present <=> k \in DOMAIN collected) /\ (k \in Present => collected[k] = source[k])
    BY <2>1 DEF IterInv, IteratedNow, CollectedNow
  <2>2. ASSUME helper = "saved", NEW k \in DOMAIN collected, collected[k] = Empty PROVE k \in touched
    BY <2>2 DEF IterInv, CollectedNow
  <2>3. helper = "deleted" => \A k \in Prefix \ touched : source[k] = Missing
    BY DEF IterInv
  <2> QED BY <2>1, <2>2, <2>3 DEF HelpersUndisturbed
<1> QED BY <1>1, <1>2, <1>7, <1>8

\* What the invariant says of a helper that runs.
LEMMA IterNow ==
  ASSUME IterInv
  PROVE  /\ source \in [IterKeys -> SourceValues \cup {Missing}] /\ IsIterator(iter)
         /\ helper \in HelperStates /\ touched \subseteq IterKeys /\ answer \in BOOLEAN /\ strayed \in BOOLEAN
         /\ Len(iter.keys) \in Nat /\ iter.index \in Int /\ iter.keys \in Seq(Prefix) /\ DOMAIN iter.keys = 1 .. Len(iter.keys)
         /\ \A i \in 1 .. Len(iter.keys) : iter.keys[i] \in Prefix
         /\ Prefix \subseteq IterKeys /\ Missing \notin SourceValues /\ Empty \notin SourceValues
  BY IteratorAssumption DEF IterInv, IsIterator

LEMMA WriteSourceOK ==
  ASSUME IterInv, NEW k \in IterKeys, NEW v \in SourceValues \cup {Missing}, WriteSource(k, v)
  PROVE  IterInv'
<1>1. /\ helper \notin {"saved", "deleted"} /\ source' = [source EXCEPT ![k] = v]
      /\ touched' = IF helper = "none" THEN touched ELSE touched \cup {k}
      /\ UNCHANGED <<iter, helper, collected, answer, strayed>>
  BY DEF WriteSource
<1>2. /\ source \in [IterKeys -> SourceValues \cup {Missing}] /\ touched \subseteq IterKeys
      /\ helper \in HelperStates
  BY IterNow
<1>3. source' \in [IterKeys -> SourceValues \cup {Missing}] /\ touched' \subseteq IterKeys
  BY <1>1, <1>2
<1>4. ASSUME helper # "none" PROVE touched' = touched \cup {k} /\ \A j \in IterKeys \ touched' : source'[j] = source[j]
  BY <1>1, <1>2, <1>4
<1>5. ASSUME helper \in {"browse", "backup", "delete"} PROVE IteratedNow'
  <2>1. IteratedNow /\ helper # "none"
    BY <1>5 DEF IterInv
  <2>2. ASSUME NEW j \in Prefix \ touched' PROVE j \in Present' <=> j \in ToSet(iter.keys')
    <3>1. j \in Prefix \ touched /\ j \in IterKeys /\ source'[j] = source[j] /\ iter' = iter
      BY <1>1, <1>4, <2>1, <2>2, IterNow
    <3>2. j \in Present' <=> j \in Present
      BY <3>1 DEF Present
    <3> QED BY <2>1, <3>1, <3>2 DEF IteratedNow
  <2> QED BY <2>2 DEF IteratedNow, ToSet
<1>6. ASSUME helper = "backup" PROVE CollectedNow'
  <2>1. CollectedNow /\ DOMAIN collected \subseteq IterKeys
    BY <1>6, IterInvSound DEF IterInv, IterTypeOK
  <2> QED BY <1>1, <1>4, <1>6, <2>1 DEF CollectedNow
<1>7. TrueHasKey'
  BY <1>1 DEF IterInv, TrueHasKey, Valid
<1>8. IsIterator(iter)' /\ (~ strayed' => iter'.index \in -1 .. Len(iter'.keys))
  BY <1>1 DEF IterInv, IsIterator, IsAscending
<1>9. helper' \in HelperStates /\ answer' \in BOOLEAN /\ strayed' \in BOOLEAN
  BY <1>1, IterNow
<1>10. helper' = "none" => ~ answer' /\ ~ strayed' /\ touched' = {}
  BY <1>1 DEF IterInv
<1>11. /\ helper' \in {"none", "browse"} => DOMAIN collected' = {}
       /\ helper' \in {"backup", "delete"} =>
            /\ iter'.index + 1 \in 0 .. Len(iter'.keys) /\ ~ strayed'
            /\ DOMAIN collected' = VisitedKeys(iter, iter.index + 1)'
  BY <1>1 DEF IterInv, VisitedKeys
<1>12. helper' \notin {"saved", "deleted"} /\ helper' = helper
  BY <1>1
<1> QED BY <1>3, <1>5, <1>6, <1>7, <1>8, <1>9, <1>10, <1>11, <1>12 DEF IterInv, HelperStates

LEMMA BeginOK ==
  ASSUME IterInv, NEW h \in {"browse", "backup", "delete"}, Begin(h)
  PROVE  IterInv'
<1>1. /\ helper = "none" /\ helper' = h /\ iter' = NewIterator(Present \cap Prefix)
      /\ UNCHANGED <<source, collected, answer, touched, strayed>>
  BY DEF Begin
<1>2. /\ ~ answer /\ ~ strayed /\ touched = {} /\ DOMAIN collected = {}
  BY <1>1 DEF IterInv
<1>3. IsIterator(iter') /\ iter'.index = -1 /\ ToSet(iter'.keys) = Present \cap Prefix
  BY <1>1, NewIteratorIs
<1>4. IsIterator(iter)' /\ Len(iter'.keys) \in Nat
  BY <1>3 DEF IsIterator, IsAscending
<1>5. /\ iter'.index \in -1 .. Len(iter'.keys) /\ iter'.index + 1 = 0 /\ iter'.index + 1 \in 0 .. Len(iter'.keys)
  BY <1>3, <1>4
<1>6. IteratedNow'
  BY <1>1, <1>3 DEF IteratedNow, Present, ToSet
<1>7. VisitedKeys(iter, iter.index + 1)' = {}
  BY <1>5 DEF VisitedKeys
<1>8. CollectedNow' /\ TrueHasKey'
  BY <1>1, <1>2 DEF CollectedNow, TrueHasKey
<1>9. /\ source' \in [IterKeys -> SourceValues \cup {Missing}] /\ touched' \subseteq IterKeys
      /\ helper' \in HelperStates /\ answer' \in BOOLEAN /\ strayed' \in BOOLEAN
  BY <1>1, IterNow DEF HelperStates
<1> QED BY <1>1, <1>2, <1>4, <1>5, <1>6, <1>7, <1>8, <1>9 DEF IterInv

\* What a move of the caller has to show.
LEMMA BrowsedOK ==
  ASSUME IterInv, helper = "browse", UNCHANGED <<source, helper, collected, touched>>,
         IsIterator(iter'), iter'.keys = iter.keys, answer' \in BOOLEAN, strayed' \in BOOLEAN,
         ~ strayed' => iter'.index \in -1 .. Len(iter.keys),
         answer' /\ ~ strayed' => iter'.index \in 0 .. Len(iter.keys) - 1
  PROVE  IterInv'
<1>1. IsIterator(iter)'
  BY DEF IsIterator, IsAscending
<1>2. TrueHasKey'
  BY DEF TrueHasKey, Valid
<1>3. IteratedNow'
  <2>1. IteratedNow
    BY DEF IterInv
  <2> QED BY <2>1 DEF IteratedNow, Present
<1>4. /\ source' \in [IterKeys -> SourceValues \cup {Missing}] /\ touched' \subseteq IterKeys
      /\ helper' = "browse" /\ DOMAIN collected' = {}
  BY DEF IterInv
<1> QED BY <1>1, <1>2, <1>3, <1>4 DEF IterInv, HelperStates

LEMMA BrowseOK ==
  ASSUME IterInv, Browse
  PROVE  IterInv'
<1>1. helper = "browse" /\ UNCHANGED <<source, helper, collected, touched>>
  BY DEF Browse
<1>2. /\ IsIterator(iter) /\ Len(iter.keys) \in Nat /\ iter.index \in Int /\ strayed \in BOOLEAN
      /\ iter.index \in -2 .. Len(iter.keys) + 1
  BY IterNow DEF IsIterator
<1>3. ~ strayed => iter.index \in -1 .. Len(iter.keys)
  BY DEF IterInv
<1> DEFINE n == Len(iter.keys)
           x == iter.index
<1>4. CASE /\ iter.index <= Len(iter.keys) /\ iter' = Moved(iter, 1) /\ answer' = NextAnswers(iter)
           /\ strayed' = (strayed \/ iter.index = Len(iter.keys))
  <2>1. x + 1 \in -2 .. n + 1
    BY <1>2, <1>4
  <2>2. IsIterator(iter') /\ iter'.keys = iter.keys /\ iter'.index = x + 1
    BY <1>2, <1>4, <2>1, MovedIs
  <2>3. answer' \in BOOLEAN /\ strayed' \in BOOLEAN /\ (answer' <=> x + 1 < n)
    <3>1. answer' = (x + 1 < n)
      BY <1>4 DEF NextAnswers
    <3>2. strayed' = (strayed \/ iter.index = Len(iter.keys))
      BY <1>4
    <3>5. (x + 1 < n) \in BOOLEAN
      OBVIOUS
    <3>6. answer' \in BOOLEAN
      BY <3>1, <3>5
    <3>7. answer' <=> x + 1 < n
      BY <3>1
    <3>3. answer' \in BOOLEAN /\ (answer' <=> x + 1 < n)
      BY <3>6, <3>7
    <3>4. strayed' \in BOOLEAN
      BY <3>2, Zenon
    <3> QED BY <3>3, <3>4
  <2>4. ~ strayed' => ~ strayed /\ x # n
    BY <1>2, <1>4
  <2>5. ~ strayed' => x + 1 \in -1 .. n
    BY <1>2, <1>3, <2>4
  <2>6. answer' /\ ~ strayed' => x + 1 \in 0 .. n - 1
    BY <1>2, <1>3, <2>3, <2>4
  <2> QED BY <1>1, <2>2, <2>3, <2>5, <2>6, BrowsedOK
<1>5. CASE /\ iter.index >= -1 /\ iter' = Moved(iter, -1) /\ answer' = PrevAnswers(iter)
           /\ strayed' = (strayed \/ iter.index = -1)
  <2>1. x - 1 \in -2 .. n + 1 /\ x + (-1) = x - 1
    BY <1>2, <1>5
  <2>2. IsIterator(iter') /\ iter'.keys = iter.keys /\ iter'.index = x - 1
    BY <1>2, <1>5, <2>1, MovedIs
  <2>3. answer' \in BOOLEAN /\ strayed' \in BOOLEAN /\ (answer' <=> x - 1 >= 0)
    <3>1. answer' = (x - 1 >= 0)
      BY <1>5 DEF PrevAnswers
    <3>2. strayed' = (strayed \/ iter.index = -1)
      BY <1>5
    <3>5. (x - 1 >= 0) \in BOOLEAN
      OBVIOUS
    <3>6. answer' \in BOOLEAN
      BY <3>1, <3>5
    <3>7. answer' <=> x - 1 >= 0
      BY <3>1
    <3>3. answer' \in BOOLEAN /\ (answer' <=> x - 1 >= 0)
      BY <3>6, <3>7
    <3>4. strayed' \in BOOLEAN
      BY <3>2, Zenon
    <3> QED BY <3>3, <3>4
  <2>4. ~ strayed' => ~ strayed /\ x # -1
    BY <1>2, <1>5
  <2>5. ~ strayed' => x - 1 \in -1 .. n
    BY <1>2, <1>3, <2>4
  <2>6. answer' /\ ~ strayed' => x - 1 \in 0 .. n - 1
    BY <1>2, <1>3, <2>3, <2>4
  <2> QED BY <1>1, <2>2, <2>3, <2>5, <2>6, BrowsedOK
<1>6. ASSUME NEW k \in IterKeys, iter' = SeekTo(iter, k), strayed' = FALSE,
             answer' = NextAnswers([iter EXCEPT !.index = lowerBound(iter.keys, k) - 1])
      PROVE  IterInv'
  <2>1. /\ IsIterator(iter') /\ iter'.keys = iter.keys /\ iter'.index \in 0 .. n
        /\ NextAnswers([iter EXCEPT !.index = lowerBound(iter.keys, k) - 1]) <=> iter'.index < n
    BY <1>2, <1>6, SeekToIs
  <2>2. answer' \in BOOLEAN
    BY <1>6 DEF NextAnswers
  <2>3. answer' => iter'.index \in 0 .. n - 1
    BY <1>2, <1>6, <2>1
  <2>4. iter'.index \in -1 .. n
    BY <1>2, <2>1
  <2> QED BY <1>1, <1>6, <2>1, <2>2, <2>3, <2>4, BrowsedOK
<1> QED BY <1>4, <1>5, <1>6 DEF Browse

LEMMA VisitOK ==
  ASSUME IterInv, Visit
  PROVE  IterInv'
<1> DEFINE n == Len(iter.keys)
           x == iter.index
           k == iter.keys[x + 2]
<1>1. helper \in {"backup", "delete"} /\ NextAnswers(iter) /\ iter' = Moved(iter, 1) /\ UNCHANGED <<source, helper, answer, touched, strayed>>
  BY DEF Visit
<1>2. /\ IsIterator(iter) /\ n \in Nat /\ x \in Int /\ x + 1 \in 0 .. n /\ ~ strayed
      /\ DOMAIN collected = VisitedKeys(iter, x + 1)
  BY <1>1, IterNow DEF IterInv
<1>3. x + 1 < n
  BY <1>1 DEF NextAnswers
<1>4. x + 1 \in -2 .. n + 1 /\ x + 2 \in 1 .. n /\ (x + 1) + 1 = x + 2 /\ x + 2 \in 0 .. n /\ x + 1 \in -1 .. n
  BY <1>2, <1>3
<1>5. IsIterator(iter') /\ iter'.keys = iter.keys /\ iter'.index = x + 1
  BY <1>1, <1>2, <1>4, MovedIs
<1>6. Key(iter') = k /\ k \in Prefix /\ k \in IterKeys /\ k \in ToSet(iter.keys)
  BY <1>4, <1>5, IterNow DEF Key, ToSet
<1>7. /\ DOMAIN collected' = DOMAIN collected \cup {k}
      /\ \A j \in DOMAIN collected : j # k => collected'[j] = collected[j]
      /\ helper = "backup" => collected'[k] = ValueAt(k)
  <2>1. collected' = [y \in DOMAIN collected \cup {Key(iter')} |->
                CASE y # Key(iter')                     -> collected[y]
                  [] y = Key(iter') /\ helper = "backup" -> ValueAt(Key(iter'))
                  [] y = Key(iter') /\ helper = "delete" -> Missing]
    BY DEF Visit
  <2> HIDE DEF k
  <2>2. collected' = [y \in DOMAIN collected \cup {k} |->
                CASE y # k                     -> collected[y]
                  [] y = k /\ helper = "backup" -> ValueAt(k)
                  [] y = k /\ helper = "delete" -> Missing]
    BY <1>6, <2>1
  <2> QED BY <1>1, <2>2
<1>8. VisitedKeys(iter, x + 2) = VisitedKeys(iter, x + 1) \cup {k}
  <2>1. \A i \in 1 .. (x + 2) : i \in 1 .. (x + 1) \/ i = x + 2
    BY <1>4, <1>2
  <2>2. \A i \in 1 .. (x + 1) : i \in 1 .. (x + 2)
    BY <1>2
  <2>3. x + 2 \in 1 .. (x + 2)
    BY <1>4
  <2> QED BY <2>1, <2>2, <2>3 DEF VisitedKeys
<1>9. VisitedKeys(iter, iter.index + 1)' = VisitedKeys(iter, x + 2)
  BY <1>4, <1>5 DEF VisitedKeys
<1>10. DOMAIN collected' = VisitedKeys(iter, iter.index + 1)' /\ iter'.index + 1 \in 0 .. Len(iter'.keys)
  BY <1>2, <1>4, <1>5, <1>7, <1>8, <1>9
<1>11. IteratedNow /\ IteratedNow'
  <2>1. IteratedNow
    BY <1>1 DEF IterInv
  <2> QED BY <1>1, <1>5, <2>1 DEF IteratedNow, Present
<1>12. ASSUME helper = "backup" PROVE CollectedNow'
  <2>1. CollectedNow
    BY <1>12 DEF IterInv
  <2>2. k \notin touched => k \in Present
    BY <1>6, <1>11 DEF IteratedNow
  <2>3. k \notin touched => collected'[k] = source[k] /\ source[k] \in SourceValues
    BY <1>6, <1>7, <1>12, <2>2, IterNow DEF ValueAt, Present
  <2>4. collected'[k] = Empty => k \in touched
    BY <2>3, IterNow
  <2> QED BY <1>1, <1>7, <2>1, <2>3, <2>4 DEF CollectedNow
<1>13. IsIterator(iter)' /\ TrueHasKey'
  BY <1>1, <1>5 DEF IsIterator, IsAscending, TrueHasKey
<1>14. /\ source' \in [IterKeys -> SourceValues \cup {Missing}] /\ touched' \subseteq IterKeys
       /\ helper' \in {"backup", "delete"} /\ answer' \in BOOLEAN /\ strayed' \in BOOLEAN /\ ~ strayed' /\ helper' = helper
  BY <1>1, <1>2, IterNow
<1>15. iter'.index \in -1 .. Len(iter'.keys)
  BY <1>4, <1>5
<1> QED BY <1>10, <1>11, <1>12, <1>13, <1>14, <1>15 DEF IterInv, HelperStates

LEMMA EndLoopOK ==
  ASSUME IterInv, EndLoop
  PROVE  IterInv'
<1> DEFINE n == Len(iter.keys)
           x == iter.index
<1>1. /\ helper \in {"backup", "delete"} /\ ~ NextAnswers(iter) /\ iter' = Moved(iter, 1)
      /\ helper' = IF helper = "backup" THEN "saved" ELSE "deleted"
      /\ UNCHANGED <<collected, answer, touched, strayed>>
      /\ source' = IF helper = "backup" THEN source
                   ELSE [k \in IterKeys |-> IF k \in DOMAIN collected THEN Missing ELSE source[k]]
  BY DEF EndLoop
<1>2. /\ IsIterator(iter) /\ n \in Nat /\ x \in Int /\ x + 1 \in 0 .. n /\ ~ strayed
      /\ DOMAIN collected = VisitedKeys(iter, x + 1) /\ IteratedNow
  BY <1>1, IterNow DEF IterInv
<1>3. x + 1 = n
  BY <1>1, <1>2 DEF NextAnswers
<1>4. DOMAIN collected = ToSet(iter.keys) /\ DOMAIN collected \subseteq Prefix
  <2>1. DOMAIN iter.keys = 1 .. n /\ \A i \in 1 .. n : iter.keys[i] \in Prefix
    BY IterNow
  <2> QED BY <1>2, <1>3, <2>1 DEF VisitedKeys, ToSet
<1>5. x + 1 \in -2 .. n + 1 /\ x + 1 \in -1 .. n
  BY <1>2
<1>6. IsIterator(iter') /\ iter'.keys = iter.keys /\ iter'.index = x + 1
  BY <1>1, <1>2, <1>5, MovedIs
<1>7. IsIterator(iter)' /\ TrueHasKey' /\ iter'.index \in -1 .. Len(iter'.keys)
  BY <1>1, <1>5, <1>6 DEF IsIterator, IsAscending, TrueHasKey
<1>8. touched' \subseteq IterKeys /\ answer' \in BOOLEAN /\ strayed' \in BOOLEAN
  BY <1>1, IterNow
<1>9. CASE helper = "backup"
  <2>1. source' = source /\ helper' = "saved"
    BY <1>1, <1>9
  <2>2. IteratedNow' /\ CollectedNow'
    <3>1. CollectedNow
      BY <1>9 DEF IterInv
    <3> QED BY <1>1, <1>2, <1>6, <2>1, <3>1 DEF IteratedNow, CollectedNow, Present, ToSet
  <2>3. DOMAIN collected' = ToSet(iter'.keys)
    BY <1>1, <1>4, <1>6
  <2>4. source' \in [IterKeys -> SourceValues \cup {Missing}]
    BY <2>1, IterNow
  <2>5. DOMAIN collected' = ToSet(iter.keys)'
    BY <2>3 DEF ToSet
  <2> QED BY <1>7, <1>8, <2>1, <2>2, <2>4, <2>5 DEF IterInv, HelperStates
<1>10. CASE helper = "delete"
  <2>1. helper' = "deleted" /\ source' = [k \in IterKeys |-> IF k \in DOMAIN collected THEN Missing ELSE source[k]]
    BY <1>1, <1>10
  <2>2. source' \in [IterKeys -> SourceValues \cup {Missing}]
    BY <2>1, IterNow
  <2>3. ASSUME NEW k \in Prefix \ touched' PROVE source'[k] = Missing
    <3>1. k \in IterKeys /\ k \in Prefix \ touched
      BY <1>1, IterNow
    <3>2. k \in Present <=> k \in DOMAIN collected
      BY <1>2, <1>4, <3>1 DEF IteratedNow
    <3> QED BY <2>1, <3>1, <3>2 DEF Present
  <2>4. DOMAIN collected' \subseteq Prefix
    BY <1>1, <1>4
  <2> QED BY <1>7, <1>8, <2>1, <2>2, <2>3, <2>4 DEF IterInv, HelperStates
<1> QED BY <1>1, <1>9, <1>10

LEMMA IterNextOK == IterInv /\ [IterNext]_iterVars => IterInv'
<1> SUFFICES ASSUME IterInv, [IterNext]_iterVars PROVE IterInv'
  OBVIOUS
<1>1. CASE UNCHANGED iterVars
  BY <1>1 DEF iterVars, IterInv, IsIterator, IsAscending, IteratedNow, CollectedNow, TrueHasKey, Valid,
              VisitedKeys, Present, ToSet, HelperStates
<1> QED BY <1>1, WriteSourceOK, BeginOK, BrowseOK, VisitOK, EndLoopOK DEF IterNext

\* Seek's binary search finds the first key that is not smaller; Next and Prev
\* answer TRUE only at a key; a backup and DeletePrefix do to the keys that
\* nobody else touched meanwhile what they promise, although the copy of the
\* keys they loop over is stale as soon as it is made; and a batch that
\* forgets the order of its operations, that was flushed early or written in
\* part and again, leaves the store its caller meant (filedb.go, utils.go).
THEOREM HelpersSoundCorrect == IterSpec /\ BuilderSpec => []HelpersSound
<1>1. IterInv /\ BuilderInv => HelpersSound
  BY IterInvSound, BuilderInvSound DEF HelpersSound
<1> QED BY <1>1, IterInitOK, IterNextOK, BuilderInitOK, BuilderNextOK, PTL DEF IterSpec, BuilderSpec

=============================================================================

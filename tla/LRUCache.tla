------------------------------ MODULE LRUCache ------------------------------
(***************************************************************************)
(* pkg/db/cache.go: the LRU cache in front of a store.                     *)
(*                                                                         *)
(* A cache is a record of its limit, its items and the list of its keys,   *)
(* least recently used first.  The operators are the methods: Database     *)
(* uses them for its own cache, and the state machine below calls them in  *)
(* any order on one cache, with a clock for the entries that expire.       *)
(***************************************************************************)
EXTENDS Integers, FiniteSets, SequencesExt

CONSTANTS
    CacheKeys,     \* the keys of the state machine's cache
    Sizes,         \* the limits a cache may be made with
    TTLs,          \* the times to live given to SetWithExpiry
    NoExpiry,      \* the zero time
    CacheMaxTime   \* bound on the clock

ASSUME CacheAssumption ==
    Sizes \subseteq Nat /\ TTLs \subseteq Nat /\ NoExpiry \notin Int /\ CacheMaxTime \in Nat

NewLRUCache(maxSize) == [maxSize |-> maxSize, items |-> <<>>, lru |-> <<>>]

Cached(c) == DOMAIN c.items

removeItem(c, k) ==
    [maxSize |-> c.maxSize, items |-> Restrict(c.items, Cached(c) \ {k}), lru |-> RemoveFirst(c.lru, k)]

\* Mutant: the key is appended and its old place is kept.
updateLRUAppend(c, k) == [c EXCEPT !.lru = Append(@, k)]

\* The key moves to the end of the list, where it is listed.
updateLRU(c, k) ==
    IF Contains(c.lru, k) THEN [c EXCEPT !.lru = Append(RemoveFirst(c.lru, k), k)] ELSE c

Expired(c, k, now) == c.items[k].expiry # NoExpiry /\ now > c.items[k].expiry

Hit(c, k, now) == k \in Cached(c) /\ ~ Expired(c, k, now)

\* Get drops an expired item and moves one it returns to the end.
CacheGet(c, k, now) ==
    CASE Hit(c, k, now)                    -> updateLRU(c, k)
      [] k \in Cached(c) /\ ~ Hit(c, k, now) -> removeItem(c, k)
      [] OTHER                             -> c

Evicted(c) ==
    IF Cardinality(Cached(c)) >= c.maxSize /\ c.lru # <<>> THEN removeItem(c, Head(c.lru)) ELSE c

\* A new key makes room first and goes to the end.
Added(c, k, item) ==
    LET old == Evicted(c)
    IN  [maxSize |-> c.maxSize,
         items   |-> [x \in Cached(old) \cup {k} |-> IF x = k THEN item ELSE old.items[x]],
         lru     |-> Append(old.lru, k)]

\* The item of a cached key is replaced in the map.
Replaced(c, k, item) == [c EXCEPT !.items = [c.items EXCEPT ![k] = item]]

\* Set on a key that is there changes the value alone: an expiry stays.
CacheSet(c, k, v) ==
    IF k \in Cached(c) THEN updateLRU(Replaced(c, k, [value |-> v, expiry |-> c.items[k].expiry]), k)
                       ELSE Added(c, k, [value |-> v, expiry |-> NoExpiry])

SetWithExpiry(c, k, v, until) ==
    LET item == [value |-> v, expiry |-> until]
    IN  IF k \in Cached(c) THEN updateLRU(Replaced(c, k, item), k) ELSE Added(c, k, item)

CacheDelete(c, k) == removeItem(c, k)

\* Mutant: only the list is emptied.
CacheClearList(c) == [c EXCEPT !.lru = <<>>]

CacheClear(c) == NewLRUCache(c.maxSize)

-----------------------------------------------------------------------------

VARIABLES
    lruCache,   \* the cache
    cacheNow,   \* the clock
    recency     \* history: the keys set or returned so far, the latest last

cacheVars == <<lruCache, cacheNow, recency>>

CacheInit ==
    /\ \E size \in Sizes : lruCache = NewLRUCache(size)
    /\ cacheNow = 0
    /\ recency = <<>>

Used(k) == recency' = Append(RemoveFirst(recency, k), k)

CacheStep ==
    /\ \/ \E k \in CacheKeys : \/ lruCache' = CacheSet(lruCache, k, 0) /\ Used(k)
                               \/ \E ttl \in TTLs :
                                    /\ lruCache' = SetWithExpiry(lruCache, k, 0, cacheNow + ttl)
                                    /\ Used(k)
       \/ \E k \in CacheKeys : /\ lruCache' = CacheGet(lruCache, k, cacheNow)
                               /\ IF Hit(lruCache, k, cacheNow) THEN Used(k) ELSE UNCHANGED recency
       \/ \E k \in CacheKeys : lruCache' = CacheDelete(lruCache, k) /\ UNCHANGED recency
       \/ lruCache' = CacheClear(lruCache) /\ UNCHANGED recency
    /\ UNCHANGED cacheNow

CacheTick ==
    /\ cacheNow < CacheMaxTime
    /\ cacheNow' = cacheNow + 1
    /\ UNCHANGED <<lruCache, recency>>

CacheNext == CacheStep \/ CacheTick

CacheSpec == CacheInit /\ [][CacheNext]_cacheVars

CacheTypeOK ==
    /\ lruCache.maxSize \in Sizes
    /\ Cached(lruCache) \subseteq CacheKeys
    /\ lruCache.lru \in Seq(CacheKeys)
    /\ cacheNow \in 0 .. CacheMaxTime

\* Key k is listed before key l.
Before(list, k, l) == \E i, j \in DOMAIN list : i < j /\ list[i] = k /\ list[j] = l

\* The list of the cache (cache.go:156-175) names the cached keys, each once
\* and in the order of their last use, so that what Set evicts is the key
\* unused for longest; and the cache never holds more than its limit, one
\* entry when the limit is 0 (cache.go:77).  The map and the list are updated
\* by different code on every path.
LRUConsistent ==
    /\ IsInjective(lruCache.lru)
    /\ Cached(lruCache) = ToSet(lruCache.lru)
    /\ \A k, l \in Cached(lruCache) : Before(lruCache.lru, k, l) => Before(recency, k, l)
    /\ Cardinality(Cached(lruCache)) <= Max({1, lruCache.maxSize})

=============================================================================

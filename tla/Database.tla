------------------------------ MODULE Database ------------------------------
(***************************************************************************)
(* pkg/db: FileDB, a map in memory with one file per key, behind the cache *)
(* of CachedDatabase, with failing file operations, crashes and restarts.  *)
(*                                                                         *)
(* An operation holds the locks of both from end to end, so it is one      *)
(* action whose outcome is chosen: what it did to each file before it      *)
(* returned, failed or was cut off by a crash.  getFilePath folds a key    *)
(* into four bytes: File says which keys share a file.                     *)
(***************************************************************************)
EXTENDS LRUCache

CONSTANTS
    DBKeys,        \* the keys
    DBValues,      \* their values
    Files,         \* the paths
    File,          \* File[k]: the path of a key
    Entries,       \* the pairs [key, value] the callers write
    Batches,       \* the batches [puts, dels] they write, keys apart
    DBCacheSize,   \* the size of the cache
    NoFile, Torn,  \* a path without a file; a file that cannot be read back
    Absent,        \* a key without a value
    InDoubt,       \* a key nothing is promised about
    MaxFaults      \* bound on crashes and failing file operations

ASSUME DBAssumption ==
    /\ File \in [DBKeys -> Files]
    /\ Entries \subseteq [key : DBKeys, value : DBValues]
    /\ \A b \in Batches :
        /\ IsFiniteSet(DOMAIN b.puts) /\ DOMAIN b.puts \subseteq DBKeys
        /\ \A k \in DOMAIN b.puts : b.puts[k] \in DBValues
        /\ b.dels \subseteq DBKeys \ DOMAIN b.puts
    /\ Absent \notin DBValues /\ InDoubt \notin DBValues /\ Absent # InDoubt
    /\ {NoFile, Torn} \cap [key : DBKeys, value : DBValues] = {} /\ NoFile # Torn
    /\ DBCacheSize \in Nat /\ MaxFaults \in Nat

VARIABLES
    data,       \* FileDB.data: the value of a key, or Absent
    disk,       \* the files
    dbState,    \* "open", "closed", "down" (crashed or not opened)
    dbCache,    \* CachedDatabase.cache
    promised,   \* history: what the last answered operation promised of a key
    tainted,    \* history: keys changed in the store and not in the cache
    faults      \* crashes and failed file operations so far

dbVars == <<data, disk, dbState, dbCache, promised, tainted, faults>>

NoData == [k \in DBKeys |-> Absent]

DBInit ==
    /\ data = NoData
    /\ disk = [f \in Files |-> NoFile]
    /\ dbState = "open"
    /\ dbCache = NewLRUCache(DBCacheSize)
    /\ promised = [k \in DBKeys |-> Absent]
    /\ tainted = {}
    /\ faults = 0

\* What writeFile leaves: the entry, or after an error or a crash the old
\* file (it could not be created) or a torn one (it could not be written).
FileOutcomes == {"done", "unopened", "torn"}

writeFile(files, k, v, outcome) ==
    CASE outcome = "done"     -> [files EXCEPT ![File[k]] = [key |-> k, value |-> v]]
      [] outcome = "unopened" -> files
      [] outcome = "torn"     -> [files EXCEPT ![File[k]] = Torn]

Neighbours(keys) == {k \in DBKeys \ keys : \E other \in keys : File[k] = File[other]}

\* History: an operation on keys ends with promise for them, and takes the
\* promise of a value away from those whose file it may have replaced.
Promise(keys, promise) ==
    promised' = [k \in DBKeys |->
        CASE k \in keys                                       -> promise[k]
          [] k \in Neighbours(keys) /\ promised[k] # Absent   -> InDoubt
          [] OTHER                                            -> promised[k]]

DoubtAll(keys) == Promise(keys, [k \in keys |-> InDoubt])

Answered(keys) == faults' = faults /\ dbState' = dbState /\ tainted' = tainted \ keys

PromiseOne(k, promise) == Promise({k}, [x \in {k} |-> promise])

\* A failed operation returns early: the cache keeps what it had.
Failed(keys) ==
    /\ faults < MaxFaults
    /\ faults' = faults + 1
    /\ tainted' = tainted \cup keys
    /\ DoubtAll(keys)
    /\ UNCHANGED <<dbState, dbCache>>

\* A crash in the middle of an operation: the memory is gone.
Crashed(keys) ==
    /\ faults < MaxFaults
    /\ faults' = faults + 1
    /\ dbState' = "down"
    /\ data' = NoData
    /\ dbCache' = NewLRUCache(DBCacheSize)
    /\ tainted' = {}
    /\ DoubtAll(keys)

\* CachedDatabase.Put: the store's map, its file, then the cache.
Put(k, v) ==
    /\ dbState = "open"
    /\ \E outcome \in FileOutcomes :
        /\ disk' = writeFile(disk, k, v, outcome)
        /\ \/ /\ outcome = "done"
              /\ data' = [data EXCEPT ![k] = v]
              /\ dbCache' = CacheSet(dbCache, k, v)
              /\ Answered({k})
              /\ PromiseOne(k, v)
           \/ outcome # "done" /\ data' = [data EXCEPT ![k] = v] /\ Failed({k})
           \/ Crashed({k})

\* Get fills the cache from the store, and fails for a key it does not have.
Get(k) ==
    /\ dbState = "open"
    /\ dbCache' = IF Hit(dbCache, k, 0) THEN CacheGet(dbCache, k, 0)
                  ELSE IF data[k] # Absent THEN CacheSet(dbCache, k, data[k]) ELSE dbCache
    /\ tainted' = IF Hit(dbCache, k, 0) THEN tainted ELSE tainted \ {k}
    /\ UNCHANGED <<data, disk, dbState, promised, faults>>

Without(k) == [data EXCEPT ![k] = Absent]

\* Mutant: the file of a deleted key is left behind.
DeleteKeepingFile(k) ==
    /\ dbState = "open"
    /\ data' = Without(k)
    /\ dbCache' = CacheDelete(dbCache, k)
    /\ Answered({k}) /\ PromiseOne(k, Absent)
    /\ UNCHANGED disk

\* CachedDatabase.Delete: os.Remove fails where there is no file, and then
\* the cache keeps the key.
Delete(k) ==
    /\ dbState = "open"
    /\ \/ /\ disk[File[k]] # NoFile
          /\ disk' = [disk EXCEPT ![File[k]] = NoFile]
          /\ data' = Without(k)
          /\ dbCache' = CacheDelete(dbCache, k)
          /\ Answered({k}) /\ PromiseOne(k, Absent)
       \/ /\ disk[File[k]] = NoFile
          /\ data' = Without(k)
          /\ tainted' = tainted \cup {k}
          /\ promised' = [promised EXCEPT ![k] = Absent]
          /\ UNCHANGED <<disk, dbState, dbCache, faults>>
       \/ data' = Without(k) /\ UNCHANGED disk /\ Failed({k})
       \/ /\ \E f \in {disk[File[k]], NoFile} : disk' = [disk EXCEPT ![File[k]] = f]
          /\ Crashed({k})

Removed(files, keys) ==
    [f \in Files |-> IF \E k \in keys : File[k] = f THEN NoFile ELSE files[f]]

\* The files after the removal of gone and the first n puts, in the order of a
\* map: any order.  Only the last one can have failed or been cut off.
WrittenFiles(b, gone, order, n, outcome) ==
    FoldLeft(LAMBDA files, i : writeFile(files, order[i], b.puts[order[i]],
                                         IF i = n THEN outcome ELSE "done"),
             Removed(disk, gone), [i \in 1 .. n |-> i])

WrittenData(b, order, n) ==
    [k \in DBKeys |-> CASE \E i \in 1 .. n : order[i] = k -> b.puts[k]
                       [] k \in b.dels                     -> Absent
                       [] OTHER                            -> data[k]]

BatchKeys(b) == DOMAIN b.puts \cup b.dels

\* Nothing is promised of a key whose removal failed unnoticed, or that shares
\* its file with another one of the batch.
BatchPromise(b, gone) == [k \in BatchKeys(b) |->
    CASE k \in b.dels \ gone \/ Neighbours({k}) \cap BatchKeys(b) # {} -> InDoubt
      [] k \in gone /\ Neighbours({k}) \cap BatchKeys(b) = {}          -> Absent
      [] k \in DOMAIN b.puts /\ Neighbours({k}) \cap BatchKeys(b) = {} -> b.puts[k]]

\* FileDB.Write: the deletions, whose errors are ignored, then the puts, which
\* end with the first error.  A batch reaches it through CachedDatabase.Write,
\* which clears the cache when it succeeds, or by its own Write, which knows of
\* no cache.  An operation meets at most one fault.
Write(b, throughCache) ==
    /\ dbState = "open"
    /\ \E gone \in SUBSET b.dels, order \in SetToSeqs(DOMAIN b.puts),
          n \in 0 .. Cardinality(DOMAIN b.puts), outcome \in FileOutcomes :
        /\ disk' = WrittenFiles(b, gone, order, n, outcome)
        /\ \/ /\ n = Len(order) /\ outcome = "done"
              /\ data' = WrittenData(b, order, n)
              /\ dbCache' = IF throughCache THEN CacheClear(dbCache) ELSE dbCache
              /\ tainted' = IF throughCache THEN {} ELSE tainted \cup BatchKeys(b)
              /\ Promise(BatchKeys(b), BatchPromise(b, gone))
              /\ \/ gone = b.dels /\ UNCHANGED faults
                 \/ gone # b.dels /\ faults < MaxFaults /\ faults' = faults + 1
              /\ UNCHANGED dbState
           \/ /\ gone = b.dels /\ n > 0 /\ outcome # "done"
              /\ data' = WrittenData(b, order, n)
              /\ Failed(BatchKeys(b))
           \/ /\ gone = b.dels \/ n = 0
              /\ Crashed(BatchKeys(b))

\* Compact removes the files of keys that are not in memory; it cannot tell
\* the key of a torn file and leaves it.
Compact ==
    /\ dbState = "open"
    /\ disk' = [f \in Files |->
            IF disk[f] \notin {NoFile, Torn} /\ data[disk[f].key] = Absent THEN NoFile ELSE disk[f]]
    /\ UNCHANGED <<data, dbState, dbCache, promised, tainted, faults>>

ClearCache ==
    /\ dbState = "open"
    /\ dbCache' = CacheClear(dbCache) /\ tainted' = {}
    /\ UNCHANGED <<data, disk, dbState, promised, faults>>

\* CachedDatabase.Close clears the cache; every later call of the store fails.
CloseDB ==
    /\ dbState = "open"
    /\ dbState' = "closed"
    /\ dbCache' = CacheClear(dbCache) /\ tainted' = {}
    /\ UNCHANGED <<data, disk, promised, faults>>

\* The process ends, between two operations.
Exit ==
    /\ dbState # "down"
    /\ dbState' = "down"
    /\ data' = NoData
    /\ dbCache' = NewLRUCache(DBCacheSize) /\ tainted' = {}
    /\ UNCHANGED <<disk, promised, faults>>

Loadable == \A f \in Files : disk[f] # Torn

EntriesOf(k) == {e \in {disk[f] : f \in Files} \ {NoFile, Torn} : e.key = k}

load == [k \in DBKeys |-> IF EntriesOf(k) = {} THEN Absent ELSE (CHOOSE e \in EntriesOf(k) : TRUE).value]

\* NewFileDB fails at the first file it cannot read, and nothing repairs one.
OpenDB ==
    /\ dbState = "down"
    /\ Loadable
    /\ data' = load
    /\ dbState' = "open"
    /\ UNCHANGED <<disk, dbCache, promised, tainted, faults>>

DBNext ==
    \/ \E e \in Entries : Put(e.key, e.value)
    \/ \E k \in DBKeys : Get(k) \/ Delete(k)
    \/ \E b \in Batches : Write(b, TRUE) \/ Write(b, FALSE)
    \/ Compact \/ ClearCache \/ CloseDB \/ Exit \/ OpenDB

DBSpec == DBInit /\ [][DBNext]_dbVars

-----------------------------------------------------------------------------

DBTypeOK ==
    /\ data \in [DBKeys -> DBValues \cup {Absent}]
    /\ disk \in [Files -> {NoFile, Torn} \cup [key : DBKeys, value : DBValues]]
    /\ dbState \in {"open", "closed", "down"}
    /\ promised \in [DBKeys -> DBValues \cup {Absent, InDoubt}]
    /\ tainted \subseteq DBKeys
    /\ faults \in 0 .. MaxFaults

\* What the cache answers is what the store would (cache.go:204), except for a
\* key whose last operation on the store returned an error (cache.go:195, 243,
\* 261), or that a batch wrote by its own Write (filedb.go:404).  A deletion
\* fails without any fault when a key of the same file was deleted before.
CacheAgrees ==
    dbState = "open" =>
        \A k \in Cached(dbCache) \ tainted : data[k] = dbCache.items[k].value

\* What an answered operation promised is there after any crash or exit, once
\* the directory can be loaded, and in memory while the store is open
\* (filedb.go:40-54, 90-103, 124-154, 320): no operation that follows on keys
\* of other files, and no restart or Compact, loses a value or brings back a
\* deleted one.  The exceptions are the keys of an operation that failed, those
\* whose file a key with the same path replaced, and the deletions of a batch
\* whose error Write ignores (filedb.go:142).
Durable ==
    \A k \in DBKeys : promised[k] # InDoubt =>
        /\ Loadable => promised[k] = load[k]
        /\ dbState = "open" => promised[k] = data[k]

\* The layers of a cached store agree: list and map of a cache, cache and
\* memory, memory and files.
StoresSound == LRUConsistent /\ CacheAgrees /\ Durable

=============================================================================

---------------------------- MODULE BatchBuilder ----------------------------
(***************************************************************************)
(* pkg/db: the batch of FileDB and the BatchBuilder of utils.go, which     *)
(* collects operations and writes them when they outgrow its limit.        *)
(*                                                                         *)
(* A batch keeps its puts and deletions apart and forgets their order;     *)
(* writing it applies the deletions first, and stops at the first put that *)
(* fails.  The builder then keeps the batch and its caller may try again.  *)
(***************************************************************************)
EXTENDS Integers, FiniteSets, SequencesExt

CONSTANTS
    BatchedKeys, BatchedValues,
    PutSize, DeleteSize,   \* the bytes of an operation
    MaxBatchSize,          \* maxSize; 0 is no limit
    MaxBuilderFaults       \* bound on failing writes

ASSUME BuilderAssumption ==
    PutSize \in Nat /\ DeleteSize \in Nat /\ MaxBatchSize \in Nat /\ MaxBuilderFaults \in Nat

VARIABLES
    target,     \* the store
    batch,      \* the batch being built
    size,       \* the bytes counted for it
    autoflush,
    intended,   \* history: the accepted operations, applied one by one
    writeFaults

builderVars == <<target, batch, size, autoflush, intended, writeFaults>>

NewBatch == [puts |-> <<>>, dels |-> {}]

With(f, k, v) == [x \in DOMAIN f \cup {k} |-> IF x = k THEN v ELSE f[x]]

Minus(f, keys) == Restrict(f, DOMAIN f \ keys)

BatchPut(b, k, v) == [puts |-> With(b.puts, k, v), dels |-> b.dels \ {k}]

\* Mutant: an earlier put of the key stays.
BatchDeleteKeepingPut(b, k) == [puts |-> b.puts, dels |-> b.dels \cup {k}]

BatchDelete(b, k) == [puts |-> Minus(b.puts, {k}), dels |-> b.dels \cup {k}]

BatchLen(b) == Cardinality(DOMAIN b.puts) + Cardinality(b.dels)

\* FileDB.Write up to the puts of done.
Written(b, store, done) ==
    [k \in done \cup (DOMAIN store \ b.dels) |-> IF k \in done THEN b.puts[k] ELSE store[k]]

BuilderInit ==
    /\ target = <<>> /\ intended = <<>>
    /\ batch = NewBatch
    /\ size = 0
    /\ autoflush \in BOOLEAN
    /\ writeFaults = 0

\* Flush; an empty batch is not written.
Flush ==
    /\ BatchLen(batch) # 0
    /\ target' = Written(batch, target, DOMAIN batch.puts)
    /\ batch' = NewBatch
    /\ size' = 0
    /\ UNCHANGED <<autoflush, intended, writeFaults>>

\* The write of Flush fails at a put, in the map already: the batch is kept.
FlushFails ==
    /\ writeFaults < MaxBuilderFaults
    /\ \E done \in SUBSET DOMAIN batch.puts \ {{}} : target' = Written(batch, target, done)
    /\ writeFaults' = writeFaults + 1
    /\ UNCHANGED <<batch, size, autoflush, intended>>

TooLarge(bytes) == MaxBatchSize > 0 /\ size + bytes > MaxBatchSize

\* Put and Delete: room is made by a flush of what there is, or the operation
\* is refused; where the flush fails the operation is not accepted (FlushFails).
Flushes(bytes) == TooLarge(bytes) /\ BatchLen(batch) # 0

MakeRoom(bytes) ==
    /\ TooLarge(bytes) => autoflush
    /\ target' = IF Flushes(bytes) THEN Written(batch, target, DOMAIN batch.puts) ELSE target
    /\ size' = bytes + IF Flushes(bytes) THEN 0 ELSE size
    /\ UNCHANGED <<autoflush, writeFaults>>

Roomy(bytes) == IF Flushes(bytes) THEN NewBatch ELSE batch

BuilderPut(k, v) ==
    /\ MakeRoom(PutSize)
    /\ batch' = BatchPut(Roomy(PutSize), k, v)
    /\ intended' = With(intended, k, v)

BuilderDelete(k) ==
    /\ MakeRoom(DeleteSize)
    /\ batch' = BatchDelete(Roomy(DeleteSize), k)
    /\ intended' = Minus(intended, {k})

\* Reset gives up what was not written.
Reset ==
    /\ batch' = NewBatch
    /\ size' = 0
    /\ intended' = target
    /\ UNCHANGED <<target, autoflush, writeFaults>>

BuilderNext ==
    \/ \E k \in BatchedKeys : BuilderDelete(k) \/ \E v \in BatchedValues : BuilderPut(k, v)
    \/ Flush \/ FlushFails \/ Reset

BuilderSpec == BuilderInit /\ [][BuilderNext]_builderVars

-----------------------------------------------------------------------------

BuilderTypeOK ==
    /\ DOMAIN target \subseteq BatchedKeys
    /\ DOMAIN batch.puts \subseteq BatchedKeys /\ batch.dels \subseteq BatchedKeys
    /\ size \in Nat /\ (MaxBatchSize > 0 => size <= Max({MaxBatchSize, PutSize, DeleteSize}))

\* The store with the unwritten batch applied is what the accepted operations,
\* one by one, would have made of it (filedb.go:124-154, 391-403, utils.go:37-96):
\* that a batch forgets their order, that it is cut where it outgrows the limit
\* and that a write that failed half way is repeated changes nothing.
BuilderAgrees == Written(batch, target, DOMAIN batch.puts) = intended

=============================================================================

-------------------------------- MODULE MCTx --------------------------------
(***************************************************************************)
(* The parts of pkg/tx and the life of the node's process, in one run.     *)
(* They share no state, so one of them runs at a time: active says which.  *)
(***************************************************************************)
EXTENDS TxPool, GasCalculator, OfflineTx, Migration, NodeLifecycle, TLC

CONSTANTS A, B, t1, t2, t3, big, k1, lock, other, blockWorker, rpcServer, consensusWorker

Body(type, from, to, amount, fee, nonce) ==
    [type |-> type, from |-> from, to |-> to, amount |-> amount, fee |-> fee,
     nonce |-> nonce, data |-> FALSE]

\* Transactions for the pool: two of one sender and nonce, one of a sender who
\* is funded later, and one of a later nonce whose amount and fee do not fit
\* the integers.
MCTxBody ==
    (t1  :> Body("online",  A, B, 3, 1, 0)) @@ (t2  :> Body("offline", A, B, 1, 2, 0)) @@
    (t3  :> Body("online",  B, A, 2, 1, 1)) @@ (big :> Body("online",  A, B, 7, 2, 1))

MCTimestamp == (t1 :> 0) @@ (t2 :> 1) @@ (t3 :> 0) @@ (big :> 2)
MCSize      == (t1 :> 2) @@ (t2 :> 3) @@ (t3 :> 2) @@ (big :> 2)
MCMinFee    == [t \in Tx |-> 1]
MCBoosted   == [t \in Tx |-> t = big]
MCGasPrice  == [t \in Tx |-> IF t = t3 THEN 1 ELSE 0]

\* Two transactions of one key with different timestamps.
MCOfflineTxs == {[key |-> k1, timestamp |-> 1], [key |-> k1, timestamp |-> 3]}

Prf(lockTx, lockAmount, lockTime, to, amount, timestamp) ==
    [lock |-> lockTx, lockAmount |-> lockAmount, lockTime |-> lockTime, to |-> to,
     amount |-> amount, timestamp |-> timestamp]

\* One lock presented twice with different amounts locked, at another time,
\* with a larger amount, for another owner, below the minimum, above the lock.
MCProofs == {Prf(lock, 3, 0, A, 2, 0), Prf(lock, 2, 1, A, 2, 0), Prf(lock, 3, 0, A, 2, 1),
             Prf(lock, 3, 0, A, 3, 0), Prf(other, 3, 0, B, 2, 1), Prf(other, 3, 0, B, 1, 0),
             Prf(other, 1, 0, B, 2, 0)}

\* The default factor, one that floats cannot represent well, and a half.
MCAdjustments == {<<1, 10>>, <<1, 20>>, <<1, 2>>}

MCLaunched == <<blockWorker, consensusWorker, rpcServer>>

-----------------------------------------------------------------------------

VARIABLE active

allVars == <<active, poolVars, gasVars, offlineVars, migrationVars, lifecycleVars>>

TxInit ==
    /\ active \in {"pool", "gas", "offline", "migration", "lifecycle"}
    /\ PoolInit /\ GasInit /\ OfflineInit /\ MigrationInit /\ LifecycleInit

LifecyclePart ==
    /\ active = "lifecycle" /\ LifecycleNext
    /\ UNCHANGED <<active, poolVars, gasVars, offlineVars, migrationVars>>

TxNext ==
    \/ /\ active = "pool" /\ PoolNext
       /\ UNCHANGED <<active, gasVars, offlineVars, migrationVars, lifecycleVars>>
    \/ /\ active = "gas" /\ GasNext
       /\ UNCHANGED <<active, poolVars, offlineVars, migrationVars, lifecycleVars>>
    \/ /\ active = "offline" /\ OfflineNext
       /\ UNCHANGED <<active, poolVars, gasVars, migrationVars, lifecycleVars>>
    \/ /\ active = "migration" /\ MigrationNext
       /\ UNCHANGED <<active, poolVars, gasVars, offlineVars, lifecycleVars>>
    \/ LifecyclePart

\* The types of all parts: the pool's items are stamped with times of the
\* clock, the gas prices stay within their bounds and their history within its
\* limit, windows and proofs are what the validators store.
TxTypesOK == PoolTypeOK /\ GasTypeOK /\ OfflineTypeOK /\ MigrationTypeOK /\ LifecycleTypeOK

\* The validators accept what they accept once: an offline transaction in its
\* window, a migration proof ever.
AcceptedOnce == OncePerWindow /\ MintedOnce

\* The fairness of NodeLifecycle.
TxSpec ==
    /\ TxInit /\ [][TxNext]_allVars
    /\ WF_allVars(LifecyclePart /\ (Start \/ Launch))
    /\ WF_allVars(LifecyclePart /\ StopStep)
    /\ \A g \in Goroutines : /\ WF_allVars(LifecyclePart /\ Process(g))
                             /\ SF_allVars(LifecyclePart /\ Done(g))

=============================================================================

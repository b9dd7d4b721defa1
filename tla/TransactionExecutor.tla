------------------------ MODULE TransactionExecutor ------------------------
(***************************************************************************)
(* pkg/state/executor.go on the MemoryStateDB of pkg/state/memory.go.      *)
(*                                                                         *)
(* The database locks itself for one GetAccount or SetAccount at a time,   *)
(* and executor.mu belongs to one executor: every caller makes its own     *)
(* (chain.go:104, 247, 351).  So an ExecuteTransaction call is a sequence  *)
(* of database accesses on private copies, and the step of this model is   *)
(* one database access with the computation that follows it.               *)
(*                                                                         *)
(* Guarded executors are the ones that run inside AddBlock, which holds    *)
(* chainMutex throughout; the executor of ExecuteBlock, called by the fork *)
(* handler, holds no lock of the chain and is not in Guarded.              *)
(***************************************************************************)
EXTENDS Accounts

CONSTANTS
    Executors,   \* the calls that can be in flight at once
    Guarded,     \* those made under chainMutex
    Txs,         \* the transactions that are ever executed
    Rewards,     \* the block rewards: records [to, amount]
    NoCall       \* no transaction or reward in progress

ASSUME GuardedAssumption == Guarded \subseteq Executors
ASSUME TxsAssumption == Txs \subseteq Transaction
ASSUME RewardsAssumption == Rewards \subseteq [to : Addr, amount : Uint64]

VARIABLES
    accounts,    \* MemoryStateDB.accounts
    pc,          \* the database access each executor makes next
    call,        \* its tx, or its block reward
    fromAccount, \* StateTransition.FromAccount: a private copy
    toAccount,   \* StateTransition.ToAccount: a private copy
    newAccount   \* the account executeMigration or executeUnstake writes itself

vars == <<accounts, pc, call, fromAccount, toAccount, newAccount>>

PC == {"idle", "getTo", "migrate", "unstakeGet", "unstakeSet", "setFrom",
       "setTo", "rewardSet"}

TypeOK ==
    /\ accounts \in AccountMap
    /\ pc \in [Executors -> PC]
    /\ call \in [Executors -> Txs \cup Rewards \cup {NoCall}]
    /\ fromAccount \in [Executors -> Account]
    /\ toAccount \in [Executors -> Account]
    /\ newAccount \in [Executors -> Account]

Init ==
    /\ accounts = EmptyAccounts
    /\ pc = [e \in Executors |-> "idle"]
    /\ call = [e \in Executors |-> NoCall]
    /\ fromAccount = [e \in Executors |-> NewAccount]
    /\ toAccount = [e \in Executors |-> NewAccount]
    /\ newAccount = [e \in Executors |-> NewAccount]

-----------------------------------------------------------------------------

\* chainMutex: a guarded executor runs while no other guarded one does.
HoldsChainMutex(e) ==
    e \in Guarded => \A f \in Guarded \ {e} : pc[f] = "idle"

\* The call returns; its copies are garbage.
Return(e) ==
    /\ pc' = [pc EXCEPT ![e] = "idle"]
    /\ call' = [call EXCEPT ![e] = NoCall]
    /\ fromAccount' = [fromAccount EXCEPT ![e] = NewAccount]
    /\ toAccount' = [toAccount EXCEPT ![e] = NewAccount]
    /\ newAccount' = [newAccount EXCEPT ![e] = NewAccount]

\* Mutant: the nonce is not checked.
GetFromAnyNonce(e, tx) ==
    /\ pc[e] = "idle"
    /\ HoldsChainMutex(e)
    /\ ValidateTransaction(tx)
    /\ fromAccount' = [fromAccount EXCEPT ![e] = GetSender(accounts, tx.from)]
    /\ pc' = [pc EXCEPT ![e] = "getTo"]
    /\ call' = [call EXCEPT ![e] = tx]
    /\ UNCHANGED <<accounts, toAccount, newAccount>>

\* ExecuteTransaction up to its first database access: the sender is read,
\* the nonce and the transaction are checked.  A call that fails a check
\* returns with nothing changed, which is a stuttering step.
GetFrom(e, tx) ==
    /\ pc[e] = "idle"
    /\ HoldsChainMutex(e)
    /\ LET from == GetSender(accounts, tx.from)
       IN  /\ tx.nonce = from.Nonce
           /\ ValidateTransaction(tx)
           /\ fromAccount' = [fromAccount EXCEPT ![e] = from]
    /\ pc' = [pc EXCEPT ![e] = "getTo"]
    /\ call' = [call EXCEPT ![e] = tx]
    /\ UNCHANGED <<accounts, toAccount, newAccount>>

\* Where the handler for tx goes on: migration and unstaking access the
\* database themselves before ExecuteTransaction writes the two copies.
AfterExecute(tx) ==
    CASE tx.type = "migration" -> "migrate"
      [] tx.type = "unstake"   -> "unstakeGet"
      [] OTHER                 -> "setFrom"

\* The destination is read and the handler for the type runs on the copies.
GetTo(e) ==
    /\ pc[e] = "getTo"
    /\ LET tx   == call[e]
           from == fromAccount[e]
           to   == GetOrNew(accounts, tx.to)
       IN  /\ CanExecute(tx, from)
           /\ fromAccount' = [fromAccount EXCEPT ![e] = ExecuteFrom(tx, from)]
           /\ toAccount' = [toAccount EXCEPT ![e] = ExecuteTo(tx, to)]
           /\ newAccount' = [newAccount EXCEPT ![e] =
                   IF tx.type = "migration" THEN MigratedAccount(from) ELSE @]
           /\ pc' = [pc EXCEPT ![e] = AfterExecute(tx)]
    /\ UNCHANGED <<accounts, call>>

\* The handler fails: insufficient balance, no proposal data, unknown type.
ExecuteFails(e) ==
    /\ pc[e] = "getTo"
    /\ ~ CanExecute(call[e], fromAccount[e])
    /\ Return(e)
    /\ UNCHANGED accounts

\* executeMigration stores a new account at the destination.
MigrateSet(e) ==
    /\ pc[e] = "migrate"
    /\ accounts' = SetAccount(accounts, call[e].to, newAccount[e])
    /\ pc' = [pc EXCEPT ![e] = "setFrom"]
    /\ UNCHANGED <<call, fromAccount, toAccount, newAccount>>

\* executeUnstake reads the destination a second time and credits its copy ...
UnstakeGet(e) ==
    /\ pc[e] = "unstakeGet"
    /\ newAccount' = [newAccount EXCEPT ![e] =
            AddBalance(GetOrNew(accounts, call[e].to), call[e].amount)]
    /\ pc' = [pc EXCEPT ![e] = "unstakeSet"]
    /\ UNCHANGED <<accounts, call, fromAccount, toAccount>>

\* ... and stores it.
UnstakeSet(e) ==
    /\ pc[e] = "unstakeSet"
    /\ accounts' = SetAccount(accounts, call[e].to, newAccount[e])
    /\ pc' = [pc EXCEPT ![e] = "setFrom"]
    /\ UNCHANGED <<call, fromAccount, toAccount, newAccount>>

\* ExecuteTransaction writes back the sender's copy ...
SetFrom(e) ==
    /\ pc[e] = "setFrom"
    /\ accounts' = SetAccount(accounts, call[e].from, fromAccount[e])
    /\ pc' = [pc EXCEPT ![e] = "setTo"]
    /\ UNCHANGED <<call, fromAccount, toAccount, newAccount>>

\* ... and the destination's, and returns a receipt of success.
SetTo(e) ==
    /\ pc[e] = "setTo"
    /\ accounts' = SetAccount(accounts, call[e].to, toAccount[e])
    /\ Return(e)

\* ApplyBlockReward reads the coinbase account ...
RewardGet(e, r) ==
    /\ pc[e] = "idle"
    /\ HoldsChainMutex(e)
    /\ toAccount' = [toAccount EXCEPT ![e] =
            AddBalance(GetOrNew(accounts, r.to), r.amount)]
    /\ pc' = [pc EXCEPT ![e] = "rewardSet"]
    /\ call' = [call EXCEPT ![e] = r]
    /\ UNCHANGED <<accounts, fromAccount, newAccount>>

\* ... and writes it.
RewardSet(e) ==
    /\ pc[e] = "rewardSet"
    /\ accounts' = SetAccount(accounts, call[e].to, toAccount[e])
    /\ Return(e)

-----------------------------------------------------------------------------

Step(e) ==
    \/ \E tx \in Txs : GetFrom(e, tx)
    \/ GetTo(e)
    \/ ExecuteFails(e)
    \/ MigrateSet(e)
    \/ UnstakeGet(e)
    \/ UnstakeSet(e)
    \/ SetFrom(e)
    \/ SetTo(e)
    \/ \E r \in Rewards : RewardGet(e, r)
    \/ RewardSet(e)

Next == \E e \in Executors : Step(e)

Spec == Init /\ [][Next]_vars

-----------------------------------------------------------------------------
(* What no step may do.                                                    *)

\* An address once stored stays stored.  The sender of a missing account is
\* handed the initial balance, so an account that vanished would be paid
\* again; and the state root, which counts accounts, never goes back.
AccountsPersist ==
    [][/\ \A a \in Addr : accounts[a] # NoAccount => accounts'[a] # NoAccount
       /\ CurrentRoot(accounts') >= CurrentRoot(accounts)]_accounts

-----------------------------------------------------------------------------
(* Executing under chainMutex implements the atomic ledger.                *)

\* The accounts once the call between its two writes has made the second.
LandedAccounts ==
    IF \E e \in Executors : pc[e] = "setTo"
    THEN LET e == CHOOSE f \in Executors : pc[f] = "setTo"
         IN  SetAccount(accounts, call[e].to, toAccount[e])
    ELSE accounts

Atomic == INSTANCE Ledger WITH ledger <- LandedAccounts

\* Seen through LandedAccounts, the interleaved reads and writes of the
\* executors are the atomic debits and credits of Ledger.
ImplementsLedger == Atomic!LedgerSpec

=============================================================================

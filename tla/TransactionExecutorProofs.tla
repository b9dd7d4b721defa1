--------------------- MODULE TransactionExecutorProofs ---------------------
(***************************************************************************)
(* Proofs about TransactionExecutor for every set of addresses, executors, *)
(* transactions and rewards, and every word size:                          *)
(*   TypeCorrect       the type invariant, however executors interleave;   *)
(*   PersistCorrect    accounts never disappear;                           *)
(*   LedgerCorrect     under chainMutex the executor implements Ledger;    *)
(*   ConservationCorrect   and neither makes nor loses money.              *)
(***************************************************************************)
EXTENDS ExecutorBook, AccountsProofs, SumProofs

TxPC == {"getTo", "migrate", "unstakeGet", "unstakeSet", "setFrom", "setTo"}

\* A call in progress is a transaction of Txs or a reward of Rewards.
CallOK ==
    \A e \in Executors : /\ pc[e] \in TxPC => call[e] \in Txs
                         /\ pc[e] = "rewardSet" => call[e] \in Rewards

Inv == TypeOK /\ CallOK

-----------------------------------------------------------------------------
(* Calls and where they go on.                                             *)

LEMMA CallTypes ==
  ASSUME NEW tx \in Txs
  PROVE  tx \in Transaction
  BY TxsAssumption

LEMMA RewardTypes ==
  ASSUME NEW r \in Rewards
  PROVE  r.to \in Addr /\ r.amount \in Uint64
  BY RewardsAssumption

LEMMA AfterExecuteType ==
  ASSUME NEW tx \in Txs
  PROVE  AfterExecute(tx) \in {"migrate", "unstakeGet", "setFrom"}
  BY CallTypes, TxTypes DEF AfterExecute, TxType

-----------------------------------------------------------------------------
(* The type invariant.                                                     *)

LEMMA InitInv == Init => Inv
  BY NewAccountType
  DEF Init, Inv, TypeOK, CallOK, TxPC, PC, AccountMap, EmptyAccounts

LEMMA ReturnInv ==
  ASSUME Inv, NEW e \in Executors, Return(e), accounts' \in AccountMap
  PROVE  Inv'
  BY NewAccountType DEF Inv, TypeOK, CallOK, TxPC, PC, Return

LEMMA NextInv == Inv /\ [Next]_vars => Inv'
<1> SUFFICES ASSUME Inv, [Next]_vars PROVE Inv'
  OBVIOUS
<1>1. CASE UNCHANGED vars
  BY <1>1 DEF vars, Inv, TypeOK, CallOK
<1>2. CASE Next
  <2> PICK e \in Executors : Step(e)
    BY <1>2 DEF Next
  <2>1. ASSUME NEW tx \in Txs, GetFrom(e, tx) PROVE Inv'
    <3>1. GetSender(accounts, tx.from) \in Account
      BY CallTypes, TxTypes, GetTypes DEF Inv, TypeOK
    <3> QED BY <2>1, <3>1 DEF GetFrom, Inv, TypeOK, CallOK, TxPC, PC
  <2>2. CASE GetTo(e)
    <3>1. call[e] \in Txs
      BY <2>2 DEF GetTo, Inv, CallOK, TxPC
    <3>2. /\ fromAccount[e] \in Account
          /\ GetOrNew(accounts, call[e].to) \in Account
      BY <3>1, CallTypes, TxTypes, GetTypes DEF Inv, TypeOK
    <3>3. /\ ExecuteFrom(call[e], fromAccount[e]) \in Account
          /\ ExecuteTo(call[e], GetOrNew(accounts, call[e].to)) \in Account
          /\ MigratedAccount(fromAccount[e]) \in Account
      BY <3>1, <3>2, CallTypes, ExecuteTypes
    <3>4. AfterExecute(call[e]) \in {"migrate", "unstakeGet", "setFrom"}
      BY <3>1, AfterExecuteType
    <3> QED BY <2>2, <3>1, <3>3, <3>4 DEF GetTo, Inv, TypeOK, CallOK, TxPC, PC
  <2>3. CASE ExecuteFails(e)
    BY <2>3, ReturnInv DEF ExecuteFails, Inv, TypeOK
  <2>4. CASE MigrateSet(e) \/ UnstakeSet(e)
    <3>1. call[e] \in Txs /\ newAccount[e] \in Account
      BY <2>4 DEF MigrateSet, UnstakeSet, Inv, TypeOK, CallOK, TxPC
    <3>2. accounts' \in AccountMap
      BY <2>4, <3>1, CallTypes, TxTypes, SetAccountType DEF MigrateSet, UnstakeSet, Inv, TypeOK
    <3> QED BY <2>4, <3>1, <3>2 DEF MigrateSet, UnstakeSet, Inv, TypeOK, CallOK, TxPC, PC
  <2>5. CASE UnstakeGet(e)
    <3>1. call[e] \in Txs
      BY <2>5 DEF UnstakeGet, Inv, CallOK, TxPC
    <3>2. AddBalance(GetOrNew(accounts, call[e].to), call[e].amount) \in Account
      BY <3>1, CallTypes, TxTypes, GetTypes, AddBalanceType DEF Inv, TypeOK
    <3> QED BY <2>5, <3>1, <3>2 DEF UnstakeGet, Inv, TypeOK, CallOK, TxPC, PC
  <2>6. CASE SetFrom(e)
    <3>1. call[e] \in Txs /\ fromAccount[e] \in Account
      BY <2>6 DEF SetFrom, Inv, TypeOK, CallOK, TxPC
    <3>2. accounts' \in AccountMap
      BY <2>6, <3>1, CallTypes, TxTypes, SetAccountType DEF SetFrom, Inv, TypeOK
    <3> QED BY <2>6, <3>1, <3>2 DEF SetFrom, Inv, TypeOK, CallOK, TxPC, PC
  <2>7. CASE SetTo(e)
    <3>1. call[e] \in Txs /\ toAccount[e] \in Account
      BY <2>7 DEF SetTo, Inv, TypeOK, CallOK, TxPC
    <3>2. accounts' \in AccountMap
      BY <2>7, <3>1, CallTypes, TxTypes, SetAccountType DEF SetTo, Inv, TypeOK
    <3> QED BY <2>7, <3>2, ReturnInv DEF SetTo
  <2>8. ASSUME NEW r \in Rewards, RewardGet(e, r) PROVE Inv'
    <3>1. AddBalance(GetOrNew(accounts, r.to), r.amount) \in Account
      BY RewardTypes, GetTypes, AddBalanceType DEF Inv, TypeOK
    <3> QED BY <2>8, <3>1 DEF RewardGet, Inv, TypeOK, CallOK, TxPC, PC
  <2>9. CASE RewardSet(e)
    <3>1. call[e] \in Rewards /\ toAccount[e] \in Account
      BY <2>9 DEF RewardSet, Inv, TypeOK, CallOK
    <3>2. accounts' \in AccountMap
      BY <2>9, <3>1, RewardTypes, SetAccountType DEF RewardSet, Inv, TypeOK
    <3> QED BY <2>9, <3>2, ReturnInv DEF RewardSet
  <2> QED
    BY <2>1, <2>2, <2>3, <2>4, <2>5, <2>6, <2>7, <2>8, <2>9 DEF Step
<1> QED BY <1>1, <1>2

\* Executors that interleave their reads and writes in any order, guarded or
\* not, keep every stored balance and every private copy a 64-bit account.
THEOREM TypeCorrect == Spec => []TypeOK
<1>1. Inv => TypeOK
  BY DEF Inv
<1> QED BY <1>1, InitInv, NextInv, PTL DEF Spec

-----------------------------------------------------------------------------
(* Accounts never disappear.                                               *)

LEMMA SetAccountPersists ==
  ASSUME NEW map \in AccountMap, NEW a \in Addr, NEW acc \in Account,
         NEW b \in Addr, map[b] # NoAccount
  PROVE  SetAccount(map, a, acc)[b] # NoAccount
  BY NoAccountAssumption DEF SetAccount, AccountMap

\* Every step leaves the database alone or stores one account in it.
LEMMA NextWrites ==
  ASSUME Inv, [Next]_vars
  PROVE  \/ UNCHANGED accounts
         \/ \E a \in Addr, acc \in Account : accounts' = SetAccount(accounts, a, acc)
<1>1. CASE UNCHANGED vars
  BY <1>1 DEF vars
<1>2. CASE Next
  <2> PICK e \in Executors : Step(e)
    BY <1>2 DEF Next
  <2>1. CASE MigrateSet(e) \/ UnstakeSet(e) \/ SetFrom(e) \/ SetTo(e)
    <3>1. call[e] \in Txs
      BY <2>1 DEF MigrateSet, UnstakeSet, SetFrom, SetTo, Inv, CallOK, TxPC
    <3>2. /\ newAccount[e] \in Account /\ fromAccount[e] \in Account
          /\ toAccount[e] \in Account
      BY DEF Inv, TypeOK
    <3> QED BY <2>1, <3>1, <3>2, CallTypes, TxTypes DEF MigrateSet, UnstakeSet, SetFrom, SetTo
  <2>2. CASE RewardSet(e)
    <3>1. call[e] \in Rewards /\ toAccount[e] \in Account
      BY <2>2 DEF RewardSet, Inv, TypeOK, CallOK
    <3> QED BY <2>2, <3>1, RewardTypes DEF RewardSet
  <2>3. CASE \/ \E tx \in Txs : GetFrom(e, tx)
             \/ GetTo(e) \/ ExecuteFails(e) \/ UnstakeGet(e)
             \/ \E r \in Rewards : RewardGet(e, r)
    BY <2>3 DEF GetFrom, GetTo, ExecuteFails, UnstakeGet, RewardGet
  <2> QED BY <2>1, <2>2, <2>3 DEF Step
<1> QED BY <1>1, <1>2

\* However calls interleave, a stored account stays stored and the state
\* root, the number of accounts, never decreases.
THEOREM PersistCorrect == Spec => AccountsPersist
<1> DEFINE Stored(map) == {a \in Addr : map[a] # NoAccount}
           Persist == /\ \A a \in Addr : accounts[a] # NoAccount => accounts'[a] # NoAccount
                      /\ CurrentRoot(accounts') >= CurrentRoot(accounts)
<1>1. Inv /\ [Next]_vars => [Persist]_accounts
  <2> SUFFICES ASSUME Inv, [Next]_vars, accounts' # accounts PROVE Persist
    OBVIOUS
  <2> PICK b \in Addr, acc \in Account : accounts' = SetAccount(accounts, b, acc)
    BY NextWrites
  <2>1. \A a \in Addr : accounts[a] # NoAccount => accounts'[a] # NoAccount
    BY SetAccountPersists DEF Inv, TypeOK
  <2>2. Stored(accounts) \subseteq Stored(accounts')
    BY <2>1
  <2>3. IsFiniteSet(Stored(accounts'))
    BY AddrAssumption, FS_Subset
  <2>4. Cardinality(Stored(accounts)) <= Cardinality(Stored(accounts'))
    BY <2>2, <2>3, FS_Subset
  <2>5. Cardinality(Stored(accounts)) \in Nat /\ Cardinality(Stored(accounts')) \in Nat
    BY <2>2, <2>3, FS_Subset, FS_CardinalityType
  <2> QED BY <2>1, <2>4, <2>5 DEF CurrentRoot
<1> QED BY <1>1, InitInv, NextInv, PTL DEF Spec, AccountsPersist

-----------------------------------------------------------------------------
(* Under chainMutex the executor implements the atomic ledger.             *)

\* The transactions whose handlers keep the ledger's promise: the sender is
\* not the destination, and the handler leaves the database to
\* ExecuteTransaction.
PlainTransactions ==
    \A tx \in Txs : tx.from # tx.to /\ tx.type \notin {"migration", "unstake"}

\* chainMutex lets one call run at a time.
Exclusive ==
    \A e, f \in Executors : pc[e] # "idle" /\ pc[f] # "idle" => e = f

\* The private copies of the call in progress are what the database implies.
CopiesFresh ==
    \A e \in Executors :
        /\ pc[e] \notin {"migrate", "unstakeGet", "unstakeSet"}
        /\ pc[e] = "getTo" =>
              /\ fromAccount[e] = GetSender(accounts, call[e].from)
              /\ call[e].nonce = fromAccount[e].Nonce
              /\ ValidateTransaction(call[e])
        /\ pc[e] = "setFrom" =>
              LET from == GetSender(accounts, call[e].from)
              IN  /\ call[e].nonce = from.Nonce
                  /\ ValidateTransaction(call[e])
                  /\ CanExecute(call[e], from)
                  /\ fromAccount[e] = ExecuteFrom(call[e], from)
                  /\ toAccount[e] = ExecuteTo(call[e], GetOrNew(accounts, call[e].to))
        /\ pc[e] = "rewardSet" =>
              toAccount[e] = AddBalance(GetOrNew(accounts, call[e].to), call[e].amount)

SerialInv == Inv /\ Exclusive /\ CopiesFresh

LEMMA InitSerial == Init => SerialInv
  BY InitInv DEF Init, SerialInv, Exclusive, CopiesFresh

LEMMA NextSerial ==
  ASSUME PlainTransactions, Guarded = Executors, SerialInv, [Next]_vars
  PROVE  SerialInv'
<1>1. Inv'
  BY NextInv DEF SerialInv
<1>2. CASE UNCHANGED vars
  BY <1>1, <1>2 DEF vars, SerialInv, Exclusive, CopiesFresh
<1>3. CASE Next
  <2> PICK e \in Executors : Step(e)
    BY <1>3 DEF Next
  <2>1. ASSUME NEW tx \in Txs, GetFrom(e, tx) PROVE (Exclusive /\ CopiesFresh)'
    BY <2>1 DEF GetFrom, HoldsChainMutex, SerialInv, Inv, TypeOK, Exclusive, CopiesFresh
  <2>2. CASE GetTo(e)
    <3>1. call[e] \in Txs
      BY <2>2 DEF GetTo, SerialInv, Inv, CallOK, TxPC
    <3>2. AfterExecute(call[e]) = "setFrom"
      BY <3>1 DEF PlainTransactions, AfterExecute
    <3>3. (Exclusive /\ CopiesFresh)'
      BY <2>2, <3>2 DEF GetTo, SerialInv, Inv, TypeOK, Exclusive, CopiesFresh
    <3> QED BY <1>1, <3>3 DEF SerialInv
  <2>3. CASE ExecuteFails(e) \/ SetTo(e) \/ RewardSet(e)
    <3>1. \A f \in Executors : pc'[f] = "idle"
      BY <2>3 DEF ExecuteFails, SetTo, RewardSet, Return, SerialInv, Exclusive, Inv, TypeOK
    <3> QED BY <1>1, <3>1 DEF SerialInv, Exclusive, CopiesFresh
  <2>4. CASE MigrateSet(e) \/ UnstakeGet(e) \/ UnstakeSet(e)
    BY <2>4 DEF MigrateSet, UnstakeGet, UnstakeSet, SerialInv, CopiesFresh
  <2>5. CASE SetFrom(e)
    <3>1. \A f \in Executors : f # e => pc'[f] = "idle"
      BY <2>5 DEF SetFrom, SerialInv, Exclusive, Inv, TypeOK
    <3>2. pc'[e] = "setTo"
      BY <2>5 DEF SetFrom, SerialInv, Inv, TypeOK
    <3> QED BY <1>1, <3>1, <3>2 DEF SerialInv, Exclusive, CopiesFresh
  <2>6. ASSUME NEW r \in Rewards, RewardGet(e, r) PROVE (Exclusive /\ CopiesFresh)'
    BY <2>6 DEF RewardGet, HoldsChainMutex, SerialInv, Inv, TypeOK, Exclusive, CopiesFresh
  <2> QED BY <1>1, <2>1, <2>2, <2>3, <2>4, <2>5, <2>6 DEF Step, SerialInv
<1> QED BY <1>2, <1>3

\* LandedAccounts of a call between its two writes, and of any other state.
LEMMA Landed ==
  ASSUME Exclusive
  PROVE  /\ \A e \in Executors : pc[e] = "setTo" =>
                LandedAccounts = SetAccount(accounts, call[e].to, toAccount[e])
         /\ (\A e \in Executors : pc[e] # "setTo") => LandedAccounts = accounts
  BY DEF Exclusive, LandedAccounts

\* Ledger's copies of the operators of Accounts are those operators.
LEMMA SameOperators ==
  ASSUME NEW map, NEW a, NEW acc, NEW amount, NEW tx
  PROVE  /\ Atomic!SetAccount(map, a, acc) = SetAccount(map, a, acc)
         /\ Atomic!GetOrNew(map, a) = GetOrNew(map, a)
         /\ Atomic!GetSender(map, a) = GetSender(map, a)
         /\ Atomic!AddBalance(acc, amount) = AddBalance(acc, amount)
         /\ Atomic!ValidateTransaction(tx) = ValidateTransaction(tx)
         /\ Atomic!CanExecute(tx, acc) = CanExecute(tx, acc)
         /\ Atomic!ExecuteFrom(tx, acc) = ExecuteFrom(tx, acc)
         /\ Atomic!ExecuteTo(tx, acc) = ExecuteTo(tx, acc)
<1>1. Atomic!SetAccount(map, a, acc) = SetAccount(map, a, acc)
  BY DEF SetAccount, Atomic!SetAccount
<1>2. Atomic!GetOrNew(map, a) = GetOrNew(map, a)
  BY DEF GetOrNew, NewAccount, Atomic!GetOrNew, Atomic!NewAccount
<1>3. Atomic!GetSender(map, a) = GetSender(map, a)
  BY DEF GetSender, NewAccount, Atomic!GetSender, Atomic!NewAccount
<1>4. \A x, y : Atomic!AddBalance(x, y) = AddBalance(x, y)
  BY DEF AddBalance, Atomic!AddBalance
<1>5. Atomic!ValidateTransaction(tx) = ValidateTransaction(tx)
  BY DEF ValidateTransaction, Atomic!ValidateTransaction
<1>6. Atomic!CanExecute(tx, acc) = CanExecute(tx, acc)
  BY DEF CanExecute, Transfers, Atomic!CanExecute, Atomic!Transfers
<1>7. \A x, y : Atomic!SubBalance(x, y) = SubBalance(x, y)
  BY DEF SubBalance, Atomic!SubBalance
<1>8. Atomic!ExecuteFrom(tx, acc) = ExecuteFrom(tx, acc)
  BY <1>7 DEF ExecuteFrom, Transfers, Atomic!ExecuteFrom, Atomic!Transfers
<1>9. Atomic!ExecuteTo(tx, acc) = ExecuteTo(tx, acc)
  BY <1>4 DEF ExecuteTo, Transfers, Atomic!ExecuteTo, Atomic!Transfers
<1> QED BY <1>1, <1>2, <1>3, <1>4, <1>5, <1>6, <1>8, <1>9

\* The step that writes the sender lands both writes of the transaction ...
LEMMA SetFromLands ==
  ASSUME PlainTransactions, SerialInv, NEW e \in Executors, SetFrom(e)
  PROVE  LET tx == call[e]
             from == GetSender(accounts, tx.from)
         IN  /\ tx \in Txs /\ tx \in Transaction
             /\ tx.from # tx.to /\ tx.type \notin {"migration", "unstake"}
             /\ tx.nonce = from.Nonce /\ ValidateTransaction(tx) /\ CanExecute(tx, from)
             /\ LandedAccounts = accounts
             /\ LandedAccounts' = SetAccount(SetAccount(accounts, tx.from, ExecuteFrom(tx, from)),
                                    tx.to, ExecuteTo(tx, GetOrNew(accounts, tx.to)))
<1> DEFINE tx == call[e]
<1>1. tx \in Txs
  BY DEF SetFrom, SerialInv, Inv, CallOK, TxPC
<1>2. LandedAccounts = accounts
  BY Landed DEF SetFrom, SerialInv, Exclusive
<1>3. LandedAccounts' = SetAccount(accounts', tx.to, toAccount[e])
  <2>1. pc' = [pc EXCEPT ![e] = "setTo"] /\ UNCHANGED <<call, toAccount>>
    BY DEF SetFrom
  <2>2. pc'[e] = "setTo" /\ \A f \in Executors : pc'[f] = "setTo" => f = e
    BY <2>1 DEF SetFrom, SerialInv, Inv, TypeOK, Exclusive
  <2>3. (CHOOSE f \in Executors : pc'[f] = "setTo") = e
    BY <2>2
  <2> QED BY <2>1, <2>2, <2>3 DEF LandedAccounts
<1>4. /\ tx.nonce = GetSender(accounts, tx.from).Nonce
      /\ ValidateTransaction(tx)
      /\ CanExecute(tx, GetSender(accounts, tx.from))
      /\ fromAccount[e] = ExecuteFrom(tx, GetSender(accounts, tx.from))
      /\ toAccount[e] = ExecuteTo(tx, GetOrNew(accounts, tx.to))
  BY DEF SetFrom, SerialInv, CopiesFresh
<1>5. accounts' = SetAccount(accounts, tx.from, fromAccount[e])
  BY DEF SetFrom
<1>6. tx.from # tx.to /\ tx.type \notin {"migration", "unstake"}
  BY <1>1 DEF PlainTransactions
<1> QED BY <1>1, <1>2, <1>3, <1>4, <1>5, <1>6, CallTypes

\* ... the write of a reward lands it ...
LEMMA RewardLands ==
  ASSUME SerialInv, NEW e \in Executors, RewardSet(e)
  PROVE  /\ call[e] \in Rewards
         /\ LandedAccounts = accounts
         /\ LandedAccounts' = SetAccount(accounts, call[e].to,
                AddBalance(GetOrNew(accounts, call[e].to), call[e].amount))
<1>1. call[e] \in Rewards
  BY DEF RewardSet, SerialInv, Inv, CallOK
<1>2. LandedAccounts = accounts
  BY Landed DEF RewardSet, SerialInv, Exclusive
<1>3. \A f \in Executors : pc'[f] # "setTo"
  BY DEF RewardSet, Return, SerialInv, Exclusive, Inv, TypeOK
<1>4. LandedAccounts' = accounts'
  BY <1>3 DEF LandedAccounts
<1> QED BY <1>1, <1>2, <1>4 DEF RewardSet, SerialInv, CopiesFresh

\* ... and no other step lands anything.
LEMMA OthersLandNothing ==
  ASSUME PlainTransactions, Guarded = Executors, SerialInv, NEW e \in Executors,
         Step(e), ~ SetFrom(e), ~ RewardSet(e)
  PROVE  LandedAccounts' = LandedAccounts
<1> Exclusive
  BY DEF SerialInv
<1>b. (\A f \in Executors : pc'[f] # "setTo") => LandedAccounts' = accounts'
  BY DEF LandedAccounts
<1>1. CASE \/ \E tx \in Txs : GetFrom(e, tx)
           \/ GetTo(e) \/ ExecuteFails(e)
           \/ \E r \in Rewards : RewardGet(e, r)
  <2>1. UNCHANGED accounts
    BY <1>1 DEF GetFrom, GetTo, ExecuteFails, RewardGet
  <2>2. \A f \in Executors : pc[f] # "setTo"
    BY <1>1, GuardedAssumption
    DEF GetFrom, GetTo, ExecuteFails, RewardGet, HoldsChainMutex, Exclusive
  <2>3. \A f \in Executors : pc'[f] # "setTo"
    <3>1. ASSUME NEW tx \in Txs PROVE AfterExecute(tx) # "setTo"
      BY AfterExecuteType
    <3>2. GetTo(e) => call[e] \in Txs
      BY DEF GetTo, SerialInv, Inv, CallOK, TxPC
    <3> QED BY <1>1, <2>2, <3>1, <3>2
      DEF GetFrom, GetTo, ExecuteFails, RewardGet, Return, SerialInv, Inv, TypeOK
  <2> QED BY <2>1, <2>2, <2>3, <1>b, Landed
<1>2. CASE MigrateSet(e) \/ UnstakeGet(e) \/ UnstakeSet(e)
  BY <1>2 DEF MigrateSet, UnstakeGet, UnstakeSet, SerialInv, CopiesFresh
<1>3. CASE SetTo(e)
  <2>1. LandedAccounts = SetAccount(accounts, call[e].to, toAccount[e])
    BY <1>3, Landed DEF SetTo
  <2>2. \A f \in Executors : pc'[f] # "setTo"
    BY <1>3 DEF SetTo, Return, Exclusive, SerialInv, Inv, TypeOK
  <2> QED BY <1>3, <2>1, <2>2, <1>b DEF SetTo
<1> QED BY <1>1, <1>2, <1>3 DEF Step

LEMMA StepRefines ==
  ASSUME PlainTransactions, Guarded = Executors, SerialInv, [Next]_vars
  PROVE  [Atomic!LedgerNext]_LandedAccounts
<1>1. CASE UNCHANGED vars
  BY <1>1 DEF vars, LandedAccounts
<1>2. CASE Next
  <2> PICK e \in Executors : Step(e)
    BY <1>2 DEF Next
  <2>1. CASE SetFrom(e)
    <3> DEFINE tx == call[e]
               from == GetSender(accounts, tx.from)
    <3>1. /\ tx \in Txs /\ tx \in Transaction
          /\ tx.from # tx.to /\ tx.type \notin {"migration", "unstake"}
          /\ tx.nonce = from.Nonce /\ ValidateTransaction(tx) /\ CanExecute(tx, from)
          /\ LandedAccounts = accounts
          /\ LandedAccounts' = SetAccount(SetAccount(accounts, tx.from, ExecuteFrom(tx, from)),
                                 tx.to, ExecuteTo(tx, GetOrNew(accounts, tx.to)))
      BY <2>1, SetFromLands
    <3>2. Atomic!Debited(tx) = SetAccount(accounts, tx.from, ExecuteFrom(tx, from))
      BY <3>1, SameOperators DEF Atomic!Debited
    <3>3. GetOrNew(Atomic!Debited(tx), tx.to) = GetOrNew(accounts, tx.to)
      BY <3>1, <3>2, TxTypes DEF SetAccount, GetOrNew, SerialInv, Inv, TypeOK, AccountMap
    <3>4. Atomic!Executable(tx)
      BY <3>1, SameOperators DEF Atomic!Executable
    <3>5. Atomic!Execute(tx)
      BY <3>1, <3>2, <3>3, <3>4, SameOperators DEF Atomic!Execute, Atomic!Credited
    <3> QED BY <3>1, <3>5 DEF Atomic!LedgerNext
  <2>2. CASE RewardSet(e)
    <3>1. /\ call[e] \in Rewards
          /\ LandedAccounts = accounts
          /\ LandedAccounts' = SetAccount(accounts, call[e].to,
                 AddBalance(GetOrNew(accounts, call[e].to), call[e].amount))
      BY <2>2, RewardLands
    <3>2. Atomic!Reward(call[e])
      BY <3>1, SameOperators DEF Atomic!Reward
    <3> QED BY <3>1, <3>2 DEF Atomic!LedgerNext
  <2>3. CASE ~ SetFrom(e) /\ ~ RewardSet(e)
    BY <2>3, OthersLandNothing
  <2> QED BY <2>1, <2>2, <2>3
<1> QED BY <1>1, <1>2

\* When every executor runs under chainMutex, and no transaction pays its own
\* sender, migrates or unstakes, the separate reads and writes of
\* ExecuteTransaction and ApplyBlockReward implement the atomic ledger.
THEOREM LedgerCorrect ==
  ASSUME PlainTransactions, Guarded = Executors
  PROVE  Spec => ImplementsLedger
<1>1. Init => Atomic!LedgerInit
  <2> SUFFICES ASSUME Init PROVE LandedAccounts = EmptyAccounts
    BY DEF Atomic!LedgerInit, Atomic!EmptyAccounts, EmptyAccounts
  <2> QED BY DEF Init, LandedAccounts
<1>2. SerialInv /\ [Next]_vars => SerialInv'
  BY NextSerial
<1>3. SerialInv /\ [Next]_vars => [Atomic!LedgerNext]_LandedAccounts
  BY StepRefines
<1> QED BY <1>1, <1>2, <1>3, InitSerial, PTL DEF Spec, ImplementsLedger, Atomic!LedgerSpec

-----------------------------------------------------------------------------
(* Under chainMutex no money is made or lost.                              *)

\* The balance of every address, and their sum.
Held(map) == [a \in Addr |-> GetOrNew(map, a).Balance]
Total(map) == SumOver(Held(map), Addr)

LEMMA BalancesIsTotal == Balances = Total(accounts)
<1> DEFINE g == Held(accounts)
           IsHeld(f) == f = [s \in SUBSET Addr |-> IF s = {} THEN 0 ELSE
                                GetOrNew(accounts, Pick(s)).Balance + f[s \ {Pick(s)}]]
<1>1. Balances = (CHOOSE f : IsHeld(f))[Addr]
  BY DEF Balances, MapThenSumSet, MapThenFoldSet, Pick
<1>2. \A s \in SUBSET Addr : s # {} => g[Pick(s)] = GetOrNew(accounts, Pick(s)).Balance
  BY DEF Pick, Held
<1> HIDE DEF g
<1>3. ASSUME NEW f PROVE IsHeld(f) <=> IsSum(g, Addr, f)
  BY <1>2 DEF IsSum
<1> HIDE DEF IsHeld
<1>4. (CHOOSE f : IsHeld(f)) = (CHOOSE f : IsSum(g, Addr, f))
  BY <1>3
<1> QED BY <1>1, <1>4, SumOverDef DEF SumFcn, g, Total

LEMMA HeldTypes ==
  ASSUME NEW map \in AccountMap
  PROVE  /\ \A a \in Addr : Held(map)[a] = GetOrNew(map, a).Balance
         /\ \A a \in Addr : Held(map)[a] \in Nat /\ Held(map)[a] \in Int
         /\ Total(map) \in Nat
<1>1. ASSUME NEW a \in Addr PROVE GetOrNew(map, a).Balance \in Nat
  BY GetTypes, ModulusAssumption DEF Account, Uint64
<1>2. \A a \in Addr : Held(map)[a] \in Nat /\ Held(map)[a] \in Int
  BY <1>1 DEF Held
<1>3. Total(map) \in Nat
  BY <1>2, AddrAssumption, SumOverNat DEF Total
<1> QED BY <1>2, <1>3 DEF Held

\* Storing one account changes the total by the change of its balance.
LEMMA SetAccountTotal ==
  ASSUME NEW map \in AccountMap, NEW a \in Addr, NEW acc \in Account
  PROVE  Total(SetAccount(map, a, acc)) = Total(map) + (acc.Balance - GetOrNew(map, a).Balance)
<1> DEFINE new == SetAccount(map, a, acc)
<1>1. new \in AccountMap /\ new[a] = acc /\ \A b \in Addr \ {a} : new[b] = map[b]
  BY DEF SetAccount, AccountMap
<1> HIDE DEF new
<1>2. Held(new)[a] = acc.Balance /\ \A b \in Addr \ {a} : Held(new)[b] = Held(map)[b]
  BY <1>1, NoAccountAssumption DEF Held, GetOrNew
<1>3. acc.Balance \in Int
  BY ModulusAssumption DEF Account, Uint64
<1>4. Total(new) = Total(map) + (Held(new)[a] - Held(map)[a])
  BY <1>2, <1>3, HeldTypes, AddrAssumption, SumOverChange DEF Total
<1> QED BY <1>2, <1>4, HeldTypes DEF new

\* The first GetAccount of a sender makes this much money.
InitialGrant(map, a) == IF map[a] = NoAccount THEN InitialBalance ELSE 0

Burned(tx) == IF tx.type \in Transfers THEN tx.fee ELSE 0
Staked(tx) == IF tx.type = "stake" THEN tx.amount ELSE 0

\* One transaction between two addresses: the total grows by the initial
\* balance of the sender and falls by the fee and the stake.
LEMMA ExecuteTotal ==
  ASSUME NEW map \in AccountMap, NEW tx \in Transaction, tx.from # tx.to,
         tx.type \notin {"migration", "unstake"},
         CanExecute(tx, GetSender(map, tx.from)),
         Total(map) + InitialGrant(map, tx.from) < Modulus
  PROVE  Total(SetAccount(SetAccount(map, tx.from, ExecuteFrom(tx, GetSender(map, tx.from))),
                          tx.to, ExecuteTo(tx, GetOrNew(map, tx.to))))
            = Total(map) + InitialGrant(map, tx.from) - Burned(tx) - Staked(tx)
<1> DEFINE sender == GetSender(map, tx.from)
           receiver == GetOrNew(map, tx.to)
           debited == SetAccount(map, tx.from, ExecuteFrom(tx, sender))
<1>1. /\ tx.from \in Addr /\ tx.to \in Addr /\ sender \in Account /\ receiver \in Account
      /\ ExecuteFrom(tx, sender) \in Account /\ ExecuteTo(tx, receiver) \in Account
  BY TxTypes, GetTypes, ExecuteTypes
<1>2. /\ debited \in AccountMap /\ GetOrNew(debited, tx.to) = receiver
  BY <1>1, SetAccountType DEF SetAccount, GetOrNew, AccountMap
<1>3. sender.Balance = GetOrNew(map, tx.from).Balance + InitialGrant(map, tx.from)
  BY <1>1, InitialBalanceAssumption, ModulusAssumption
  DEF GetSender, GetOrNew, NewAccount, InitialGrant, Account, Uint64
<1>4. /\ sender.Balance \in Nat /\ receiver.Balance \in Nat /\ Total(map) \in Nat
      /\ GetOrNew(map, tx.from).Balance \in Nat /\ InitialGrant(map, tx.from) \in Nat
      /\ tx.amount \in Nat /\ tx.fee \in Nat /\ Modulus \in Nat
      /\ ExecuteFrom(tx, sender).Balance \in Nat /\ ExecuteTo(tx, receiver).Balance \in Nat
  BY <1>1, HeldTypes, TxTypes, GetTypes, InitialBalanceAssumption, ModulusAssumption
  DEF Account, Uint64, InitialGrant
<1>5. GetOrNew(map, tx.from).Balance + receiver.Balance <= Total(map)
  BY <1>1, HeldTypes, AddrAssumption, SumOverTwo DEF Total
<1>6. /\ Total(debited) = Total(map)
            + (ExecuteFrom(tx, sender).Balance - GetOrNew(map, tx.from).Balance)
      /\ Total(SetAccount(debited, tx.to, ExecuteTo(tx, receiver)))
            = Total(debited) + (ExecuteTo(tx, receiver).Balance - receiver.Balance)
  BY <1>1, <1>2, SetAccountTotal
<1>7. CASE tx.type \in Transfers
  <2>1. sender.Balance >= tx.amount + tx.fee
    BY <1>7 DEF CanExecute, Transfers
  <2>2. ExecuteFrom(tx, sender).Balance = sender.Balance - (tx.amount + tx.fee)
    BY <1>1, <1>4, <1>7, <2>1 DEF ExecuteFrom, SubBalance, Account, Transfers
  <2>3. (receiver.Balance + tx.amount) % Modulus = receiver.Balance + tx.amount
    <3> HIDE DEF sender, receiver
    <3>1. receiver.Balance + tx.amount \in 0 .. (Modulus - 1)
      BY <1>3, <1>4, <1>5, <2>1
    <3> DEFINE sum == receiver.Balance + tx.amount
    <3>2. sum \in 0 .. (Modulus - 1) /\ Modulus > 0
      BY <3>1, ModulusAssumption
    <3> HIDE DEF sum
    <3>3. sum % Modulus = sum
      BY <1>4, <3>2, ModSmall
    <3> QED BY <3>3 DEF sum
  <2>4. ExecuteTo(tx, receiver).Balance = receiver.Balance + tx.amount
    BY <1>1, <1>7, <2>3 DEF ExecuteTo, AddBalance, Account
  <2>5. Burned(tx) = tx.fee /\ Staked(tx) = 0
    BY <1>7 DEF Burned, Staked, Transfers
  <2> HIDE DEF sender, receiver, debited
  <2> QED BY <1>3, <1>4, <1>6, <2>2, <2>4, <2>5 DEF debited, sender, receiver
<1>8. CASE tx.type = "stake"
  <2>1. sender.Balance >= tx.amount
    BY <1>8 DEF CanExecute, Transfers
  <2>2. ExecuteFrom(tx, sender).Balance = sender.Balance - tx.amount
    BY <1>1, <1>4, <1>8, <2>1 DEF ExecuteFrom, SubBalance, Account, Transfers
  <2>3. ExecuteTo(tx, receiver) = receiver
    BY <1>8 DEF ExecuteTo, Transfers
  <2>4. Burned(tx) = 0 /\ Staked(tx) = tx.amount
    BY <1>8 DEF Burned, Staked, Transfers
  <2> HIDE DEF sender, receiver, debited
  <2> QED BY <1>3, <1>4, <1>6, <2>2, <2>3, <2>4 DEF debited, sender, receiver
<1>9. CASE tx.type \notin Transfers \cup {"stake"}
  <2>1. ExecuteFrom(tx, sender) = sender /\ ExecuteTo(tx, receiver) = receiver
    BY <1>9 DEF ExecuteFrom, ExecuteTo
  <2>2. Burned(tx) = 0 /\ Staked(tx) = 0
    BY <1>9 DEF Burned, Staked
  <2> HIDE DEF sender, receiver, debited
  <2> QED BY <1>3, <1>4, <1>6, <2>1, <2>2 DEF debited, sender, receiver
<1> QED BY <1>7, <1>8, <1>9

\* The number of stored accounts: it grows by the sender it did not know.
LEMMA RootCounts ==
  ASSUME NEW map \in AccountMap, NEW a \in Addr, NEW acc \in Account
  PROVE  /\ CurrentRoot(map) \in Nat /\ CurrentRoot(map) <= Cardinality(Addr)
         /\ CurrentRoot(SetAccount(map, a, acc))
               = CurrentRoot(map) + (IF map[a] = NoAccount THEN 1 ELSE 0)
<1> DEFINE Stored(m) == {b \in Addr : m[b] # NoAccount}
           new == SetAccount(map, a, acc)
<1>1. /\ IsFiniteSet(Stored(map)) /\ Cardinality(Stored(map)) \in Nat
      /\ Cardinality(Stored(map)) <= Cardinality(Addr)
  BY AddrAssumption, FS_Subset, FS_CardinalityType
<1>2. Stored(new) = Stored(map) \cup {a}
  BY NoAccountAssumption DEF SetAccount, AccountMap
<1>3. Cardinality(Stored(map) \cup {a}) = Cardinality(Stored(map)) + (IF map[a] = NoAccount THEN 1 ELSE 0)
  <2>1. a \in Stored(map) <=> map[a] # NoAccount
    OBVIOUS
  <2> HIDE DEF Stored
  <2>2. Cardinality(Stored(map) \cup {a})
           = IF a \in Stored(map) THEN Cardinality(Stored(map)) ELSE Cardinality(Stored(map)) + 1
    BY <1>1, FS_AddElement
  <2> QED BY <1>1, <2>1, <2>2
<1> QED BY <1>1, <1>2, <1>3 DEF CurrentRoot

\* The money that can ever be created fits a uint64.
SupplyFits == MaxGranted + InitialBalance * Cardinality(Addr) < Modulus

\* The book balances with the accounts as they are once both writes of the
\* call in progress have landed, and what was granted is bounded: a reward
\* only while there is room for it, an initial balance once per address.
BookOK ==
    /\ granted \in Nat /\ burned \in Nat /\ staked \in Nat
    /\ Total(LandedAccounts) + burned + staked = granted
    /\ granted <= MaxGranted + InitialBalance * CurrentRoot(LandedAccounts)
    /\ \A e \in Executors : pc[e] = "rewardSet" => granted + call[e].amount <= MaxGranted

LEMMA LandedType ==
  ASSUME SerialInv
  PROVE  LandedAccounts \in AccountMap
<1>1. accounts \in AccountMap
  BY DEF SerialInv, Inv, TypeOK
<1>2. ASSUME NEW e \in Executors, pc[e] = "setTo"
      PROVE  SetAccount(accounts, call[e].to, toAccount[e]) \in AccountMap
  <2>1. call[e] \in Transaction /\ toAccount[e] \in Account
    BY <1>2, CallTypes DEF SerialInv, Inv, TypeOK, CallOK, TxPC
  <2> QED BY <1>1, <2>1, TxTypes, SetAccountType
<1> QED BY <1>1, <1>2, Landed DEF SerialInv

\* Room for one more initial balance.
LEMMA GrantFits ==
  ASSUME NEW n \in Nat, NEW m \in Nat, NEW b \in Nat, n + 1 <= m
  PROVE  b * n + b <= b * m /\ b * n \in Nat /\ b * m \in Nat
<1>1. PICK k \in Nat : m = n + 1 + k
  <2>1. m - (n + 1) \in Nat /\ m = n + 1 + (m - (n + 1))
    OBVIOUS
  <2> QED BY <2>1
<1>2. b * m = b * n + b + b * k
  BY <1>1
<1>3. b * n \in Nat /\ b * k \in Nat
  OBVIOUS
<1> QED BY <1>2, <1>3

LEMMA SettleBook ==
  ASSUME PlainTransactions, SupplyFits, SerialInv, BookOK, NEW e \in Executors, SetFromBooked(e)
  PROVE  BookOK'
<1> DEFINE tx == call[e]
           from == GetSender(accounts, tx.from)
           grant == InitialGrant(accounts, tx.from)
           debited == SetAccount(accounts, tx.from, ExecuteFrom(tx, from))
<1>1. /\ tx \in Transaction
      /\ tx.from # tx.to /\ tx.type \notin {"migration", "unstake"}
      /\ CanExecute(tx, from)
      /\ LandedAccounts = accounts
      /\ LandedAccounts' = SetAccount(debited, tx.to, ExecuteTo(tx, GetOrNew(accounts, tx.to)))
  BY SetFromLands DEF SetFromBooked
<1>2. /\ accounts \in AccountMap /\ tx.from \in Addr /\ tx.to \in Addr
      /\ ExecuteFrom(tx, from) \in Account /\ ExecuteTo(tx, GetOrNew(accounts, tx.to)) \in Account
      /\ debited \in AccountMap
  <2>1. accounts \in AccountMap /\ tx.from \in Addr /\ tx.to \in Addr
    BY <1>1, TxTypes DEF SerialInv, Inv, TypeOK
  <2>2. ExecuteFrom(tx, from) \in Account /\ ExecuteTo(tx, GetOrNew(accounts, tx.to)) \in Account
    BY <1>1, <2>1, GetTypes, ExecuteTypes
  <2> QED BY <2>1, <2>2, SetAccountType
<1>3. /\ granted' = granted + grant /\ burned' = burned + Burned(tx)
      /\ staked' = staked + Staked(tx)
      /\ Burned(tx) \in Nat /\ Staked(tx) \in Nat /\ grant \in Nat
  BY <1>1, TxTypes, InitialBalanceAssumption, ModulusAssumption
  DEF SetFromBooked, Settle, InitialGrant, Burned, Staked, Uint64
<1>4. /\ Total(accounts) + burned + staked = granted
      /\ granted <= MaxGranted + InitialBalance * CurrentRoot(accounts)
      /\ granted \in Nat /\ burned \in Nat /\ staked \in Nat /\ Total(accounts) \in Nat
  BY <1>1, <1>2, HeldTypes DEF BookOK
<1> DEFINE n == CurrentRoot(accounts)
           n2 == CurrentRoot(LandedAccounts')
           new == IF accounts[tx.from] = NoAccount THEN 1 ELSE 0
<1>5. /\ n \in Nat /\ n + new <= n2 /\ n2 <= Cardinality(Addr) /\ n2 \in Nat /\ Cardinality(Addr) \in Nat
  <2>1. CurrentRoot(debited) = n + new /\ n \in Nat
    BY <1>2, RootCounts
  <2>2. CurrentRoot(debited) <= n2 /\ CurrentRoot(debited) \in Nat
    BY <1>1, <1>2, RootCounts
  <2>3. LandedAccounts' \in AccountMap
    BY <1>1, <1>2, SetAccountType
  <2>4. n2 \in Nat /\ n2 <= Cardinality(Addr)
    BY <1>2, <2>3, RootCounts
  <2>5. Cardinality(Addr) \in Nat
    BY AddrAssumption, FS_CardinalityType
  <2> HIDE DEF n, n2, new
  <2> QED BY <2>1, <2>2, <2>4, <2>5
<1>6. /\ granted + grant <= MaxGranted + InitialBalance * n2
      /\ granted + grant < Modulus
  <2>1. InitialBalance \in Nat /\ MaxGranted \in Nat /\ Modulus \in Nat
    BY InitialBalanceAssumption, ModulusAssumption, MaxGrantedAssumption
  <2>2. new \in {0, 1} /\ (new = 1 => grant = InitialBalance) /\ (new = 0 => grant = 0)
    BY DEF InitialGrant
  <2>3. granted <= MaxGranted + InitialBalance * n
    BY <1>4
  <2> DEFINE c == Cardinality(Addr)
  <2>4. MaxGranted + InitialBalance * c < Modulus
    BY DEF SupplyFits
  <2> HIDE DEF n, n2, new, grant, c
  <2>5. n2 = n \/ n + 1 <= n2
    BY <1>5, <2>2
  <2>6. n2 = c \/ n2 + 1 <= c
    BY <1>5 DEF c
  <2>7. InitialBalance * n2 <= InitialBalance * c /\ InitialBalance * n2 \in Nat /\ InitialBalance * c \in Nat
    <3>1. InitialBalance * n2 \in Nat /\ InitialBalance * c \in Nat
      BY <1>5, <2>1 DEF c
    <3>2. CASE n2 + 1 <= c
      BY <1>5, <2>1, <3>1, <3>2, GrantFits DEF c
    <3> QED BY <2>6, <3>1, <3>2
  <2>8. granted + grant <= MaxGranted + InitialBalance * n2
    <3>1. CASE n + 1 <= n2
      <4>1. InitialBalance * n + InitialBalance <= InitialBalance * n2 /\ InitialBalance * n \in Nat
        BY <1>5, <2>1, <3>1, GrantFits
      <4>2. grant <= InitialBalance /\ grant \in Nat
        BY <2>1, <2>2
      <4> QED BY <1>4, <2>1, <2>3, <2>7, <4>1, <4>2
    <3>2. CASE n2 = n
      <4>1. grant = 0
        BY <1>5, <2>2, <3>2
      <4> QED BY <1>4, <2>3, <3>2, <4>1
    <3> QED BY <2>5, <3>1, <3>2
  <2>9. granted + grant < Modulus
    BY <1>3, <1>4, <2>1, <2>4, <2>7, <2>8 DEF grant
  <2> QED BY <2>8, <2>9
<1>7. Total(accounts) + grant < Modulus
  BY <1>3, <1>4, <1>6, ModulusAssumption
<1>8. Total(LandedAccounts') = Total(accounts) + grant - Burned(tx) - Staked(tx)
  BY <1>1, <1>2, <1>7, ExecuteTotal
<1>9. \A f \in Executors : pc'[f] # "rewardSet"
  BY DEF SetFromBooked, SetFrom, SerialInv, Exclusive, Inv, TypeOK
<1> HIDE DEF tx, grant, n2
<1>10. Total(LandedAccounts') + burned' + staked' = granted'
  <2> DEFINE b == Burned(tx)
             st == Staked(tx)
             t == Total(accounts)
  <2>1. /\ b \in Nat /\ st \in Nat /\ t \in Nat /\ grant \in Nat
        /\ granted' = granted + grant /\ burned' = burned + b /\ staked' = staked + st
        /\ t + burned + staked = granted
        /\ Total(LandedAccounts') = t + grant - b - st
    BY <1>3, <1>4, <1>8
  <2> HIDE DEF b, st, t
  <2> QED BY <1>4, <2>1
<1> QED BY <1>3, <1>4, <1>6, <1>9, <1>10 DEF BookOK, n2

LEMMA RewardBook ==
  ASSUME SupplyFits, SerialInv, BookOK, NEW e \in Executors, RewardSetBooked(e)
  PROVE  BookOK'
<1> DEFINE r == call[e]
           old == GetOrNew(accounts, r.to)
           new == AddBalance(old, r.amount)
<1>1. /\ r.to \in Addr /\ r.amount \in Uint64
      /\ LandedAccounts = accounts /\ accounts \in AccountMap
      /\ LandedAccounts' = SetAccount(accounts, r.to, new)
  BY RewardLands, RewardTypes DEF RewardSetBooked, SerialInv, Inv, TypeOK
<1>2. old \in Account /\ new \in Account /\ r.amount \in Nat /\ old.Balance \in Nat
  BY <1>1, GetTypes, AddBalanceType, ModulusAssumption DEF Uint64, Account
<1>3. /\ granted' = granted + r.amount /\ UNCHANGED <<burned, staked>>
      /\ granted + r.amount <= MaxGranted /\ MaxGranted \in Nat /\ Modulus \in Nat
      /\ granted \in Nat /\ burned \in Nat /\ staked \in Nat
      /\ Total(accounts) + burned + staked = granted /\ Total(accounts) \in Nat
  BY <1>1, MaxGrantedAssumption, ModulusAssumption, HeldTypes
  DEF RewardSetBooked, RewardSet, BookOK
<1>4. old.Balance <= Total(accounts)
  <2>1. Total(accounts) = Held(accounts)[r.to] + SumOver(Held(accounts), Addr \ {r.to})
    BY <1>1, HeldTypes, AddrAssumption, SumOverStep DEF Total
  <2>2. IsFiniteSet(Addr \ {r.to}) /\ \A a \in Addr \ {r.to} : Held(accounts)[a] \in Nat
    BY <1>1, HeldTypes, AddrAssumption, FS_RemoveElement
  <2>3. SumOver(Held(accounts), Addr \ {r.to}) \in Nat
    BY <2>2, SumOverNat
  <2>4. Held(accounts)[r.to] = old.Balance
    BY <1>1, HeldTypes
  <2> HIDE DEF old
  <2> QED BY <1>2, <2>1, <2>3, <2>4
<1>5. InitialBalance * Cardinality(Addr) \in Nat /\ MaxGranted < Modulus
  <2>1. InitialBalance \in Nat /\ Cardinality(Addr) \in Nat
    BY AddrAssumption, FS_CardinalityType, InitialBalanceAssumption, ModulusAssumption
  <2>2. InitialBalance * Cardinality(Addr) \in Nat
    BY <2>1
  <2> QED BY <1>3, <2>2 DEF SupplyFits
<1>6. new.Balance = old.Balance + r.amount
  <2> DEFINE sum == old.Balance + r.amount
  <2> HIDE DEF old
  <2>1. sum \in 0 .. (Modulus - 1) /\ Modulus > 0
    BY <1>2, <1>3, <1>4, <1>5, ModulusAssumption
  <2> HIDE DEF sum
  <2>2. sum % Modulus = sum
    BY <1>3, <2>1, ModSmall
  <2> QED BY <1>2, <2>2 DEF sum, AddBalance, Account
<1>7. Total(LandedAccounts') = Total(accounts) + (new.Balance - old.Balance)
  BY <1>1, <1>2, SetAccountTotal
<1>8. Total(LandedAccounts') + burned' + staked' = granted'
  <2> HIDE DEF old, new, r
  <2> QED BY <1>2, <1>3, <1>6, <1>7
<1>9. InitialBalance * CurrentRoot(LandedAccounts)' \in Nat
  <2>1. LandedAccounts' \in AccountMap
    BY <1>1, <1>2, SetAccountType
  <2>2. CurrentRoot(LandedAccounts') \in Nat
    BY <1>1, <1>2, <2>1, RootCounts
  <2>3. InitialBalance \in Nat
    BY InitialBalanceAssumption, ModulusAssumption
  <2> QED BY <2>2, <2>3 DEF CurrentRoot
<1>10. \A f \in Executors : pc'[f] # "rewardSet"
  BY DEF RewardSetBooked, RewardSet, Return, SerialInv, Exclusive, Inv, TypeOK
<1> QED BY <1>2, <1>3, <1>8, <1>9, <1>10 DEF BookOK, CurrentRoot

LEMMA UnbookedKeepsBook ==
  ASSUME PlainTransactions, Guarded = Executors, SerialInv, BookOK, NEW e \in Executors,
         Unbooked(e), UNCHANGED bookVars
  PROVE  BookOK'
<1>1. Step(e) /\ ~ SetFrom(e) /\ ~ RewardSet(e)
  BY DEF Unbooked, Step, SetFrom, RewardSet, GetFrom, GetTo, ExecuteFails, MigrateSet, UnstakeGet,
         UnstakeSet, SetTo, RewardGet
<1>2. LandedAccounts' = LandedAccounts
  BY <1>1, OthersLandNothing
<1>3. ASSUME NEW f \in Executors, pc'[f] = "rewardSet"
      PROVE  granted + call'[f].amount <= MaxGranted
  <2>1. CASE \E r \in Rewards : granted + r.amount <= MaxGranted /\ RewardGet(e, r)
    <3> PICK r \in Rewards : granted + r.amount <= MaxGranted /\ RewardGet(e, r)
      BY <2>1
    <3>1. f = e => call'[f] = r
      BY DEF RewardGet, SerialInv, Inv, TypeOK
    <3>2. f # e => pc[f] = "rewardSet" /\ call'[f] = call[f]
      BY <1>3 DEF RewardGet, SerialInv, Inv, TypeOK
    <3> QED BY <3>1, <3>2 DEF BookOK
  <2>2. CASE \/ \E tx \in Txs : GetFrom(e, tx)
             \/ GetTo(e) \/ ExecuteFails(e) \/ MigrateSet(e)
             \/ UnstakeGet(e) \/ UnstakeSet(e) \/ SetTo(e)
    <3>1. GetTo(e) => AfterExecute(call[e]) # "rewardSet"
      <4> SUFFICES ASSUME GetTo(e) PROVE AfterExecute(call[e]) # "rewardSet"
        OBVIOUS
      <4>1. call[e] \in Txs
        BY DEF GetTo, SerialInv, Inv, CallOK, TxPC
      <4> QED BY <4>1, AfterExecuteType
    <3>2. pc[f] = "rewardSet" /\ call'[f] = call[f]
      BY <1>3, <2>2, <3>1
      DEF GetFrom, GetTo, ExecuteFails, MigrateSet, UnstakeGet, UnstakeSet, SetTo,
          Return, SerialInv, Inv, TypeOK
    <3> QED BY <3>2 DEF BookOK
  <2> QED BY <2>1, <2>2 DEF Unbooked
<1>4. CurrentRoot(LandedAccounts)' = CurrentRoot(LandedAccounts) /\ Total(LandedAccounts)' = Total(LandedAccounts)
  BY <1>2 DEF CurrentRoot, Total, Held, GetOrNew
<1> QED BY <1>3, <1>4 DEF BookOK, bookVars

\* When every executor runs under chainMutex, and no transaction pays its own
\* sender, migrates or unstakes, the balances, the fees burned and the stakes
\* always add up to the initial balances and rewards: however often
\* transactions are replayed and whichever fail, for every number of
\* addresses and executors and every word size that holds the supply.
THEOREM ConservationCorrect ==
  ASSUME PlainTransactions, Guarded = Executors, SupplyFits
  PROVE  BookSpec => []Conservation
<1> DEFINE BookInv == SerialInv /\ BookOK
<1>1. BookInit => BookInv
  <2> SUFFICES ASSUME BookInit PROVE BookOK
    BY InitSerial DEF BookInit
  <2>1. accounts = EmptyAccounts /\ LandedAccounts = EmptyAccounts
    BY DEF BookInit, Init, LandedAccounts
  <2>2. EmptyAccounts \in AccountMap
    BY DEF EmptyAccounts, AccountMap
  <2>3. Total(EmptyAccounts) = 0
    <3>1. \A a \in Addr : Held(EmptyAccounts)[a] = 0
      BY DEF Held, GetOrNew, EmptyAccounts, NewAccount
    <3> QED BY <3>1, AddrAssumption, SumOverZero DEF Total
  <2>4. InitialBalance * CurrentRoot(EmptyAccounts) \in Nat
    <3>1. IsFiniteSet({a \in Addr : EmptyAccounts[a] # NoAccount})
      BY AddrAssumption, FS_Subset
    <3>2. CurrentRoot(EmptyAccounts) \in Nat
      BY <3>1, FS_CardinalityType DEF CurrentRoot
    <3>3. InitialBalance \in Nat
      BY InitialBalanceAssumption, ModulusAssumption
    <3> QED BY <3>2, <3>3
  <2> QED BY <2>1, <2>3, <2>4, MaxGrantedAssumption DEF BookInit, Init, BookOK
<1>2. BookInv /\ [BookNext]_<<vars, bookVars>> => BookInv'
  <2> SUFFICES ASSUME BookInv, [BookNext]_<<vars, bookVars>> PROVE BookInv'
    OBVIOUS
  <2>1. CASE UNCHANGED <<vars, bookVars>>
    BY <2>1, NextSerial
    DEF vars, bookVars, BookOK, LandedAccounts, Total, Held, CurrentRoot
  <2>2. CASE BookNext
    <3> PICK e \in Executors :
           SetFromBooked(e) \/ RewardSetBooked(e) \/ (Unbooked(e) /\ UNCHANGED bookVars)
      BY <2>2 DEF BookNext
    <3>1. Next
      BY DEF Next, Step, SetFromBooked, RewardSetBooked, Unbooked
    <3>2. SerialInv'
      BY <3>1, NextSerial
    <3>3. BookOK'
      BY SettleBook, RewardBook, UnbookedKeepsBook
    <3> QED BY <3>2, <3>3
  <2> QED BY <2>1, <2>2
<1>3. BookInv => Conservation
  <2> SUFFICES ASSUME BookInv, Quiescent PROVE Balances + burned + staked = granted
    BY DEF Conservation
  <2>1. LandedAccounts = accounts
    BY DEF Quiescent, LandedAccounts
  <2> QED BY <2>1, BalancesIsTotal DEF BookOK
<1> QED BY <1>1, <1>2, <1>3, PTL DEF BookSpec

=============================================================================

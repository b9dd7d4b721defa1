------------------------------ MODULE Accounts ------------------------------
(***************************************************************************)
(* Accounts and the in-memory state database they live in:                 *)
(* pkg/state/types.go and pkg/state/memory.go, with the transaction format *)
(* of pkg/consensus as far as the executor reads it.  Only definitions, no *)
(* state: TransactionExecutor and BlockChain share them.                   *)
(*                                                                         *)
(* CodeHash and StorageRoot are always empty in this code base (nothing    *)
(* writes them) and LastUpdated is never read, so an account is a nonce    *)
(* and a balance.                                                          *)
(***************************************************************************)
EXTENDS Integers, FiniteSets

CONSTANTS
    Addr,            \* IPv6 addresses
    NoAccount,       \* the nil account of a missing map entry
    Modulus,         \* 2^64: the arithmetic of uint64 balances
    InitialBalance   \* what an unknown sender starts with (10000000000000)

ASSUME AddrAssumption == IsFiniteSet(Addr)
ASSUME ModulusAssumption == Modulus \in Nat /\ Modulus > 1
ASSUME InitialBalanceAssumption == InitialBalance \in 0 .. (Modulus - 1)

Uint64 == 0 .. (Modulus - 1)

Account == [Nonce : Uint64, Balance : Uint64]

ASSUME NoAccountAssumption == NoAccount \notin Account

NewAccount == [Nonce |-> 0, Balance |-> 0]

\* Mutant: the addition is not that of a uint64.
AddBalanceUnbounded(account, amount) ==
    [account EXCEPT !.Balance = account.Balance + amount]

AddBalance(account, amount) ==
    [account EXCEPT !.Balance = (account.Balance + amount) % Modulus]

\* The error of an overdraft leaves the account alone; the callers drop it.
SubBalance(account, amount) ==
    IF account.Balance < amount
    THEN account
    ELSE [account EXCEPT !.Balance = account.Balance - amount]

-----------------------------------------------------------------------------
(* The map from addresses to accounts.                                     *)

AccountMap == [Addr -> Account \cup {NoAccount}]

EmptyAccounts == [a \in Addr |-> NoAccount]

\* Mutant: an account without balance is dropped from the map.
SetAccountPruning(accounts, a, account) ==
    [accounts EXCEPT ![a] = IF account.Balance = 0 THEN NoAccount ELSE account]

SetAccount(accounts, a, account) == [accounts EXCEPT ![a] = account]

\* GetAccount of the destination, and of the coinbase: nil becomes NewAccount().
GetOrNew(accounts, a) ==
    IF accounts[a] = NoAccount THEN NewAccount ELSE accounts[a]

\* GetAccount of the sender: nil becomes an account with the initial balance.
GetSender(accounts, a) ==
    IF accounts[a] = NoAccount
    THEN [NewAccount EXCEPT !.Balance = InitialBalance]
    ELSE accounts[a]

\* updateRootHash: the 32 bytes hold the number of accounts and nothing else.
CurrentRoot(accounts) == Cardinality({a \in Addr : accounts[a] # NoAccount})

-----------------------------------------------------------------------------
(* Transactions.                                                           *)

TxType == {"online", "offline", "migration", "stake", "unstake",
           "governance", "vote", "unsupported"}

Transaction == [type : TxType, from : Addr, to : Addr,
                amount : Uint64, fee : Uint64, nonce : Uint64, data : BOOLEAN]

\* TransactionExecutor.ValidateTransaction; addresses are 16 bytes by
\* construction here, the data limit of 1 MB is abstracted to "has data".
ValidateTransaction(tx) ==
    /\ tx.amount > 0
    /\ tx.fee > 0 \/ tx.type = "online"

Transfers == {"online", "offline"}

\* Mutant: the balance need not cover the fee.
CanExecuteWithoutFee(tx, fromAccount) ==
    \/ tx.type \in Transfers \cup {"stake"} /\ fromAccount.Balance >= tx.amount
    \/ tx.type = "governance" /\ tx.data
    \/ tx.type \in {"migration", "unstake", "vote"}

\* The balance check and the error paths of the execute* handlers.
CanExecute(tx, fromAccount) ==
    \/ tx.type \in Transfers /\ fromAccount.Balance >= tx.amount + tx.fee
    \/ tx.type = "stake" /\ fromAccount.Balance >= tx.amount
    \/ tx.type = "governance" /\ tx.data
    \/ tx.type \in {"migration", "unstake", "vote"}

\* What the execute* handlers do to the transition's copy of the sender ...
ExecuteFrom(tx, fromAccount) ==
    CASE tx.type \in Transfers -> SubBalance(fromAccount, tx.amount + tx.fee)
      [] tx.type = "stake"     -> SubBalance(fromAccount, tx.amount)
      [] tx.type = "migration" -> [fromAccount EXCEPT !.Balance = 0]
      [] OTHER                 -> fromAccount

\* ... and to its copy of the destination.  Migration and unstaking do not
\* touch this copy: they write the database instead.
ExecuteTo(tx, toAccount) ==
    IF tx.type \in Transfers THEN AddBalance(toAccount, tx.amount) ELSE toAccount

\* The account executeMigration stores at the destination.
MigratedAccount(fromAccount) == [NewAccount EXCEPT !.Balance = fromAccount.Balance]

-----------------------------------------------------------------------------
(* ExecuteTransaction as one step, for the modules whose interest is not   *)
(* in its separate database accesses.  The account a migration or an       *)
(* unstake stores on the way is overwritten by the last SetAccount.        *)

ExecuteSucceeds(accounts, tx) ==
    LET from == GetSender(accounts, tx.from)
    IN  /\ tx.nonce = from.Nonce
        /\ ValidateTransaction(tx)
        /\ CanExecute(tx, from)

ExecuteTransaction(accounts, tx) ==
    LET from == GetSender(accounts, tx.from)
        to   == GetOrNew(accounts, tx.to)
    IN  SetAccount(SetAccount(accounts, tx.from, ExecuteFrom(tx, from)),
                   tx.to, ExecuteTo(tx, to))

=============================================================================

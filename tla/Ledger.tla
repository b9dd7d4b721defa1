------------------------------- MODULE Ledger -------------------------------
(***************************************************************************)
(* What executing transactions promises: every transaction that succeeds   *)
(* takes effect in one step, a transfer debits amount plus fee and credits *)
(* the amount, a migration moves the whole balance, an unstake credits the *)
(* destination.  TransactionExecutor is checked against this               *)
(* specification.                                                          *)
(***************************************************************************)
EXTENDS Accounts

CONSTANTS Txs,      \* the transactions that are ever executed
          Rewards   \* the block rewards: records [to, amount]

VARIABLE ledger     \* what every address owns

LedgerInit == ledger = EmptyAccounts

\* tx is valid on the ledger and its sender can pay for it.
Executable(tx) ==
    LET from == GetSender(ledger, tx.from)
    IN  /\ tx.nonce = from.Nonce
        /\ ValidateTransaction(tx)
        /\ CanExecute(tx, from)

\* The sender pays, and only then is the destination's account looked up.
Debited(tx) ==
    SetAccount(ledger, tx.from, ExecuteFrom(tx, GetSender(ledger, tx.from)))

\* What the destination owns once tx is executed.
Credited(tx, to, moved) ==
    CASE tx.type = "migration" -> AddBalance(to, moved)
      [] tx.type = "unstake"   -> AddBalance(to, tx.amount)
      [] OTHER                 -> ExecuteTo(tx, to)

Execute(tx) ==
    /\ Executable(tx)
    /\ LET debited == Debited(tx)
           moved   == GetSender(ledger, tx.from).Balance
       IN  ledger' = SetAccount(debited, tx.to,
                                Credited(tx, GetOrNew(debited, tx.to), moved))

Reward(r) ==
    ledger' = SetAccount(ledger, r.to, AddBalance(GetOrNew(ledger, r.to), r.amount))

LedgerNext ==
    \/ \E tx \in Txs : Execute(tx)
    \/ \E r \in Rewards : Reward(r)

LedgerSpec == LedgerInit /\ [][LedgerNext]_ledger

=============================================================================

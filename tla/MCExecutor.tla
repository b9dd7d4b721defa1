----------------------------- MODULE MCExecutor -----------------------------
(* Transaction sets for the runs of TransactionExecutor and ExecutorBook.  *)
EXTENDS TransactionExecutor

CONSTANTS A, B, C   \* addresses

Tx(type, from, to, amount, fee, nonce, data) ==
    [type |-> type, from |-> from, to |-> to, amount |-> amount, fee |-> fee,
     nonce |-> nonce, data |-> data]

\* Transfers that cross, a zero-fee online one, a stake, a proposal with and
\* without data, a vote, an unsupported type, a wrong nonce, a missing fee.
PlainTxs ==
    {Tx("online", A, B, 2, 0, 0, FALSE), Tx("offline", B, A, 1, 1, 0, FALSE),
     Tx("online", B, C, 2, 1, 0, FALSE), Tx("stake", A, C, 2, 1, 0, FALSE),
     Tx("governance", A, B, 1, 1, 0, TRUE), Tx("governance", B, A, 1, 1, 0, FALSE),
     Tx("vote", C, A, 1, 1, 0, FALSE), Tx("unsupported", A, B, 1, 1, 0, FALSE),
     Tx("online", A, C, 1, 0, 1, FALSE), Tx("offline", A, C, 1, 0, 0, FALSE)}

\* A payment, a payment to oneself, a migration and an unstake: every way the
\* handlers write the database.
WritingTxs ==
    {Tx("online", A, B, 2, 1, 0, FALSE), Tx("online", B, B, 1, 0, 0, FALSE),
     Tx("migration", A, B, 1, 1, 0, FALSE), Tx("unstake", B, A, 3, 1, 0, FALSE)}

CrossTxs == {Tx("online", A, B, 2, 1, 0, FALSE), Tx("online", B, A, 1, 1, 0, FALSE)}

RewardsToC == {[to |-> C, amount |-> 2]}
RewardsToB == {[to |-> B, amount |-> 3]}
NoRewards  == {}

=============================================================================

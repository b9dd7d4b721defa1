---------------------------- MODULE ExecutorBook ----------------------------
(***************************************************************************)
(* TransactionExecutor with the book an auditor would keep beside it: the  *)
(* money created by initial balances and rewards, the fees burned, the     *)
(* amounts staked, and which transactions have been executed.  The book is *)
(* history only: no action of the executor reads it.                       *)
(***************************************************************************)
EXTENDS TransactionExecutor, FiniteSetsExt

CONSTANT MaxGranted   \* bound on the money ever created, to keep runs finite

ASSUME MaxGrantedAssumption == MaxGranted \in Nat

VARIABLES granted, burned, staked, executed, replayed

bookVars == <<granted, burned, staked, executed, replayed>>

BookInit ==
    /\ Init
    /\ granted = 0
    /\ burned = 0
    /\ staked = 0
    /\ executed = {}
    /\ replayed = {}

\* The first write of a successful call settles it in the book.
Settle(e) ==
    LET tx == call[e]
    IN  /\ granted' = granted + (IF accounts[tx.from] = NoAccount
                                 THEN InitialBalance ELSE 0)
        /\ burned' = burned + (IF tx.type \in Transfers THEN tx.fee ELSE 0)
        /\ staked' = staked + (IF tx.type = "stake" THEN tx.amount ELSE 0)
        /\ executed' = executed \cup {tx}
        /\ replayed' = IF tx \in executed THEN replayed \cup {tx} ELSE replayed

SetFromBooked(e) == SetFrom(e) /\ Settle(e)

RewardSetBooked(e) ==
    /\ RewardSet(e)
    /\ granted' = granted + call[e].amount
    /\ UNCHANGED <<burned, staked, executed, replayed>>

Unbooked(e) ==
    \/ \E tx \in Txs : GetFrom(e, tx)
    \/ GetTo(e)
    \/ ExecuteFails(e)
    \/ MigrateSet(e)
    \/ UnstakeGet(e)
    \/ UnstakeSet(e)
    \/ SetTo(e)
    \/ \E r \in Rewards : granted + r.amount <= MaxGranted /\ RewardGet(e, r)

BookNext ==
    \E e \in Executors :
        \/ SetFromBooked(e)
        \/ RewardSetBooked(e)
        \/ Unbooked(e) /\ UNCHANGED bookVars

BookSpec == BookInit /\ [][BookNext]_<<vars, bookVars>>

-----------------------------------------------------------------------------
(* Properties.                                                             *)

Quiescent == \A e \in Executors : pc[e] = "idle"

Balances ==
    MapThenSumSet(LAMBDA a : GetOrNew(accounts, a).Balance, Addr)

\* Between calls, what the accounts hold together with the fees burned and
\* the amounts staked is exactly what initial balances and rewards created:
\* no execution, however its reads and writes fall, makes or loses money.
Conservation == Quiescent => Balances + burned + staked = granted

\* No transaction is executed a second time: the nonce check of
\* ExecuteTransaction is there to refuse the replay.
NoReplay == replayed = {}

=============================================================================

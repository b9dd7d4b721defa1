----------------------------- MODULE ChainAudit -----------------------------
(***************************************************************************)
(* BlockChain with two history variables, and the properties of AddBlock.  *)
(*   refused   blocks that are stored although their AddBlock failed;      *)
(*   tainted   the state holds the effects of a transaction that is not on *)
(*             the main chain, or holds an effect twice.                   *)
(***************************************************************************)
EXTENDS BlockChain, SequencesExt

VARIABLES refused, tainted

auditVars == <<refused, tainted>>

AuditInit == Init /\ refused = {} /\ tainted = FALSE

\* Steps that execute nothing outside the main chain.
OnMainChain ==
    /\ \/ \E b \in Block : BeginAdd(b)
       \/ ExecuteTx
       \/ ExtendHead
       \/ \E next \in Block : ReorgNextBlock(next)
       \/ EndReorg
       \/ Tick
    /\ UNCHANGED auditVars

\* The state keeps transactions of a block that did not become the head.
OffMainChain ==
    /\ StateRootMismatch \/ AddToSideBranch
    /\ tainted' = (tainted \/ BlockTxs[adding] # <<>>)
    /\ UNCHANGED refused

Fails ==
    /\ ExecuteTxFails
    /\ tainted' = (tainted \/ pos > 1)
    /\ refused' = IF phase = "reorg" THEN refused \cup {adding} ELSE refused

\* The abandoned branch is not rolled back.  There is no case for
\* KeepCurrentChain: by ForkAlwaysDecided it is never enabled while the head
\* is set by AddBlock alone, and AddBlockReturns would fail if it were.
Switches ==
    /\ \E forkPoint, first \in Block : BeginReorg(forkPoint, first)
    /\ tainted' = TRUE
    /\ UNCHANGED refused

AuditNext == OnMainChain \/ OffMainChain \/ Fails \/ Switches

AuditSpec ==
    /\ AuditInit
    /\ [][AuditNext]_<<vars, auditVars>>
    /\ WF_vars(AddBlockStep /\ AuditNext)

-----------------------------------------------------------------------------
(* Properties.                                                             *)

\* The head is stored and of the greatest height: AddBlock misses a longer
\* branch only when the reorganisation to it failed on a transaction, which
\* leaves the new block stored and refused.
HeadIsLongest ==
    /\ chainHead \in blocks
    /\ \A b \in blocks \ {adding} : Longer(b) => b \in refused

\* Whenever AddBlock has to choose between two branches, selectBestChain
\* finds their fork point and judges the new branch more difficult, so its
\* two other outcomes (ErrForkDetected, keep the current chain) are dead.
ForkAlwaysDecided ==
    (Executed /\ StateRootMatches(adding) /\ Longer(adding) /\ Prev(adding) # chainHead)
    => \E forkPoint \in Block :
          /\ IsForkPoint(blocks \cup {adding}, adding, forkPoint)
          /\ MoreDifficult(forkPoint)

\* The next transaction of a block, if it can be executed.
ExecuteNext(accts, tx) ==
    IF ExecuteSucceeds(accts, tx) THEN ExecuteTransaction(accts, tx) ELSE accts

ExecuteAll(accts, txs) == FoldLeft(ExecuteNext, accts, txs)

\* The accounts after executing the branch that ends with b.  The genesis
\* block has no parent, and NewBlockChain executes nothing of it.
StateAfter(b) ==
    LET after[x \in Block] ==
            IF Prev(x) \in Block /\ Height(x) = Height(Prev(x)) + 1
            THEN ExecuteAll(after[Prev(x)], BlockTxs[x])
            ELSE EmptyAccounts
    IN  after[b]

MainChainState == accounts = StateAfter(chainHead)

\* As long as every AddBlock extended the head or failed before it executed
\* anything, the state database holds the result of executing the main chain.
CleanState == (adding = NoBlock /\ ~ tainted) => MainChainState

\* AddBlock returns: the walks end, no step is missing and chainMutex is
\* released whatever fails.
AddBlockReturns == adding # NoBlock ~> adding = NoBlock

=============================================================================

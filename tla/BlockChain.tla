----------------------------- MODULE BlockChain -----------------------------
(***************************************************************************)
(* pkg/blockchain/chain.go: the block tree, its head, and AddBlock.        *)
(*                                                                         *)
(* AddBlock holds chainMutex from its first line to its last, so at most   *)
(* one call is past its checks: the block it adds is the variable adding.  *)
(* It is split into steps all the same, one per transaction executed,      *)
(* because the state database is shared with ExecuteBlock, which takes no  *)
(* chain lock (see Node), and because an AddBlock that fails leaves behind *)
(* what it has done so far: rollbackState is a placeholder.                *)
(*                                                                         *)
(* A block is its hash.  Header and BlockTxs give the content the hash     *)
(* stands for; the empty PrevBlockHash of the genesis block is NoBlock.    *)
(* The reward distributor of AddBlock is nil in cmd/node/main.go.          *)
(***************************************************************************)
EXTENDS Accounts, Sequences

CONSTANTS
    Block,       \* the hashes of all blocks there may be
    NoBlock,     \* no block: the empty hash, the nil pointer
    Genesis,     \* the genesis block
    Header,      \* the header of every block
    BlockTxs,    \* its transactions
    MaxHeight,   \* bound on block heights
    MaxTime,     \* bound on the clock
    Drift        \* how far ahead of the clock a timestamp may be (30 s)

Heights == 0 .. MaxHeight

\* wellFormed stands for the version, the Merkle root and the version,
\* addresses and signature lengths of the transactions.  A state root is the
\* number of accounts it commits to; NilRoot is an empty one.
NilRoot == -1

HeaderType == [prev : Block \cup {NoBlock}, height : Heights, timestamp : Nat,
               stateRoot : Nat \cup {NilRoot}, wellFormed : BOOLEAN]

ASSUME NoBlockAssumption == NoBlock \notin Block
ASSUME GenesisAssumption ==
    Genesis \in Block /\ Header[Genesis].height = 0 /\ Header[Genesis].prev = NoBlock
ASSUME BoundsAssumption == MaxHeight \in Nat /\ MaxTime \in Nat /\ Drift \in Nat
ASSUME HeaderAssumption == Header \in [Block -> HeaderType]
ASSUME BlockTxsAssumption == BlockTxs \in [Block -> Seq(Transaction)]

Prev(b)   == Header[b].prev
Height(b) == Header[b].height

VARIABLES
    blocks,     \* the keys of BlockChain.blocks
    heightMap,  \* BlockChain.heightMap: the blocks of each height, in order
    chainHead,  \* BlockChain.chainHead
    accounts,   \* the accounts of BlockChain.stateDB
    now,        \* the wall clock
    adding,     \* the block of the AddBlock that holds chainMutex, or NoBlock
    phase,      \* whether it executes the block or a reorganisation
    at, pos     \* the block and the transaction it executes next

chainVars == <<blocks, heightMap, chainHead>>
callVars == <<adding, phase, at, pos>>
vars == <<chainVars, accounts, now, callVars>>

Phase == {"execute", "reorg"}

TypeOK ==
    /\ blocks \subseteq Block
    /\ heightMap \in [Heights -> Seq(Block)]
    /\ chainHead \in Block
    /\ accounts \in AccountMap
    /\ now \in 0 .. MaxTime
    /\ adding \in Block \cup {NoBlock}
    /\ phase \in Phase
    /\ at \in Block
    /\ pos \in Nat \ {0}

\* NewBlockChain: the genesis block is stored unchecked.
Init ==
    /\ blocks = {Genesis}
    /\ heightMap = [h \in Heights |-> IF h = 0 THEN <<Genesis>> ELSE <<>>]
    /\ chainHead = Genesis
    /\ accounts = EmptyAccounts
    /\ now = 0
    /\ adding = NoBlock
    /\ phase = "execute"
    /\ at = Genesis
    /\ pos = 1

-----------------------------------------------------------------------------
(* Walks through the tree: for current != nil { ...; current =             *)
(* bc.blocks[current.Header.PrevBlockHash] }.  stored is the set of keys   *)
(* of bc.blocks at the time of the walk.                                   *)

\* The blocks such a walk meets from b on.
Ancestors(stored, b) ==
    LET walk[x \in Block] ==
            {x} \cup (IF Prev(x) \in stored THEN walk[Prev(x)] ELSE {})
    IN  walk[b]

\* Of the blocks S that a walk meets, x is the one it meets first.
FirstMet(stored, S, x) == x \in S /\ S \subseteq Ancestors(stored, x)

\* findForkPoint: the walk from b returns the first block that is stored and
\* in the current chain.
ForkPoints(stored, b) == Ancestors(stored, b) \cap stored \cap Ancestors(stored, chainHead)

IsForkPoint(stored, b, x) == FirstMet(stored, ForkPoints(stored, b), x)

\* A walk from b that stops at the first block below startHeight.  Heights
\* grow along the links of stored blocks; b itself need not be stored.
WalkDownTo(stored, b, startHeight) ==
    IF Height(b) < startHeight
    THEN {}
    ELSE {x \in Ancestors(stored, b) : Height(x) >= startHeight}

calculateChainDifficulty(stored, b, startHeight) ==
    Cardinality(WalkDownTo(stored, b, startHeight))

\* getBlocksFromFork: the walk from b stops at the fork point.
BlocksFromFork(stored, forkPoint, b) ==
    Ancestors(stored, b) \ Ancestors(stored, forkPoint)

-----------------------------------------------------------------------------
(* AddBlock.                                                               *)

\* Mutant: the height is not compared with the parent's.
ValidateBlockAnyHeight(b, parent) ==
    /\ Header[b].wellFormed
    /\ Header[b].timestamp > Header[parent].timestamp
    /\ Header[b].timestamp <= now + Drift

\* BlockValidator.ValidateBlock (and ValidateTransaction on every
\* transaction, which AddBlock repeats with the same result).
ValidateBlock(b, parent) ==
    /\ Header[b].wellFormed
    /\ Height(b) = Height(parent) + 1
    /\ Header[b].timestamp > Header[parent].timestamp
    /\ Header[b].timestamp <= now + Drift
    /\ \A i \in 1 .. Len(BlockTxs[b]) : BlockTxs[b][i].amount > 0

\* Mutant: the parent need not be stored.
AcceptableOrphan(b) ==
    /\ b \notin blocks
    /\ Prev(b) \in Block
    /\ ValidateBlock(b, Prev(b))

Acceptable(b) ==
    /\ b \notin blocks
    /\ Prev(b) \in blocks
    /\ ValidateBlock(b, Prev(b))

\* Mutant: transactions are counted from 0.
BeginAddAtZero(b) ==
    /\ adding = NoBlock
    /\ Acceptable(b)
    /\ adding' = b
    /\ phase' = "execute"
    /\ at' = b
    /\ pos' = 0
    /\ UNCHANGED <<chainVars, accounts, now>>

\* The checks succeed.  An AddBlock that fails one returns with nothing
\* changed.
BeginAdd(b) ==
    /\ adding = NoBlock
    /\ Acceptable(b)
    /\ adding' = b
    /\ phase' = "execute"
    /\ at' = b
    /\ pos' = 1
    /\ UNCHANGED <<chainVars, accounts, now>>

\* AddBlock returns and releases chainMutex.
ReleaseMutex ==
    /\ adding' = NoBlock
    /\ phase' = "execute"
    /\ at' = Genesis
    /\ pos' = 1

MoreTxs == pos <= Len(BlockTxs[at])

\* Mutant: the transaction is executed a second time.
ExecuteTxTwice ==
    /\ adding # NoBlock
    /\ MoreTxs
    /\ ExecuteSucceeds(accounts, BlockTxs[at][pos])
    /\ LET once == ExecuteTransaction(accounts, BlockTxs[at][pos])
       IN  accounts' = ExecuteTransaction(once, BlockTxs[at][pos])
    /\ pos' = pos + 1
    /\ UNCHANGED <<chainVars, now, adding, phase, at>>

\* One transaction, of the new block or of a reorganisation, is executed.
ExecuteTx ==
    /\ adding # NoBlock
    /\ MoreTxs
    /\ ExecuteSucceeds(accounts, BlockTxs[at][pos])
    /\ accounts' = ExecuteTransaction(accounts, BlockTxs[at][pos])
    /\ pos' = pos + 1
    /\ UNCHANGED <<chainVars, now, adding, phase, at>>

\* A transaction fails: AddBlock returns the error.  What earlier
\* transactions did stays, and in a reorganisation so does the new block.
ExecuteTxFails ==
    /\ adding # NoBlock
    /\ MoreTxs
    /\ ~ ExecuteSucceeds(accounts, BlockTxs[at][pos])
    /\ ReleaseMutex
    /\ UNCHANGED <<chainVars, accounts, now>>

Executed == adding # NoBlock /\ phase = "execute" /\ ~ MoreTxs

StateRootMatches(b) == Header[b].stateRoot = CurrentRoot(accounts)

StateRootMismatch ==
    /\ Executed
    /\ ~ StateRootMatches(adding)
    /\ ReleaseMutex
    /\ UNCHANGED <<chainVars, accounts, now>>

\* Mutant: the height index keeps one block per height.
InsertOverwriting(b) ==
    /\ blocks' = blocks \cup {b}
    /\ heightMap' = [heightMap EXCEPT ![Height(b)] = <<b>>]

\* The block enters the map and the height index.
Insert(b) ==
    /\ blocks' = blocks \cup {b}
    /\ heightMap' = [heightMap EXCEPT ![Height(b)] = Append(heightMap[Height(b)], b)]

Longer(b) == Height(b) > Height(chainHead)

\* Mutant: the head moves without regard to height.
AddToSideBranchAsHead ==
    /\ Executed
    /\ StateRootMatches(adding)
    /\ ~ Longer(adding)
    /\ Insert(adding)
    /\ chainHead' = adding
    /\ ReleaseMutex
    /\ UNCHANGED <<accounts, now>>

\* The new block is not above the head: it is stored, its transactions stay
\* executed, and the head stays.
AddToSideBranch ==
    /\ Executed
    /\ StateRootMatches(adding)
    /\ ~ Longer(adding)
    /\ Insert(adding)
    /\ ReleaseMutex
    /\ UNCHANGED <<chainHead, accounts, now>>

\* Mutant: the head is not updated.
ExtendHeadStale ==
    /\ Executed
    /\ StateRootMatches(adding)
    /\ Longer(adding)
    /\ Prev(adding) = chainHead
    /\ Insert(adding)
    /\ ReleaseMutex
    /\ UNCHANGED <<chainHead, accounts, now>>

\* The new block extends the head.
ExtendHead ==
    /\ Executed
    /\ StateRootMatches(adding)
    /\ Longer(adding)
    /\ Prev(adding) = chainHead
    /\ Insert(adding)
    /\ chainHead' = adding
    /\ ReleaseMutex
    /\ UNCHANGED <<accounts, now>>

\* The new block is above the head on another branch: selectBestChain, with
\* the block stored already, looks for the fork point.
SelectBestChain(forkPoint) ==
    /\ Executed
    /\ StateRootMatches(adding)
    /\ Longer(adding)
    /\ Prev(adding) # chainHead
    /\ IsForkPoint(blocks \cup {adding}, adding, forkPoint)
    /\ Insert(adding)

\* Mutant: the new branch needs a lead of two.
MoreDifficultByTwo(forkPoint) ==
    LET stored == blocks \cup {adding}
    IN  calculateChainDifficulty(stored, adding, Height(forkPoint))
            > calculateChainDifficulty(stored, chainHead, Height(forkPoint)) + 1

MoreDifficult(forkPoint) ==
    LET stored == blocks \cup {adding}
    IN  calculateChainDifficulty(stored, adding, Height(forkPoint))
            > calculateChainDifficulty(stored, chainHead, Height(forkPoint))

\* The other branch has more work: reorgToNewChain rolls nothing back and
\* starts to execute the branch, the new block included.
BeginReorg(forkPoint, first) ==
    /\ SelectBestChain(forkPoint)
    /\ MoreDifficult(forkPoint)
    /\ LET toAdd == BlocksFromFork(blocks \cup {adding}, forkPoint, adding)
       IN  first \in toAdd /\ \A x \in toAdd : Height(first) <= Height(x)
    /\ phase' = "reorg"
    /\ at' = first
    /\ pos' = 1
    /\ UNCHANGED <<chainHead, accounts, now, adding>>

\* selectBestChain keeps the current chain; AddBlock makes the new block the
\* head nevertheless.
KeepCurrentChain(forkPoint) ==
    /\ SelectBestChain(forkPoint)
    /\ ~ MoreDifficult(forkPoint)
    /\ chainHead' = adding
    /\ ReleaseMutex
    /\ UNCHANGED <<accounts, now>>

\* reorgToNewChain goes on with the next block of the branch ...
ReorgNextBlock(next) ==
    /\ phase = "reorg"
    /\ adding # NoBlock
    /\ ~ MoreTxs
    /\ at # adding
    /\ next \in Ancestors(blocks, adding)
    /\ Height(next) = Height(at) + 1
    /\ at' = next
    /\ pos' = 1
    /\ UNCHANGED <<chainVars, accounts, now, adding, phase>>

\* Mutant: chainMutex stays locked.
EndReorgLocked ==
    /\ phase = "reorg"
    /\ adding # NoBlock
    /\ ~ MoreTxs
    /\ at = adding
    /\ chainHead' = adding
    /\ UNCHANGED <<blocks, heightMap, accounts, now, callVars>>

\* ... and after the last makes the new block the head.
EndReorg ==
    /\ phase = "reorg"
    /\ adding # NoBlock
    /\ ~ MoreTxs
    /\ at = adding
    /\ chainHead' = adding
    /\ ReleaseMutex
    /\ UNCHANGED <<blocks, heightMap, accounts, now>>

\* Time passes.
Tick ==
    /\ now < MaxTime
    /\ now' = now + 1
    /\ UNCHANGED <<chainVars, accounts, callVars>>

-----------------------------------------------------------------------------

\* The steps of an AddBlock that is past its checks: it goes on, returns an
\* error, or returns nil.
AddBlockContinues ==
    \/ ExecuteTx
    \/ \E forkPoint, first \in Block : BeginReorg(forkPoint, first)
    \/ \E next \in Block : ReorgNextBlock(next)

AddBlockFails == ExecuteTxFails \/ StateRootMismatch

AddBlockSucceeds ==
    \/ AddToSideBranch
    \/ ExtendHead
    \/ \E forkPoint \in Block : KeepCurrentChain(forkPoint)
    \/ EndReorg

AddBlockStep == AddBlockContinues \/ AddBlockFails \/ AddBlockSucceeds

Next ==
    \/ \E b \in Block : BeginAdd(b)
    \/ AddBlockStep
    \/ Tick

\* The goroutine inside AddBlock keeps running.
Spec == Init /\ [][Next]_vars /\ WF_vars(AddBlockStep)

-----------------------------------------------------------------------------
(* Properties of the tree.                                                 *)

\* Every stored block but the genesis is a valid child of a stored block: the
\* parent is present, the height is one more, time has advanced, and the
\* block is not from too far in the future.
TreeOK ==
    \A b \in blocks \ {Genesis} :
        /\ Prev(b) \in blocks
        /\ Height(b) = Height(Prev(b)) + 1
        /\ Header[b].timestamp > Header[Prev(b)].timestamp
        /\ Header[b].timestamp <= now + Drift

\* GetBlockByHeight and GetBlock agree: the height index lists every stored
\* block once, under its own height, and nothing else.
HeightIndexOK ==
    /\ \A h \in Heights : \A i \in DOMAIN heightMap[h] :
          /\ heightMap[h][i] \in blocks
          /\ Height(heightMap[h][i]) = h
          /\ \A j \in DOMAIN heightMap[h] : heightMap[h][i] = heightMap[h][j] => i = j
    /\ \A b \in blocks : \E i \in DOMAIN heightMap[Height(b)] :
          heightMap[Height(b)][i] = b

\* Both together: the two maps that insertBlock updates say the same of the
\* same tree, at every moment and on every path of AddBlock.
TreeIndexed == TreeOK /\ HeightIndexOK

\* The head never moves back to a lower block, and only to a stored one; no
\* block is ever removed: a reorganisation keeps the branch it abandons.
\* Which of two equally high blocks is the head is not said.
HeadAdvances ==
    [][/\ chainHead' # chainHead =>
             Height(chainHead') >= Height(chainHead) /\ chainHead' \in blocks'
       /\ blocks \subseteq blocks']_chainVars

=============================================================================

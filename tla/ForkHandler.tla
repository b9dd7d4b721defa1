---------------------------- MODULE ForkHandler ----------------------------
(***************************************************************************)
(* pkg/blockchain/fork.go: the fork handler that a node consults before it *)
(* adds a block.  Each worker of the node calls CheckForFork and, when it  *)
(* is handed a fork, ResolveFork.                                          *)
(*                                                                         *)
(* fh.mu covers each of the two calls but not the gap between them.  Under *)
(* it the handler reads the chain through GetChainHead and GetBlock, each  *)
(* of which holds chainMutex for itself only, so another worker's AddBlock *)
(* can come between two reads.  The blocks the walks meet never change     *)
(* (stored blocks stay stored): what can change is the head, and there is  *)
(* one step per read of it.  ExecuteBlock takes no lock of the chain.      *)
(***************************************************************************)
EXTENDS BlockChain, FiniteSetsExt, SequencesExt

CONSTANTS
    Workers,       \* the goroutines that process blocks
    NoWorker,      \* fh.mu is free
    maxForkDepth,  \* MaxReorgDepth (50)
    BlockReward,   \* CalculateBlockReward by height
    MaxForks       \* bound on the list of forks

ASSUME NoWorkerAssumption == NoWorker \notin Workers
ASSUME ForkBoundsAssumption ==
    maxForkDepth \in Nat /\ MaxForks \in Nat /\ MaxHeight < Modulus
ASSUME BlockRewardAssumption == BlockReward \in [Heights -> Uint64]

VARIABLES
    forks,        \* the NewBlock of every entry of ForkHandler.forks
    enabled,      \* ForkHandler.enabled
    fhMutex,      \* the worker that holds fh.mu
    oldHead,      \* CheckForFork's chainHead
    floor,        \* the height at which findForkPoint's first walk stops
    execAt,       \* the block ExecuteBlock executes ...
    execPos,      \* ... and its next transaction
    pc,           \* what each worker does next
    block,        \* the block it processes
    fork          \* the fork CheckForFork returned to it

handlerVars == <<forks, enabled, fhMutex, oldHead, floor, execAt, execPos>>
workerVars == <<pc, block, fork>>

PC == {"idle", "propose", "check", "visit", "find", "resolve", "execute",
       "add", "adding", "update"}

\* Heights and work are uint64; a length is the int of a difference of two.
Sub64(x, y) == (x - y) % Modulus

Fork == [ForkPoint : Block, Difficulty : Uint64, NewChainLen : Int, OldChainLen : Int]

NoFork == [ForkPoint |-> Genesis, Difficulty |-> 0, NewChainLen |-> 0, OldChainLen |-> 0]

HandlerTypeOK ==
    /\ forks \in Seq(Block)
    /\ enabled \in BOOLEAN
    /\ fhMutex \in Workers \cup {NoWorker}
    /\ oldHead \in Block
    /\ floor \in Uint64
    /\ execAt \in Block
    /\ execPos \in Nat \ {0}
    /\ pc \in [Workers -> PC]
    /\ block \in [Workers -> Block]
    /\ fork \in [Workers -> Fork]

HandlerInit ==
    /\ forks = <<>>
    /\ enabled = TRUE
    /\ fhMutex = NoWorker
    /\ oldHead = Genesis
    /\ floor = 0
    /\ execAt = Genesis
    /\ execPos = 1
    /\ pc = [w \in Workers |-> "idle"]
    /\ block = [w \in Workers |-> Genesis]
    /\ fork = [w \in Workers |-> NoFork]

Goto(w, label) == pc' = [pc EXCEPT ![w] = label]

\* chainMutex can be had: no AddBlock is running.
ChainUnlocked == adding = NoBlock

Unlock ==
    /\ fhMutex' = NoWorker
    /\ oldHead' = Genesis
    /\ floor' = 0
    /\ execAt' = Genesis
    /\ execPos' = 1

-----------------------------------------------------------------------------
(* CheckForFork.                                                           *)

\* The handler is off, or the block extends the head: no fork.
CheckExtends(w) ==
    /\ pc[w] = "check"
    /\ fhMutex = NoWorker
    /\ ChainUnlocked
    /\ ~ enabled \/ Prev(block[w]) = chainHead
    /\ Goto(w, "add")
    /\ UNCHANGED <<vars, handlerVars, block, fork>>

CheckHead(w) ==
    /\ pc[w] = "check"
    /\ fhMutex = NoWorker
    /\ ChainUnlocked
    /\ enabled
    /\ Prev(block[w]) # chainHead
    /\ fhMutex' = w
    /\ oldHead' = chainHead
    /\ Goto(w, "visit")
    /\ UNCHANGED <<vars, forks, enabled, floor, execAt, execPos, block, fork>>

\* The parent is not there yet: no fork.
ParentMissing(w) ==
    /\ pc[w] = "visit"
    /\ ChainUnlocked
    /\ Prev(block[w]) \notin blocks
    /\ Goto(w, "add")
    /\ Unlock
    /\ UNCHANGED <<vars, forks, enabled, block, fork>>

\* findForkPoint's walk from the block stops below head - maxForkDepth, a
\* uint64: on a chain shorter than that it wraps round and the walk is empty.
VisitBranch(w) ==
    /\ pc[w] = "visit"
    /\ ChainUnlocked
    /\ Prev(block[w]) \in blocks
    /\ floor' = Sub64(Height(chainHead), maxForkDepth)
    /\ Goto(w, "find")
    /\ UNCHANGED <<vars, forks, enabled, fhMutex, oldHead, execAt, execPos, block, fork>>

\* Its walk from the head returns the first block the other walk has met.
CommonBlocks(b) == WalkDownTo(blocks, b, floor) \cap Ancestors(blocks, chainHead)

findForkPoint(b, x) == FirstMet(blocks, CommonBlocks(b), x)

calculateChainWork(b, startHeight) ==
    MapThenSumSet(LAMBDA x : BlockReward[Height(x)], WalkDownTo(blocks, b, startHeight))
        % Modulus

ForkRecord(b, forkPoint) ==
    [ForkPoint   |-> forkPoint,
     Difficulty  |-> Sub64(calculateChainWork(b, Height(forkPoint)),
                           calculateChainWork(oldHead, Height(forkPoint))),
     NewChainLen |-> Height(b) - Height(forkPoint),
     OldChainLen |-> Height(oldHead) - Height(forkPoint)]

\* Mutant: MinForkWorkDiff is 0.
TriggersReorgAtZero(f) == f.Difficulty >= 0 \/ f.NewChainLen > f.OldChainLen

\* Difficulty >= MinForkWorkDiff (1), or as much work but longer.
TriggersReorg(f) == f.Difficulty >= 1 \/ f.NewChainLen > f.OldChainLen

TooDeep(f) == f.OldChainLen > maxForkDepth

\* Mutant: without a fork point the check is tried again.
NoForkPointRetry(w) ==
    /\ pc[w] = "find"
    /\ ChainUnlocked
    /\ CommonBlocks(block[w]) = {}
    /\ Goto(w, "check")
    /\ Unlock
    /\ UNCHANGED <<vars, forks, enabled, block, fork>>

NoForkPoint(w) ==
    /\ pc[w] = "find"
    /\ ChainUnlocked
    /\ CommonBlocks(block[w]) = {}
    /\ Goto(w, "add")
    /\ Unlock
    /\ UNCHANGED <<vars, forks, enabled, block, fork>>

\* A fork too deep is an error and ends the processing of the block; one
\* that triggers a reorganisation is recorded and returned.
ForkFound(w, forkPoint) ==
    /\ pc[w] = "find"
    /\ ChainUnlocked
    /\ findForkPoint(block[w], forkPoint)
    /\ LET f == ForkRecord(block[w], forkPoint)
           reorg == ~ TooDeep(f) /\ TriggersReorg(f)
       IN  /\ forks' = IF reorg THEN Append(forks, block[w]) ELSE forks
           /\ fork' = [fork EXCEPT ![w] = IF reorg THEN f ELSE NoFork]
           /\ Goto(w, IF TooDeep(f) THEN "idle" ELSE IF reorg THEN "resolve" ELSE "add")
    /\ Unlock
    /\ UNCHANGED <<vars, enabled, block>>

-----------------------------------------------------------------------------
(* ResolveFork.  The fork it is given triggers a reorganisation, and        *)
(* reorgInProgress is set and reset under fh.mu, so both tests succeed.    *)

\* Mutant: the fork point is among the blocks to add.
BlocksToAddFromForkPoint(w) ==
    BlocksFromFork(blocks, fork[w].ForkPoint, block[w]) \cup {fork[w].ForkPoint}

\* getBlocksFromFork; when the new block is the fork point there are none.
BlocksToAdd(w) == BlocksFromFork(blocks, fork[w].ForkPoint, block[w])

\* Mutant: transactions are counted from 0.
ResolveForkAtZero(w, first) ==
    /\ pc[w] = "resolve"
    /\ fhMutex = NoWorker
    /\ ChainUnlocked
    /\ first \in BlocksToAdd(w)
    /\ \A x \in BlocksToAdd(w) : first \in Ancestors(blocks, x)
    /\ fhMutex' = w
    /\ execAt' = first
    /\ execPos' = 0
    /\ Goto(w, "execute")
    /\ UNCHANGED <<vars, forks, enabled, oldHead, floor, block, fork>>

\* switchToNewChain rolls nothing back and starts to execute the branch.
ResolveFork(w, first) ==
    /\ pc[w] = "resolve"
    /\ fhMutex = NoWorker
    /\ ChainUnlocked
    /\ first \in BlocksToAdd(w)
    /\ \A x \in BlocksToAdd(w) : first \in Ancestors(blocks, x)
    /\ fhMutex' = w
    /\ execAt' = first
    /\ execPos' = 1
    /\ Goto(w, "execute")
    /\ UNCHANGED <<vars, forks, enabled, oldHead, floor, block, fork>>

ResolveNothing(w) ==
    /\ pc[w] = "resolve"
    /\ fhMutex = NoWorker
    /\ ChainUnlocked
    /\ BlocksToAdd(w) = {}
    /\ fhMutex' = w
    /\ execAt' = block[w]
    /\ execPos' = Len(BlockTxs[block[w]]) + 1
    /\ Goto(w, "execute")
    /\ UNCHANGED <<vars, forks, enabled, oldHead, floor, block, fork>>

MoreToExecute == execPos <= Len(BlockTxs[execAt])

\* ExecuteBlock, whether or not an AddBlock is running.
ForkExecuteTx(w) ==
    /\ pc[w] = "execute"
    /\ MoreToExecute
    /\ ExecuteSucceeds(accounts, BlockTxs[execAt][execPos])
    /\ accounts' = ExecuteTransaction(accounts, BlockTxs[execAt][execPos])
    /\ execPos' = execPos + 1
    /\ UNCHANGED <<chainVars, now, callVars, forks, enabled, fhMutex, oldHead, floor,
                   execAt, workerVars>>

\* A transaction fails: processBlock ends.  The fork stays in the list.
ForkExecuteTxFails(w) ==
    /\ pc[w] = "execute"
    /\ MoreToExecute
    /\ ~ ExecuteSucceeds(accounts, BlockTxs[execAt][execPos])
    /\ Goto(w, "idle")
    /\ Unlock
    /\ UNCHANGED <<vars, forks, enabled, block, fork>>

ForkNextBlock(w, next) ==
    /\ pc[w] = "execute"
    /\ ~ MoreToExecute
    /\ execAt # block[w]
    /\ next \in Ancestors(blocks, block[w])
    /\ Prev(next) = execAt
    /\ execAt' = next
    /\ execPos' = 1
    /\ UNCHANGED <<vars, forks, enabled, fhMutex, oldHead, floor, workerVars>>

\* Remove fork from history: the first entry for the block goes.
WithoutFork(b) ==
    IF \E i \in DOMAIN forks : forks[i] = b
    THEN RemoveFirst(forks, b)
    ELSE forks

\* SetChainHead takes the new block as it is: it has been checked by nobody
\* and is as a rule not stored.
SetChainHead(w) ==
    /\ pc[w] = "execute"
    /\ ~ MoreToExecute
    /\ execAt = block[w]
    /\ ChainUnlocked
    /\ chainHead' = block[w]
    /\ forks' = WithoutFork(block[w])
    /\ Goto(w, "add")
    /\ Unlock
    /\ UNCHANGED <<blocks, heightMap, accounts, now, callVars, enabled, block, fork>>

-----------------------------------------------------------------------------
(* The operator's calls.                                                   *)

\* Forks are recorded in the order of DetectedAt: the oldest go.
ClearOldForks(n) ==
    /\ fhMutex = NoWorker
    /\ n \in 1 .. Len(forks)
    /\ forks' = SubSeq(forks, n + 1, Len(forks))
    /\ UNCHANGED <<vars, enabled, fhMutex, oldHead, floor, execAt, execPos, workerVars>>

SetEnabled(on) ==
    /\ fhMutex = NoWorker
    /\ enabled # on
    /\ enabled' = on
    /\ UNCHANGED <<vars, forks, fhMutex, oldHead, floor, execAt, execPos, workerVars>>

-----------------------------------------------------------------------------

ForkStep(w) ==
    \/ CheckExtends(w)
    \/ CheckHead(w)
    \/ ParentMissing(w)
    \/ VisitBranch(w)
    \/ NoForkPoint(w)
    \/ \E forkPoint \in Block : ForkFound(w, forkPoint)
    \/ \E first \in Block : ResolveFork(w, first)
    \/ ResolveNothing(w)
    \/ ForkExecuteTx(w)
    \/ ForkExecuteTxFails(w)
    \/ \E next \in Block : ForkNextBlock(w, next)
    \/ SetChainHead(w)

OperatorStep ==
    \/ \E n \in 1 .. MaxForks + 1 : ClearOldForks(n)
    \/ \E on \in BOOLEAN : SetEnabled(on)

=============================================================================

-------------------------------- MODULE Node --------------------------------
(***************************************************************************)
(* cmd/node/main.go: blockWorker and consensusWorker, two goroutines that  *)
(* run processBlock on the shared chain and fork handler.  A block passes  *)
(* CheckForFork, possibly ResolveFork, and AddBlock; then the validator is *)
(* credited and the node's status is refreshed.                            *)
(*                                                                         *)
(* Nothing in the repository writes to blockCh yet: the blocks peers send  *)
(* are the constant Received, in any order and any number of times.        *)
(***************************************************************************)
EXTENDS ForkHandler

CONSTANTS
    Proposers,   \* the workers that run consensusWorker of a validator
    Received,    \* the blocks that may come in through blockCh
    Proposals    \* the blocks NewBlock may build here

ASSUME ProposersAssumption == Proposers \subseteq Workers
ASSUME BlocksAssumption == Received \subseteq Block /\ Proposals \subseteq Block

\* NewBlock sets no state root, and the root AddBlock compares it with is
\* never empty.
ASSUME ProposalsAssumption == \A p \in Proposals : Header[p].stateRoot = NilRoot

VARIABLES
    proposeHeight,  \* proposeBlock's currentHeight
    chainHeight,    \* Node.chainHeight
    credited        \* the credits of 10 s of OnlineTime handed out

statusVars == <<proposeHeight, chainHeight, credited>>
nodeVars == <<vars, handlerVars, workerVars, statusVars>>

NodeTypeOK ==
    /\ TypeOK
    /\ HandlerTypeOK
    /\ proposeHeight \in Heights
    /\ chainHeight \in Heights
    /\ credited \in Nat

\* Start runs updateStatus on a chain that has only the genesis block.
NodeInit ==
    /\ Init
    /\ HandlerInit
    /\ proposeHeight = 0
    /\ chainHeight = 0
    /\ credited = 0

-----------------------------------------------------------------------------

\* blockWorker takes a block from blockCh.
Receive(w, b) ==
    /\ pc[w] = "idle"
    /\ w \notin Proposers
    /\ Len(forks) < MaxForks
    /\ block' = [block EXCEPT ![w] = b]
    /\ Goto(w, "check")
    /\ UNCHANGED <<vars, handlerVars, fork, statusVars>>

\* proposeBlock reads the height, which another worker's AddBlock may raise
\* before it reads the head.  MaxHeight bounds the heights of the universe.
ProposeHeight(w) ==
    /\ pc[w] = "idle"
    /\ w \in Proposers
    /\ Len(forks) < MaxForks
    /\ ChainUnlocked
    /\ \E p \in Proposals : Height(p) = Height(chainHead) + 1 /\ Header[p].timestamp = now
    /\ proposeHeight' = Height(chainHead)
    /\ Goto(w, "propose")
    /\ UNCHANGED <<vars, handlerVars, block, fork, chainHeight, credited>>

Buildable(p) ==
    /\ Prev(p) = chainHead
    /\ Height(p) = proposeHeight + 1
    /\ Header[p].timestamp = now

ProposeBlock(w, p) ==
    /\ pc[w] = "propose"
    /\ ChainUnlocked
    /\ Buildable(p)
    /\ block' = [block EXCEPT ![w] = p]
    /\ Goto(w, "check")
    /\ UNCHANGED <<vars, handlerVars, fork, statusVars>>

\* The universe of blocks has none of this parent, height and time.
OutOfBlocks(w) ==
    /\ pc[w] = "propose"
    /\ ChainUnlocked
    /\ \A p \in Proposals : ~ Buildable(p)
    /\ Goto(w, "idle")
    /\ UNCHANGED <<vars, handlerVars, block, fork, statusVars>>

\* Mutant: the error of AddBlock is ignored.
AddRefusedIgnored(w) ==
    /\ pc[w] = "add"
    /\ ChainUnlocked
    /\ ~ Acceptable(block[w])
    /\ Goto(w, "update")
    /\ UNCHANGED <<vars, handlerVars, block, fork, statusVars>>

\* AddBlock fails one of its checks and processBlock returns the error.
AddRefused(w) ==
    /\ pc[w] = "add"
    /\ ChainUnlocked
    /\ ~ Acceptable(block[w])
    /\ Goto(w, "idle")
    /\ UNCHANGED <<vars, handlerVars, block, fork, statusVars>>

AddAccepted(w) ==
    /\ pc[w] = "add"
    /\ BeginAdd(block[w])
    /\ Goto(w, "adding")
    /\ UNCHANGED <<handlerVars, block, fork, statusVars>>

AddRuns(w) ==
    /\ pc[w] = "adding"
    /\ \/ AddBlockContinues /\ UNCHANGED pc
       \/ AddBlockFails /\ Goto(w, "idle")
       \/ AddBlockSucceeds /\ Goto(w, "update")
    /\ UNCHANGED <<handlerVars, block, fork, statusVars>>

\* UpdateContribution and updateStatus.
Update(w) ==
    /\ pc[w] = "update"
    /\ ChainUnlocked
    /\ credited' = credited + 1
    /\ chainHeight' = Height(chainHead)
    /\ Goto(w, "idle")
    /\ UNCHANGED <<vars, handlerVars, block, fork, proposeHeight>>

-----------------------------------------------------------------------------

\* What a worker does once it has a block, or is making one.
Works(w) ==
    \/ \E p \in Proposals : ProposeBlock(w, p)
    \/ OutOfBlocks(w)
    \/ ForkStep(w) /\ UNCHANGED statusVars
    \/ AddRefused(w)
    \/ AddAccepted(w)
    \/ AddRuns(w)
    \/ Update(w)

NodeNext ==
    \/ \E w \in Workers : Works(w)
    \/ \E w \in Workers, b \in Received : Receive(w, b)
    \/ \E w \in Workers : ProposeHeight(w)
    \/ OperatorStep /\ UNCHANGED statusVars
    \/ Tick /\ UNCHANGED <<handlerVars, workerVars, statusVars>>

\* Goroutines are scheduled, and Go's mutexes are fair to one that waits: a
\* worker that can again and again take its next step takes it.
NodeSpec ==
    /\ NodeInit
    /\ [][NodeNext]_nodeVars
    /\ \A w \in Workers : SF_nodeVars(Works(w))

-----------------------------------------------------------------------------
(* Properties.                                                             *)

\* The two locks of processBlock are never held across each other in a way
\* that stops a worker: every block a worker takes is done with, whatever the
\* other worker, the clock and the operator do.
BlocksAreProcessed == \A w \in Workers : pc[w] # "idle" ~> pc[w] = "idle"

\* ErrForkDetected is dead: although the fork handler makes unchecked and
\* unstored blocks the head, an AddBlock that has to choose between branches
\* always finds their fork point.
ForkPointExists ==
    (Executed /\ StateRootMatches(adding) /\ Longer(adding) /\ Prev(adding) # chainHead)
    => \E x \in Block : IsForkPoint(blocks \cup {adding}, adding, x)

\* The fork a worker carries over the gap between CheckForFork and
\* ResolveFork stays good, whatever the other worker does to the chain
\* meanwhile: its fork point is a stored block on the new block's branch.
ForksRooted ==
    \A w \in Workers : pc[w] \in {"resolve", "execute"}
        => fork[w].ForkPoint \in blocks \cap Ancestors(blocks, block[w])

\* ResolveFork executes blocks of the new branch above the fork point only:
\* nothing that both branches share is executed again.  When the new block is
\* itself the fork point it executes nothing.
BranchExecuted ==
    \A w \in Workers : pc[w] = "execute"
        => \/ execAt \in Ancestors(blocks, block[w]) \ Ancestors(blocks, fork[w].ForkPoint)
           \/ execAt = block[w] /\ block[w] = fork[w].ForkPoint /\ ~ MoreToExecute

\* Every fork is resolved from a common block up, in AddBlock and in the fork
\* handler, although the head moves between two reads and between two calls.
ForksResolved == ForkPointExists /\ ForksRooted /\ BranchExecuted

\* No block is credited to its validator twice, however often it arrives.
CreditedOnce ==
    credited + Cardinality({w \in Workers : pc[w] = "update"}) < Cardinality(blocks)

-----------------------------------------------------------------------------
(* What the documents say of the fork handler.                             *)

\* "Only trigger reorg if new chain has more work": ResolveFork never
\* moves the head to a lower block than the one it leaves.
MoreWorkOnly ==
    [][\A w \in Workers : (pc[w] = "execute" /\ pc'[w] = "add")
          => Height(block[w]) >= Height(chainHead)]_nodeVars

\* "Validate new blocks one by one": when no block is in processing, the head
\* is a block that AddBlock has validated and stored.
HeadIsValidated == (\A w \in Workers : pc[w] = "idle") => chainHead \in blocks

=============================================================================

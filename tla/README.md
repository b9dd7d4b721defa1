# V6Coin protocol: a TLA+ verification project

TLA+ models of the V6Coin node (`code/go`), TLC runs that check them on small
instances, and TLAPS proofs of the results that matter for every instance.
Paths below are relative to `code/go/` unless they start with `docs/`.

## 1. Inventory

| Component | State | Operations | Used by |
|---|---|---|---|
| state database (`pkg/state/memory.go`, `types.go`) | map address -> account (nonce, balance), a root that only counts accounts | GetAccount, SetAccount (each under its own lock), Commit, CurrentRoot | executor, chain, pool |
| transaction executor (`pkg/state/executor.go`) | private copies of two accounts per call | ExecuteTransaction with seven handlers, ApplyBlockReward | AddBlock, ExecuteBlock |
| block chain (`pkg/blockchain/chain.go`) | block map, height index, head, chainMutex | AddBlock, fork choice, reorganisation, SetChainHead, ExecuteBlock | fork handler, node |
| fork handler (`pkg/blockchain/fork.go`) | list of forks, enabled, fh.mu | CheckForFork, ResolveFork, ClearOldForks, Enable, Disable | node |
| node (`cmd/node/main.go`) | channels, status, goroutines, n.wg | processBlock, proposeBlock, processTransaction, Start, Stop | entry point |
| transaction pool (`pkg/tx/pool.go`) | map by hash, heap, index by sender | add, remove, expire, evict | node |
| gas price (`pkg/tx/gas.go`) | price, history | adjust to load | clients |
| offline / migration validators (`pkg/tx/offline.go`, `migration.go`) | seen transactions, used proofs, limits | validate, record, clean up | clients |
| stake pool, validators (`pkg/stake`) | stakes, pending unstakes, total, validators | stake, unstake, process, distribute | clients |
| governance (`pkg/governance`) | proposals, votes, one mutex | create, vote, decide, process, execute | clients |
| consensus engine (`pkg/consensus/consensus.go`) | contributions, validator set, transactions, prefix counts | update, select, register | node |
| proof of connection (`pkg/consensus/poc.go`) | connections, scores, validators | track, measure, select, enforce limits | clients |
| key-value stores (`pkg/db`) | memory map, one file per key, cache | put, get, delete, batch, iterate, compact, load | clients |
| p2p (`pkg/p2p`) | peers, connections, buckets, routing table, rate window, seen messages | add, remove, find, forward, process, allow | node |
| wallet (`pkg/wallet`) | encrypted keys, lock state, nonces | create, lock, unlock, change password, sign | node |
| trie (`pkg/state/mpt.go`, `node.go`) | node graph | get, put, delete | nothing |
| Merkle trees (`pkg/crypto/hash.go`) | none | root, proof, verification | blocks |
| encodings, cryptography, rpc, C header library | none | pure functions, HTTP plumbing | everywhere |

**How the core interacts.** A block reaches `processBlock` from the network
(blockWorker) or from this node's own proposal (consensusWorker). It passes
`CheckForFork`, then `ResolveFork` if a fork was returned, then `AddBlock`.
`AddBlock` holds `chainMutex` from start to end; the fork handler holds `fh.mu`
during each of its two calls but not between them, and reads the chain through
accessors that hold `chainMutex` for one read each. Both execute transactions on
the one state database; `ExecuteBlock`, on the fork handler's path, holds no
lock of the chain. The pool asks the same database whether a sender can pay, at
the moment a transaction is added. The other packages are libraries: each keeps
its own state under its own lock, and none of them calls another of them while
it changes, except that the validator manager and the vote weights read the stake
pool and the scores.

**What is hard.** Read-modify-write on private copies; a rollback that is a
placeholder, so every failure leaves its partial effects; workers that
interleave between the checks and the use of what they checked; locks taken
twice by one call; unsigned differences and sums; blocks and messages that
arrive twice or out of order; file operations that fail or are cut off by a
crash; windows of time that end while a call is under way. `PROJECT.json` lists
each hazard with its line and the properties that watch it.

**What makes each component correct.** Executor: money is conserved, accounts do
not vanish, concurrent calls look atomic. Chain: a tree of valid blocks, an index
equal to it, a head at the greatest height, calls that return. Fork handler and
node: the head moves to more work and to validated blocks, each block is credited
once, no worker stops for good, the process ends after a signal. Pool: its three
structures agree. Validators: one acceptance per window, one grant per proof.
Stakes: none lost, none paid twice. Governance: tallies are the votes and decisions
stand. Selection: the best, within the limits. Stores: answered writes survive.
p2p: limits hold, what is handled again is bounded. Gas: the price moves smoothly. Wallet: the owner's password opens
every key, no nonce is signed twice.

## 2. Modules

| Module | Models |
|---|---|
| `Accounts` | accounts, uint64 arithmetic, the map, the root, transactions, what each handler does to its two copies. Definitions only. |
| `Ledger` | abstract specification: transactions and rewards as atomic steps |
| `TransactionExecutor` | one step per database access; `Guarded` executors share chainMutex |
| `ExecutorBook` | the executor with an auditor's history: money created, burned, staked, transactions executed |
| `BlockChain` | AddBlock in steps: checks, one step per transaction, root check, insertion, fork choice, reorganisation |
| `ChainAudit` | BlockChain with history: refused blocks, whether the state is tainted by other branches |
| `ForkHandler` | CheckForFork and ResolveFork per worker, one step per read of the head |
| `Node` | the two workers composed with the chain and the fork handler |
| `NodeLifecycle` | main, Start, the goroutines' loops, the signal and Stop |
| `TxPool` | admission, heap order, eviction, expiry, the index by sender, beside the executor's state |
| `GasCalculator` | the price, its truncating adjustment under any adjustment factor, the history |
| `OfflineTx` | the replay window: three reads of the clock, two callers, cleaning, changing periods |
| `Migration` | proofs, their identity, limits, what is granted; check and mark as two steps of a caller, since the validator has no mutex |
| `StakePool` | stakes, the unstake queue that shares records with the map, the total, validators, rewards |
| `Governance` | proposals as objects with several identifiers, votes, decisions, the lock taken twice |
| `ConsensusEngine` | contributions and scores, the validator set, prefix counts |
| `PoCConsensus` | connections, scores, the unstable sort, prefix limits, the lock taken twice |
| `Wallet` | keys, password, lock state, a password change that fails half way, nonces of builders |
| `Sorting` | the exchange sort that the engine and the DHT both write out, and ascending order. Definitions only. |
| `LRUCache` | the cache as operators, and a machine that calls them |
| `Database` | `FileDB` behind `CachedDatabase`: I/O errors, crashes, restarts, keys that share a file |
| `Iterators` | the iterator with its binary search, Backup, Restore and DeletePrefix beside a writer |
| `BatchBuilder` | batches, their limit, writes that fail half way and are repeated |
| `Gossip` | message validation, forwarding, processing by several goroutines one use of the lock at a time, the cleaning that forgets, the broadcast queue |
| `PeerManager` | peers, connections, the counter |
| `RateLimiter` | the sliding window with Allow and Record as separate steps |
| `Kademlia` | k-buckets, both ways into them, the search |
| `RoutingTable` | the map of peers and one peer per bucket |
| `Merkle` | roots, proofs and verification as functions |
| `Trie` | get, put and delete as recursive operators, with the last value put per key as reference |
| `Infra` | what is asked of the stores and the p2p components together |
| `MCExecutor`, `MCExecutorBook`, `MCBlockChain`, `MCNode` | instances for TLC |
| `MCTx`, `MCEconomy`, `MCInfra` | suites: several components in one run |
| `AccountsProofs`, `SumProofs`, `TransactionExecutorProofs`, `ChainProofs`, `TxProofs`, `EconomyProofs`, `StorageProofs`, `NetworkProofs` | proofs |

**Suites.** The components of a suite share no state in the code, so running them
beside each other would multiply their state spaces and add no behaviour. The
variable `active` of a suite is chosen at the start and says which component
takes the steps of the behaviour; the others stay in their initial state. Each
property therefore speaks about the behaviours of its own component, and the
state counts of the components add up.

**Correspondence.** Variables are named after the fields they stand for
(`blocks`, `heightMap`, `chainHead`, `forks`, `bySender`, `totalStaked`,
`messageSeen`, `peerConnections`); program counters and local copies are variables
per executor, worker or caller. A lock is the fact that a call is in progress:
`adding # NoBlock` is chainMutex held by AddBlock, `fhMutex` is fh.mu. A method that
holds its lock from start to end is one action; one that takes it several
times has a step for each (`OfflineTx`, `Gossip`, `RateLimiter`, `Wallet`). A method that takes
a lock it holds never returns, and leaves the lock held: `govMutex` in `Governance`, and
its counterpart in `PoCConsensus`. `PROJECT.json` maps every definition to its lines.

**Abstractions.** A block is its hash; `Header` and `BlockTxs` give its content,
so equal hashes mean equal blocks. Formats, signatures and Merkle roots are the
flag `wellFormed`. A state root is what `updateRootHash` really puts in it: the
number of accounts. Addresses and amounts are members of small sets, uint64 is
arithmetic modulo `Modulus`. In the chain modules ExecuteTransaction is one step;
its inner interleavings are the subject of `TransactionExecutor`. In `ForkHandler`
the repeated evaluation of the head in one loop condition is one read, and in `Database` a Get
that fills the cache is one step (a batch that writes between its two reads touches only keys whose
cache entry the properties exempt). `SetAccount` never gets a nil account, which would delete the
entry (`memory.go:41-44`). A call
that fails its checks with nothing changed is a stuttering step. The reward
distributor is nil in the node, so AddBlock's reward step does nothing. Floating-point
scores, prices and shares are ratios of integers in a unit that makes them exact;
where the code truncates, so does the model, and a price that is exactly a whole number may lose a
unit, as the floats do (`Truncated`). Time is a clock that ticks between
any two steps. A heap is the set of its items with the order that `Less` gives,
any item that no other beats being at the top; an unstable sort is any order that
sorts. The network of `Gossip` is a set of packets that only grows, so packets are
lost, duplicated and reordered. Unlocked uses of a map by two goroutines are interleaved, not
corrupted. In `Merkle` two pairs never have one hash, but the hash of a pair may be a leaf.
Variables marked "history" record what happened for the properties and feed
back into nothing. Definitions marked "Mutant" are seeded defects: each replaces
one definition to show that a property can fail.

## 3. Runs

Passing:

| Run | Instance | Shows |
|---|---|---|
| `executor_serial` | 3 addresses, 2 guarded executors, 10 transactions of all plain kinds, a reward; 112 086 states | `Conservation`: balances + fees + stakes = money created, between calls. `ImplementsLedger`: the steps refine `Ledger`. |
| `executor_concurrent` | 2 addresses, a guarded and an unguarded executor, self-payment, migration, unstake, Modulus 5 so that balances wrap; 648 042 states | `TypeOK`; `AccountsPersist`: no account vanishes, the root never goes back. |
| `chain_audit` | 11 blocks on three branches, to one of which the chain can always switch, a bad height, a bad root, failing transactions, clock 0..3; 1 262 states | `TypeOK`; `TreeIndexed`: a tree of valid blocks, and an index equal to it; `HeadIsLongest`, `ForkAlwaysDecided`, `CleanState`, `HeadAdvances`, `AddBlockReturns`. |
| `node` | 7 blocks on two branches, two workers, a proposal, a block of wrong height, maxForkDepth 1, an operator who toggles and clears; 76 923 states | `NodeTypeOK`, `TreeIndexed`, `CreditedOnce`; `ForksResolved`: AddBlock always finds a fork point (`ForkPointExists`), the fork that a worker carries from CheckForFork to ResolveFork starts at a stored block of the new branch (`ForksRooted`), and ResolveFork executes no block that both branches share (`BranchExecuted`); `BlocksAreProcessed`: every block taken is done with. |
| `tx` | pool of 2 among 4 transactions, two of which share sender and nonce, Modulus 8; prices 1..28 from 20, adjustment factors 0.1, 0.05 and 0.5, loads at and between all thresholds; 2 offline callers, periods 1 and 2; 7 proofs, 2 claimants; 3 goroutines; 149 598 states | see below |
| `economy` | 2 validators, StakeModulus 3, amounts from 0, 2 waiting unstakes; 2 proposals, 2 voters, GovModulus 4; 3 contributors for 2 seats, 3 devices; 3 PoC nodes with 2 prefixes; 2 passwords, 2 accounts, one failing encryption, 2 builders; 705 935 states | see below |
| `infra` | 3 keys in 2 files behind a cache of 2, 2 faults; 3 keys to iterate; 2 goroutines on 3 messages, one of them new and empty, TTL modulo 6; 2 peers and connections; 2 callers of the limiter; buckets of 2; up to 7 leaves of which one is the hash of the others; a trie of 4 keys of two bytes that share prefixes of different lengths; 415 130 states | see below |

Violated, each the disagreement of the code with a document or comment quoted
in `PROJECT.json`:

| Run | Property | What happens |
|---|---|---|
| `executor_replay` | `NoReplay` | the nonce is compared and never incremented |
| `executor_unlocked` | `Conservation` | ExecuteBlock beside AddBlock loses an update |
| `node_less_work` | `MoreWorkOnly` | the unsigned difference of work wraps: less work, or an old block again, takes the head |
| `node_head_invalid` | `HeadIsValidated` | a proposal becomes the head and is then refused by AddBlock |
| `pool_eviction` | `EvictsLowest` | a full pool pops the top of its heap, its best transaction |

A property of a run is a conjunction of named parts where a component promises several
things; `PROJECT.json` has mutants for most of the parts.

**tx.** `PoolAgrees`: heap and map hold the same transactions, at most
`MaxPoolSize`, and the index names only pooled ones; it misses a pooled transaction only
where two of one sender and nonce have met: the second takes over the entry of the first
and the removal of either deletes it.
`PriceSmooth`: whatever the load and the adjustment factor, two consecutive prices of the history
differ by at most the factor's share of the largest target, and the history has no gap, also across
a Reset and where it forgets.
`AcceptedOnce` is `OncePerWindow` (no other transaction of a sender and nonce is accepted
within the window of an acceptance; at its end even the same one is) and `MintedOnce` (the money
of a proof is granted if and only if the proof gets marked, and at most once per claimant:
only calls that overlap the first can be granted it again). `NilOnlyInStart`: a goroutine reads a closed channel
only if the signal came while Start was launching. `SignalEnds`: a signal ends the
process.

**economy.**
* `StakesAccounted`: what was staked is active, queued or gone, once (`StakeConserved`);
  `GetTotalStaked` is the active stake and the full unstakes that wait, until a partial unstake
  is processed (`TotalUntilPart`), both as far as a uint64 tells; the shared record and the queue agree (`UnstakingIsQueued`).
* `SharesFair`: shares fit the reward and grow no further above the caps (`NeverOverpaid`,
  `ShareCapped`).
* `VotesDecide`: tallies are the votes under all identifiers of a proposal, modulo 2^64
  (`TallyIsVotes`); approval needs more than half of the weight cast while that fits a
  uint64 (`ApprovedByMajority`). `DecisionFinal`: only handing in the object again reopens it.
* `SelectionSound`: the engine's set is the best contributors after every update
  (`ValidatorsAreTop`); prefix counts are
  devices while only registered ones are unregistered (`CountsDevices`); whatever PoC's
  sort does with equal scores, a better node is passed over only for a full prefix
  (`TopIsFair`).
* `KeysKept`: the password opens every key (`OwnerCanSign`) and a locked wallet keeps none
  in the clear (`LockedIsSealed`), except after a password change that failed half way.
  `NonceOnce`: a nonce is signed twice only by two builders at once, a caller's own
  nonce, or an account created again.

**infra.**
* `StoresSound`: list and map of a cache agree, in order of use (`LRUConsistent`); what the
  cache answers is in the store (`CacheAgrees`); what an answered operation promised
  survives crashes and restarts (`Durable`). The exceptions are named in the parts: failed
  operations, keys that share a file, deletions of a batch.
* `HelpersSound`: the iterator's ends (`SeekFinds`, `TrueHasKey`); backup and prefix deletion
  are right for every key nobody wrote meanwhile (`HelpersUndisturbed`). A caller who goes
  beyond an end, or begins with a Prev, is exempt: it gets TRUE with a nil key; cutting, reordering
  and repeating batches changes nothing (`BuilderAgrees`).
* `DeliveriesBounded`: the look into the map of seen messages, the mark, the size and the cleaning
  are separate uses of its lock; still a message reaches the handler at most once per goroutine,
  and as often again for each time a cleaning forgot it.
* `PeersSound`: maps, counter and connections agree (`PeersConsistent`, `ConnectionsOwned`).
* `RateBounded`: the limit is exceeded by at most one message per other caller.
* `TablesSound`: buckets and what a search answers (`BucketsSound`, `FindsClosest`), and the
  routing table (`BucketsNamePeers`).
* `RootsCommit`: a Merkle proof verifies at every position with the leaf that stands there only
  (`ProofsVerify`); two lists share a root only if the longer repeats its end where an odd level of
  the shorter is completed, or if every leaf of the shorter is the hash of a pair
  (`RootsTellApart`).
* `AnswersOwn`: the trie never answers a value that is not the key's last.

**Facts the properties carry as exceptions or hypotheses.** A payment to oneself keeps
only the credited copy, and the account that a migration or an unstake handler stores is
overwritten by the older copy (excluded from `executor_serial`, a hypothesis of
`LedgerCorrect`). Transactions of side branches stay executed (`CleanState` is about
untainted histories). The validator manager's copy of a stake is not refreshed when
the stake changes. `Vote` takes the weight its caller names. The PoC connection time counts
from the last update. The engine's transactions are never removed. A message with TTL 0
is forwarded with TTL 255, and so is one whose TTL expired when it is tried again. An amount plus
fee that wraps passes the pool's balance check (`pool.go:339`). A Kademlia bucket is chosen by the first differing
byte, and the routing map takes nodes the bucket refused. A full routing table refuses
peers it already has. The default migration limit is the least amount a proof may have.
The first key put into an empty trie is not found, because the path of its leaf is
repacked with its terminator; a lookup may answer the empty value. `NewBatch` of a
closed store has no maps. A fork whose resolution fails stays in the list for good.

**Disagreements without a run of their own.** The models follow the code here, and no property
asserts either side:
* on equal work the code keeps the branch it saw first; `docs/specs/en/07-blockchain-spec.md:301`
  and `03-poc-consensus-spec.md:221` prefer the newer timestamp. `HeadAdvances` says only that the
  head's height never falls;
* the limit on the depth of a reorganisation (`fork.go:14`, `:81`, `03-poc-consensus-spec.md:301`)
  rejects nothing: the walk cannot get below the depth it is compared with, and AddBlock has none;
* congestion does not raise a low gas price (`gas.go:254`, `:258`, `:268`): with the default factor
  the increase of a price below 8 is truncated away, and the default base price is 1;
* a partial unstake is subtracted from the total at the request (`stake/pool.go:131`) and again when
  processed (`:204`), where `:223`, `types.go:59` and `docs/reports/phase-8-progress-report.md:29` speak of the
  total staked;
* `ProcessProposals` calls a method that takes the lock it holds, so it executes nothing and stops
  every later caller (`proposal.go:307-319`; `docs/plan/features/phase-8.2-completion.md:64-65` says that passed proposals
  are executed); `UpdateValidators` of `poc.go:261` does the same;
* a message has TTL 240 when it is made (`p2p.go:310`) and the validator refuses more than 30
  (`message.go:80`); one without payload (ping, pong, keep-alive) is 61 bytes long and refused
  below 62 (`network.go:40`, `:85`); a broadcast task has no `TargetPeers` and is sent to nobody (`router.go:227`, `:315`);
  `docs/plan/features/phase-1.4-completion.md` and `p2p_test.go:273-286` expect them to arrive;
* `MigrationValidator` has no mutex, so overlapping calls are both granted the money of one proof;
* Merkle leaves and inner nodes are hashed alike (`hash.go:97-125`), so a list of one leaf that is the
  hash of a pair has the pair's root, and a proof without siblings is good for any index.

**Bounds.** `MaxGranted` bounds the money rewards create, `MaxHeight` and the set
`Block` the chain, `MaxForks` the list of forks at which no further block is taken,
`maxForkDepth` is 1 or 2 instead of 50. Two addresses show every aliasing of sender and
destination, a third an uninvolved account; two executors or workers are all the code
runs at once. Three heights are enough for a fork at, above and below such a limit: at
depth 1 a fork can be too deep, and the violated node runs, at depth 2, include the walk
that is empty because the chain is shorter than the depth. `Modulus` is larger than any
sum in a run unless wrapping is what the run is about (5 in `executor_concurrent`, 8 in
`tx`, `StakeModulus` 3 and `GovModulus` 4 in `economy`, `TTLModulus` 6 in `infra`); heights
and work wrap at every modulus. Clocks (`MaxTime`, `PoolMaxTime`, `OfflineMaxTime`,
`StakeMaxTime` and the like) run past the end of the longest period of their component.
`MaxEntered`, `MaxUnstakes`, `MaxHandled`, `Claimants`, `MaxCreated`, `MaxDevices`, `MaxAccounts`, `MaxNonce`, `MaxAccepts` and `MaxPending`
bound what callers hand in, each above the number at which its limit, its collision or its
second use happens. `MaxFaults`, `MaxBuilderFaults` and `MaxEncryptFaults` bound failing
operations: one to fail and, for the store, one while the first is being repaired.
`MaxPrice` leaves room above the base price for several full increases in a row.
The trie's state space is finite without a bound. Deadlock is not checked where the
bounds end a behaviour (`chain_audit` and the suites) or the process exits.

**Fairness.** `BlockChain` assumes weak fairness of the steps of an AddBlock in
progress: a goroutine that holds the lock keeps running, and nothing else disables
its steps. `Node` assumes strong fairness of each worker's steps, because a
worker that waits for a mutex is enabled again and again but not always: Go's
`sync.Mutex` and `sync.RWMutex` hand over to waiters that have starved. Taking a
new block, the clock and the operator are not fair. `NodeLifecycle` assumes weak
fairness of Start's launches, of Stop's steps and of the processing of what a
goroutine has received, and strong fairness of a goroutine's return once the context is
cancelled: `select` chooses at random among the cases that are ready, so a case
that is ready again and again is taken. Signals and messages are not fair.

## 4. Proofs

Every theorem below holds for every value of the constants that the named `ASSUME`s allow:
any number of executors, workers, callers, validators or peers, any word size, any bound.
TLC checked each statement on its instance first. A proof of an invariant is the usual
one: an inductive invariant that the initial states satisfy, that every action keeps, and
that implies the property.

* `AccountsProofs`: typing lemmas on the operators of `Accounts`.
* `SumProofs`: loops and sums. The library's induction theorems take an operator as a
  parameter, which the installed provers cannot instantiate; here the set of numbers, or of
  subsets, for which something holds takes the operator's place (`UpInduction`,
  `SubsetInduction`), so every use is a first-order fact. `FoldExists` shows that the equation
  behind the folds has a solution, and from it follow the laws of `FoldLeft` (`LoopExists`, `LoopPrefixes`) and of
  sums over sets (`SumOverChange`, `SumOverSplit`, `SumOverLeq`, ...) and of residues. The two loops
  of the exchange sort are inductions of their own: the inner one keeps the order before place `i`
  and brings the first of the rest there (`PlacedOK`), the outer one sorts the first `i` places
  (`SortOK`), for any sequence and any strict order.
* `TransactionExecutorProofs`
  * `TypeCorrect`: `Spec => []TypeOK` for any number of executors, any of them
    unguarded. Strengthened by: an executor's call is of the kind its program
    counter says.
  * `PersistCorrect`: `Spec => AccountsPersist`; every write stores an account, so the
    set of stored addresses only grows and so does its cardinality (addresses are
    finite).
  * `LedgerCorrect`: if every executor is guarded and the transactions are plain (no
    self-payment, migration or unstake) then `Spec => ImplementsLedger`. The
    refinement mapping `LandedAccounts` lets a call take effect at its first write; the
    invariant says that only one executor is active, and that its copies are what the
    database holds at those addresses. Both hypotheses are needed: `executor_unlocked`
    shows the loss of an update without the first, and the facts above what happens
    without the second.
  * `ConservationCorrect`: under the same two hypotheses, and if the money that can be created
    fits a uint64 (`SupplyFits`), `BookSpec => []Conservation`. The book is kept for
    `LandedAccounts`, not for the accounts in the middle of a call (`BookOK`); the sum over the
    addresses changes at two of them.
* `ChainProofs`
  * `ChainTypeCorrect`, `TreeCorrect`, `HeightIndexCorrect`, and their union
    `TreeIndexedCorrect` (`Spec => []TreeIndexed`) from the inductive invariant
    `ChainInv`. The tree alone is not inductive: the block that AddBlock inserts was
    checked several steps earlier, and `CallOK` carries the result of the check (new,
    parent stored, height and time right) to the insertion.
  * `HeadAdvancesCorrect`: a reorganisation ends many steps after it was decided;
    `CallOK` keeps that the block is stored and above the head.
  * `HeadIsLongestCorrect`: `AuditSpec => []HeadIsLongest`, from `ChainInv /\ HeadIsLongest`.
  * `ForkAlwaysDecidedCorrect`: the walks through the tree are recursive functions; the least
    sets closed under stored parents solve their equation, two branches meet in the genesis
    block at the latest, and the work of a branch above the fork point is its length, so the
    higher block always has more.
  * `CleanStateCorrect`: inside a call that has not left the main chain the accounts are those
    of the head's branch and of the first `pos - 1` transactions of the new block (`CleanInv`);
    `StateAfter` is a recursion along parents, solved lowest block first.
* `ChainProofs` about `Node`, the composition of chain, fork handler and any number of workers
  * `NodeTypeCorrect`, `NodeTreeCorrect`: the fork handler moves the head and executes blocks by
    itself, and still the tree and the index are as AddBlock left them.
  * `ForksResolvedCorrect`: while a worker holds `fh.mu` the head is the one it read or a stored
    block (`WorkerOK`), so the walk from the new block's stored parent meets the old branch in the
    genesis block at the latest; the tree only grows, so a fork point found stays an ancestor while
    the worker waits for ResolveFork.
  * `CreditedOnceCorrect`: the genesis block, the blocks credited, those about to be and the one
    of a reorganisation are different stored blocks (`CountOK`).
* `TxProofs`, about the suite `tx`: `TxTypesCorrect`; `PoolAgreesCorrect` (`PoolInv`: types, a finite
  heap); `PriceSmoothCorrect` (for all adjustment factors, loads and prices: the arithmetic of a
  truncated weighted mean, `SmoothMove`, and the history as a sequence that grows and loses its head);
  `AcceptedOnceCorrect` (the window of every acceptance is over or its entry is still there and
  lasts as long, `WindowsCovered`; grants and running claims of a proof are counted together, over any
  number of claimants); `NilOnlyInStartCorrect` (`StopOK`: once Stop has waited no goroutine is left).
  A step of the suite is a step of one part, so the invariants of the parts add up to `TxInv`.
* `EconomyProofs`
  * `VotesDecideCorrect`, `DecisionFinalCorrect`: `VotesDecide` is inductive with the types, once
    the tallies are written as sums over identifiers and voters, of which a vote changes one
    summand and a creation adds one identifier without votes.
  * `StakesAccountedCorrect`: `StakesAccounted` is inductive with the types. The step is
    `ProcessUnstakes`, a loop over the queue that changes the records it shares with the map:
    an induction over the prefixes of the queue shows what each round leaves of every validator's
    stake, of the shared records and of the total (`ProcessShared`, `ProcessTotal`). The
    total alone is not inductive: what it reports after partial unstakes were processed is kept in
    the invariant, as a sum over the validators modulo 2^64 (`Counts`).
  * `SharesFairCorrect`: every weight is at most the whole, and a sum of truncated shares is at
    most the truncated sum.
  * `KeysKeptCorrect`, `NonceOnceCorrect` from `WalletInv`: which password every key is sealed
    with, which accounts a failed change has reached, and that a signed nonce is behind the
    account's, or equal to it while its one builder has still to update it.
  * `EconomyTypesCorrect`, `SelectionSoundCorrect`, about the suite `economy`: a step of the suite is a
    step of one part, and the invariants of the parts add up to `EconomyInv`. The engine's validators
    are what `SortOK` says of the sort by scores. The prefix count is a sum
    over the devices of which one changes (`DevicesChange`). For the limits of `poc.go` the
    invariant of the loop names the place every chosen node came from: whoever was left out
    found its prefix full of earlier places (`Limits`, `LimitsStep`), and those are all in the top
    that is cut off behind a worse node (`InvTopIsFair`).
* `StorageProofs`
  * `LRUConsistentCorrect`: map and list of the cache are changed by different code on every path.
    `CacheInv` says that the list names the cached keys once, and that any two keys stand in it as they
    do in the history of uses; the history may name more, the keys since evicted. The lemmas are about
    one key removed from a list (`RemoveFirstIs`) and one appended.
  * `StoresSoundCorrect`: `CacheSpec /\ DBSpec => []StoresSound`. `Durable` alone is not inductive: it
    speaks of what load would read if the directory could be loaded, and a torn file makes it true of
    anything. `DurInv` says it of each file: a file holds nothing but the entry of a key with its path
    (`FilesOwn`), and the file of a key holds the value promised, or no entry of a key promised absent (`Kept`). An
    operation on some keys changes no file of another path (`DiskStep`), which is proved of one file
    and then, by induction along the order in which a batch is written, of a `Write` that stops
    anywhere (`WriteTurn`). `AgreeInv` adds that the cache of a store that is not open is empty, and
    that its items never expire.
  * `HelpersSoundCorrect`: `IterSpec /\ BuilderSpec => []HelpersSound`. The binary search is a recursive
    function on pairs of ends; its equation is solved by where the search ends if `c` keys are
    smaller (`Clamped`), one step keeps that (`ClampedStep`), and for sorted keys `c` is their number
    (`LowerBoundIs`). That a finite set of keys can be listed in ascending order at all is an induction on
    its size (`AscendingExists`). For the helpers, `IterInv` follows the loop: the keys nobody touched
    are in the store as they were when the iterator was made, and the first of them are collected or
    deleted. For the builder, `BuilderAgrees` is inductive with the types and with the fact that
    a batch without operations counts 0 bytes, so that one operation alone is all that can exceed the
    limit (`BuilderInv`); a write that stopped half way and is repeated ends like one that did not.
* `NetworkProofs`
  * `TablesSoundCorrect`: `DHTSpec /\ TableSpec => []TablesSound`. `DHTInv` is `BucketsSound` with the types.
    The loop of Bootstrap keeps it in every round (`BootstrappedOK`). The search joins the buckets into
    one list without repetition, since a node is only ever in the bucket of its key (`AllNodesOK`); the
    comparison byte by byte is the comparison of two numbers (`CompareIs`, `CloserIs`), so it is a
    strict order and `SortOK` applies; what is cut off is no closer (`SearchIs`). Keys keep the modelled
    width of two digits; everything else is arbitrary. `TableInv` adds that what a bucket holds is the
    record of a peer, and that the peers listed are finitely many, so that they can be counted.
  * `InfraTypesOKCorrect`: all the stores and p2p components at once keep their types and their
    limits, from the invariants above and those of the clocks and queues (`RateTypes`, `PeerTypes`,
    `GossipTypes`).
  * `RateBoundedCorrect`: the messages in the window and the callers between Allow and Record
    together stay within the bound (`RateInv`).
  * `PeersSoundCorrect`: needs that no two peers have one connection (`PeerInv`).
  * `DeliveriesBoundedCorrect`: for any number of workers. The bound alone is not inductive; while a
    message is not in the map, the workers that have still to mark it do not count against it, and a
    mark brings in at most all of them at once (`LetIn`).

Assumptions: the named `ASSUME`s of the modules, which TLC evaluates in every run. Beside types
and finiteness they say: the modulus is above 1; the genesis block is at height 0 and has no
parent; heights fit a uint64 (`ForkBoundsAssumption`); the values that stand for "no vote", "no record",
"no count", "no block" and "no worker" are none (`NoVoteAssumption`, `NoRecordAssumption`, `EngineAssumption`, ...); TTLs fit
their width and there are finitely many workers (`GossipAssumption`); an adjustment factor is between 0 and 1,
and loads are percentages (`GasInputsAssumption`); a power of two is a positive natural
(`PowerAssumption`, a fact of arithmetic the provers do not know); a batch has finitely many puts, none
of them for a key it deletes, as `fileDBBatch` makes them, and a file that is absent or torn is no entry
(`DBAssumption`); the keys of an iterator are finitely many and no stored value is nil, since Get
answers with a copy (`IteratorAssumption`); nodes are a key and an address (`KademliaAssumption`). The hypotheses
`PlainTransactions`, `Guarded = Executors` and `SupplyFits` are stated in the theorems that need
them; `executor_serial` is an instance of all three.

Only model-checked:
* liveness (`AddBlockReturns`, `BlocksAreProcessed`, `SignalEnds`): beyond the prover;
* `RootsCommit` and `AnswersOwn`: their functions are RECURSIVE operators on trees of any depth, and
  what a recursive definition computes for every input is an induction over data, beyond the prover.

Every other invariant and action property that a passing run checks is a theorem.

## 5. Plan

1. Done: `Accounts`, `Ledger`, `TransactionExecutor` with proofs; `BlockChain`,
   `ChainAudit` with proofs; `ForkHandler` and `Node`.
2. Done: the pool, the gas price, the validators, the life cycle; staking,
   governance, both consensus components, the wallet; stores, p2p, Merkle trees, the trie.
3. Done: proofs for the executor's book, for `ChainAudit`, `Node` and the suite `tx`; for
   staking, governance, both consensus components and the wallet; for the rate limiter, the peer
   manager and `Gossip`.
4. Done: proofs for the stores, their helpers, the DHT and the routing table.
5. Left: liveness of the node under its fairness, and the Merkle trees and the trie, which stay with
   TLC; more of `p2p.go` and of the state trie once the node uses them.

## 6. Not modelled

* The RPC server and its handlers: HTTP plumbing around constants.
* Address, IPv6 header and message encoders, the C header library, mnemonics, key
  derivation, ciphers and signatures: stateless functions on bytes. Where their outcome
  matters it is a flag or a choice.
* Sockets, dialling, bootstrap and ping of p2p; the sync and discovery workers of the node
  do no work on the state yet.
* Hashing, serialisation and the iterator of the trie: serialising a leaf panics and the
  iterator's stack is never filled, so nothing can use them.
* Fields that are written and never read (`chainHeight` of the pool, forwarded packets of
  PoC), gas figures, receipts, statistics and logs: they feed back into no state.

---------------------------- MODULE ChainProofs -----------------------------
(***************************************************************************)
(* Proofs about the block chain, for every universe of blocks, every bound *)
(* and every state database.  Of BlockChain and ChainAudit:                *)
(*   ChainTypeCorrect, TreeIndexedCorrect   the tree and the height index; *)
(*   HeadAdvancesCorrect                    how the head moves;            *)
(*   HeadIsLongestCorrect                   that it is the greatest height;*)
(*   ForkAlwaysDecidedCorrect               what selectBestChain answers;  *)
(*   CleanStateCorrect                      what the state database holds. *)
(* Of Node, where any number of workers process blocks on one chain and one*)
(* fork handler, for every maxForkDepth and every reward:                  *)
(*   NodeTypeCorrect      the types of the chain, the handler, the workers;*)
(*   NodeTreeCorrect      tree and height index, although the fork handler *)
(*                        moves the head by itself;                        *)
(*   ForksResolvedCorrect  forks are resolved from a common block up;      *)
(*   CreditedOnceCorrect  no block is credited twice.                      *)
(***************************************************************************)
EXTENDS Node, ChainAudit, AccountsProofs, SumProofs, SequenceTheorems

\* What holds of the AddBlock call that is past its checks.  Before it stores
\* the block, the block is new and valid; in a reorganisation it is stored
\* and above the head.
CallOK ==
    /\ adding = NoBlock => phase = "execute"
    /\ adding # NoBlock /\ phase = "execute" =>
          /\ adding \notin blocks
          /\ Prev(adding) \in blocks
          /\ Height(adding) = Height(Prev(adding)) + 1
          /\ Header[adding].timestamp > Header[Prev(adding)].timestamp
          /\ Header[adding].timestamp <= now + Drift
    /\ phase = "reorg" => adding \in blocks /\ Longer(adding)

ChainInv == TypeOK /\ CallOK /\ TreeOK /\ HeightIndexOK

-----------------------------------------------------------------------------

LEMMA HeaderTypes ==
  ASSUME NEW b \in Block
  PROVE  /\ Height(b) \in Heights /\ Height(b) \in Nat
         /\ Header[b].timestamp \in Nat
         /\ Prev(b) \in Block \cup {NoBlock}
  BY HeaderAssumption, BoundsAssumption DEF Height, Prev, HeaderType, Heights

LEMMA ChainInit == Init => ChainInv
<1> SUFFICES ASSUME Init PROVE ChainInv
  OBVIOUS
<1>1. TypeOK
  BY GenesisAssumption, NoBlockAssumption, BoundsAssumption
  DEF Init, TypeOK, Phase, AccountMap, EmptyAccounts, Heights
<1>2. CallOK
  BY DEF Init, CallOK
<1>3. TreeOK
  BY DEF Init, TreeOK
<1>4. HeightIndexOK
  <2>1. 0 \in Heights
    BY BoundsAssumption DEF Heights
  <2>2. Height(Genesis) = 0
    BY GenesisAssumption DEF Height
  <2>3. heightMap[0] = <<Genesis>>
    BY <2>1 DEF Init
  <2>4. \A h \in Heights : h # 0 => heightMap[h] = <<>>
    BY DEF Init
  <2> QED BY <2>1, <2>2, <2>3, <2>4 DEF Init, HeightIndexOK
<1> QED BY <1>1, <1>2, <1>3, <1>4 DEF ChainInv

\* Storing a valid new block keeps the tree and the index.
LEMMA InsertInv ==
  ASSUME ChainInv, adding # NoBlock, phase = "execute", Insert(adding), now' = now
  PROVE  /\ blocks' \subseteq Block
         /\ heightMap' \in [Heights -> Seq(Block)]
         /\ TreeOK' /\ HeightIndexOK'
<1> DEFINE b == adding
           h == Height(b)
<1>1. b \in Block /\ h \in Heights /\ b \notin blocks
  BY HeaderTypes DEF ChainInv, TypeOK, CallOK
<1>2. blocks' = blocks \cup {b} /\ blocks' \subseteq Block
  BY <1>1 DEF Insert, ChainInv, TypeOK
<1>3. heightMap[h] \in Seq(Block)
  BY <1>1 DEF ChainInv, TypeOK
<1>4. /\ heightMap' \in [Heights -> Seq(Block)]
      /\ heightMap'[h] = Append(heightMap[h], b)
      /\ \A k \in Heights : k # h => heightMap'[k] = heightMap[k]
  BY <1>1, <1>3 DEF Insert, ChainInv, TypeOK
<1>5. TreeOK'
  BY <1>2 DEF TreeOK, ChainInv, CallOK, Prev, Height
<1>6. HeightIndexOK'
  <2>1. ASSUME NEW k \in Heights, NEW i \in DOMAIN heightMap'[k]
        PROVE  /\ heightMap'[k][i] \in blocks'
               /\ Height(heightMap'[k][i]) = k
               /\ \A j \in DOMAIN heightMap'[k] : heightMap'[k][i] = heightMap'[k][j] => i = j
    <3>1. CASE k # h
      BY <3>1, <1>2, <1>4 DEF ChainInv, HeightIndexOK
    <3>2. CASE k = h
      <4>1. DOMAIN heightMap'[h] = 1 .. (Len(heightMap[h]) + 1)
        BY <1>1, <1>3, <1>4
      <4>2. heightMap'[h][Len(heightMap[h]) + 1] = b
        BY <1>1, <1>3, <1>4
      <4>3. ASSUME NEW j \in DOMAIN heightMap'[h], j # Len(heightMap[h]) + 1
            PROVE  /\ j \in DOMAIN heightMap[h]
                   /\ heightMap'[h][j] = heightMap[h][j]
        BY <4>1, <4>3, <1>1, <1>3, <1>4
      <4>4. ASSUME NEW j \in DOMAIN heightMap[h]
            PROVE  /\ heightMap[h][j] \in blocks
                   /\ heightMap[h][j] # b
                   /\ Height(heightMap[h][j]) = h
                   /\ \A l \in DOMAIN heightMap[h] : heightMap[h][j] = heightMap[h][l] => j = l
        BY <1>1 DEF ChainInv, HeightIndexOK
      <4> QED BY <3>2, <4>2, <4>3, <4>4, <1>2
    <3> QED BY <3>1, <3>2
  <2>2. ASSUME NEW x \in blocks'
        PROVE  \E i \in DOMAIN heightMap'[Height(x)] : heightMap'[Height(x)][i] = x
    <3>1. CASE x = b
      <4>1. Len(heightMap[h]) + 1 \in DOMAIN heightMap'[h]
        BY <1>1, <1>3, <1>4
      <4>2. heightMap'[h][Len(heightMap[h]) + 1] = b
        BY <1>1, <1>3, <1>4
      <4> QED BY <3>1, <4>1, <4>2
    <3>2. CASE x # b
      <4>1. x \in blocks /\ x \in Block
        BY <3>2, <1>2
      <4>2. PICK i \in DOMAIN heightMap[Height(x)] : heightMap[Height(x)][i] = x
        BY <4>1 DEF ChainInv, HeightIndexOK
      <4>3. CASE Height(x) = h
        <5>1. i \in DOMAIN heightMap'[h] /\ heightMap'[h][i] = heightMap[h][i]
          BY <4>2, <4>3, <1>1, <1>3, <1>4
        <5> QED BY <4>2, <4>3, <5>1
      <4>4. CASE Height(x) # h
        BY <4>1, <4>2, <4>4, <1>4, HeaderTypes
      <4> QED BY <4>3, <4>4
    <3> QED BY <3>1, <3>2
  <2> QED BY <2>1, <2>2 DEF HeightIndexOK
<1> QED BY <1>2, <1>4, <1>5, <1>6

LEMMA ChainNext == ChainInv /\ [Next]_vars => ChainInv'
<1> SUFFICES ASSUME ChainInv, [Next]_vars PROVE ChainInv'
  OBVIOUS
<1> USE DEF chainVars, callVars
<1>1. ASSUME NEW b \in Block, BeginAdd(b) PROVE ChainInv'
  <2>1. TypeOK'
    BY <1>1 DEF BeginAdd, ChainInv, TypeOK, Phase
  <2>2. CallOK'
    BY <1>1, NoBlockAssumption DEF BeginAdd, Acceptable, ValidateBlock, CallOK, Prev, Height
  <2>3. TreeOK' /\ HeightIndexOK'
    BY <1>1 DEF BeginAdd, ChainInv, TreeOK, HeightIndexOK
  <2> QED BY <2>1, <2>2, <2>3 DEF ChainInv
<1>2. CASE ExecuteTx
  <2>1. BlockTxs[at] \in Seq(Transaction) /\ pos \in 1 .. Len(BlockTxs[at])
    BY <1>2, BlockTxsAssumption DEF ExecuteTx, MoreTxs, ChainInv, TypeOK
  <2>2. BlockTxs[at][pos] \in Transaction
    BY <2>1
  <2>3. accounts' \in AccountMap
    BY <1>2, <2>2, ExecuteTransactionType DEF ExecuteTx, ChainInv, TypeOK
  <2>4. TypeOK'
    BY <1>2, <2>3 DEF ExecuteTx, ChainInv, TypeOK
  <2> QED BY <1>2, <2>4 DEF ExecuteTx, ChainInv, CallOK, TreeOK, HeightIndexOK, Longer
<1>3. CASE ExecuteTxFails \/ StateRootMismatch
  BY <1>3, GenesisAssumption
  DEF ExecuteTxFails, StateRootMismatch, ReleaseMutex, ChainInv, TypeOK, CallOK,
      TreeOK, HeightIndexOK, Phase
<1>4. CASE AddToSideBranch \/ ExtendHead \/ \E forkPoint \in Block : KeepCurrentChain(forkPoint)
  <2>1. /\ adding # NoBlock /\ phase = "execute" /\ Insert(adding) /\ now' = now
        /\ accounts' = accounts /\ ReleaseMutex
        /\ chainHead' = chainHead \/ chainHead' = adding
    BY <1>4 DEF AddToSideBranch, ExtendHead, KeepCurrentChain, SelectBestChain, Executed
  <2>2. /\ blocks' \subseteq Block
        /\ heightMap' \in [Heights -> Seq(Block)]
        /\ TreeOK' /\ HeightIndexOK'
    BY <2>1, InsertInv
  <2>3. TypeOK' /\ CallOK'
    BY <2>1, <2>2, GenesisAssumption DEF ReleaseMutex, ChainInv, TypeOK, CallOK, Phase
  <2> QED BY <2>2, <2>3 DEF ChainInv
<1>5. ASSUME NEW forkPoint \in Block, NEW first \in Block, BeginReorg(forkPoint, first)
      PROVE  ChainInv'
  <2>1. /\ adding # NoBlock /\ phase = "execute" /\ Insert(adding)
        /\ Longer(adding) /\ phase' = "reorg" /\ at' = first /\ pos' = 1
        /\ UNCHANGED <<chainHead, accounts, now, adding>>
    BY <1>5 DEF BeginReorg, SelectBestChain, Executed
  <2>2. /\ blocks' \subseteq Block
        /\ heightMap' \in [Heights -> Seq(Block)]
        /\ TreeOK' /\ HeightIndexOK'
    BY <2>1, InsertInv
  <2>3. TypeOK'
    BY <2>1, <2>2 DEF ChainInv, TypeOK, Phase
  <2>4. CallOK'
    BY <2>1 DEF CallOK, Insert, Longer, Height
  <2> QED BY <2>2, <2>3, <2>4 DEF ChainInv
<1>6. ASSUME NEW next \in Block, ReorgNextBlock(next) PROVE ChainInv'
  BY <1>6 DEF ReorgNextBlock, ChainInv, TypeOK, CallOK, TreeOK, HeightIndexOK, Longer
<1>7. CASE EndReorg
  <2>1. TypeOK'
    BY <1>7, GenesisAssumption DEF EndReorg, ReleaseMutex, ChainInv, TypeOK, Phase
  <2> QED BY <1>7, <2>1 DEF EndReorg, ReleaseMutex, ChainInv, CallOK, TreeOK, HeightIndexOK
<1>8. CASE Tick
  <2>1. TypeOK'
    BY <1>8, BoundsAssumption DEF Tick, ChainInv, TypeOK
  <2>2. /\ now \in Nat /\ now' = now + 1
        /\ \A b \in Block : Header[b].timestamp \in Nat
    BY <1>8, HeaderTypes DEF Tick, ChainInv, TypeOK
  <2>3. \A b \in Block : Header[b].timestamp <= now + Drift => Header[b].timestamp <= now' + Drift
    BY <2>2, BoundsAssumption
  <2>4. CallOK'
    BY <1>8, <2>3 DEF Tick, ChainInv, TypeOK, CallOK, Longer
  <2>5. TreeOK'
    BY <1>8, <2>3 DEF Tick, ChainInv, TypeOK, TreeOK
  <2>6. HeightIndexOK'
    BY <1>8 DEF Tick, ChainInv, HeightIndexOK
  <2> QED BY <2>1, <2>4, <2>5, <2>6 DEF ChainInv
<1>9. CASE UNCHANGED vars
  BY <1>9 DEF vars, ChainInv, TypeOK, CallOK, TreeOK, HeightIndexOK, Longer
<1> QED
  BY <1>1, <1>2, <1>3, <1>4, <1>5, <1>6, <1>7, <1>8, <1>9 
  DEF Next, AddBlockStep, AddBlockContinues, AddBlockFails, AddBlockSucceeds

\* Whatever blocks arrive, in whatever order and however often, BlockChain
\* keeps its variables in their types ...
THEOREM ChainTypeCorrect == Spec => []TypeOK
<1>1. ChainInv => TypeOK
  BY DEF ChainInv
<1> QED BY <1>1, ChainInit, ChainNext, PTL DEF Spec

\* ... its blocks a tree of valid children of stored blocks ...
THEOREM TreeCorrect == Spec => []TreeOK
<1>1. ChainInv => TreeOK
  BY DEF ChainInv
<1> QED BY <1>1, ChainInit, ChainNext, PTL DEF Spec

\* ... and its height index equal to the map of blocks.
THEOREM HeightIndexCorrect == Spec => []HeightIndexOK
<1>1. ChainInv => HeightIndexOK
  BY DEF ChainInv
<1> QED BY <1>1, ChainInit, ChainNext, PTL DEF Spec

\* Both together, as the runs check them.
THEOREM TreeIndexedCorrect == Spec => []TreeIndexed
<1>1. TreeOK /\ HeightIndexOK => TreeIndexed
  BY DEF TreeIndexed
<1> QED BY <1>1, TreeCorrect, HeightIndexCorrect, PTL

-----------------------------------------------------------------------------
(* The head.                                                               *)

\* A step that moves the head moves it to the block being added, which is
\* then stored and above the old head.
LEMMA HeadMoves ==
  ASSUME ChainInv, Next, chainHead' # chainHead
  PROVE  /\ adding # NoBlock
         /\ chainHead' = adding
         /\ Longer(adding)
         /\ adding \in blocks'
<1> USE DEF chainVars, callVars
<1>1. CASE ExtendHead \/ \E forkPoint \in Block : KeepCurrentChain(forkPoint)
  BY <1>1 DEF ExtendHead, KeepCurrentChain, SelectBestChain, Executed, Insert
<1>2. CASE EndReorg
  BY <1>2 DEF EndReorg, ChainInv, CallOK
<1> QED
  BY <1>1, <1>2
  DEF Next, AddBlockStep, AddBlockContinues, AddBlockFails, AddBlockSucceeds, BeginAdd,
      ExecuteTx, ExecuteTxFails, StateRootMismatch, AddToSideBranch, BeginReorg,
      ReorgNextBlock, Tick

\* No step removes a block.
LEMMA BlocksGrow == Next => blocks \subseteq blocks'
  BY DEF Next, AddBlockStep, AddBlockContinues, AddBlockFails, AddBlockSucceeds, BeginAdd,
      ExecuteTx, ExecuteTxFails, StateRootMismatch, AddToSideBranch, BeginReorg,
      ReorgNextBlock, Tick, ExtendHead, KeepCurrentChain, SelectBestChain, EndReorg,
      Insert, chainVars

\* With AddBlock alone, the head never moves to a lower or unstored block and no
\* block is lost, whatever branches compete and whichever steps fail.
THEOREM HeadAdvancesCorrect == Spec => HeadAdvances
<1>1. ChainInv /\ [Next]_vars =>
        [/\ chainHead' # chainHead =>
                Height(chainHead') >= Height(chainHead) /\ chainHead' \in blocks'
         /\ blocks \subseteq blocks']_chainVars
  <2> SUFFICES ASSUME ChainInv, Next
               PROVE  /\ chainHead' # chainHead =>
                            Height(chainHead') >= Height(chainHead) /\ chainHead' \in blocks'
                      /\ blocks \subseteq blocks'
    BY DEF vars, chainVars
  <2>1. Height(chainHead) \in Nat /\ (Height(adding) \in Nat \/ adding = NoBlock)
    BY HeaderTypes DEF ChainInv, TypeOK
  <2> QED BY <2>1, HeadMoves, BlocksGrow DEF Longer
<1> QED BY <1>1, ChainInit, ChainNext, PTL DEF Spec, HeadAdvances

\* The inductive invariant of ChainAudit: the tree, and the head above every
\* stored block that is neither refused nor being added.
AuditInv == ChainInv /\ HeadIsLongest

LEMMA AuditStep == AuditNext => Next
  BY DEF AuditNext, OnMainChain, OffMainChain, Fails, Switches, Next, AddBlockStep,
         AddBlockContinues, AddBlockFails, AddBlockSucceeds

LEMMA AuditInvNext == AuditInv /\ [AuditNext]_<<vars, auditVars>> => AuditInv'
<1> SUFFICES ASSUME AuditInv, [AuditNext]_<<vars, auditVars>> PROVE AuditInv'
  OBVIOUS
<1>1. ChainInv'
  BY AuditStep, ChainNext DEF AuditInv
<1> SUFFICES HeadIsLongest'
  BY <1>1 DEF AuditInv
<1> USE DEF chainVars, callVars, auditVars
<1>2. /\ \A b \in Block : Height(b) \in Nat
      /\ blocks \subseteq Block /\ chainHead \in Block
      /\ adding \in Block \cup {NoBlock} /\ NoBlock \notin Block
  BY HeaderTypes, NoBlockAssumption DEF AuditInv, ChainInv, TypeOK
<1>3. /\ chainHead \in blocks
      /\ \A b \in blocks : b # adding /\ Height(b) > Height(chainHead) => b \in refused
  BY DEF AuditInv, HeadIsLongest, Longer
<1>4. adding # NoBlock /\ phase = "execute" => adding \notin blocks
  BY DEF AuditInv, ChainInv, CallOK
<1>5. ASSUME NEW b \in Block, BeginAdd(b), UNCHANGED refused PROVE HeadIsLongest'
  BY <1>2, <1>3, <1>5 DEF BeginAdd, Acceptable, HeadIsLongest, Longer
<1>6. CASE (ExecuteTx \/ Tick \/ \E next \in Block : ReorgNextBlock(next)) /\ UNCHANGED refused
  BY <1>3, <1>6 DEF ExecuteTx, Tick, ReorgNextBlock, HeadIsLongest, Longer
<1>7. CASE (ExtendHead \/ EndReorg) /\ UNCHANGED refused
  <2>1. /\ adding \in Block /\ chainHead' = adding /\ adding' = NoBlock
        /\ Height(adding) > Height(chainHead)
        /\ blocks' = blocks \cup {adding}
    BY <1>2, <1>7
    DEF ExtendHead, EndReorg, Executed, Longer, Insert, ReleaseMutex, AuditInv, ChainInv, CallOK
  <2> QED BY <1>2, <1>3, <1>7, <2>1 DEF HeadIsLongest, Longer
<1>8. CASE AddToSideBranch /\ UNCHANGED refused
  <2>1. /\ chainHead' = chainHead /\ adding' = NoBlock
        /\ ~ (Height(adding) > Height(chainHead))
        /\ blocks' = blocks \cup {adding}
    BY <1>8 DEF AddToSideBranch, Longer, Insert, ReleaseMutex
  <2> QED BY <1>3, <1>8, <2>1 DEF HeadIsLongest, Longer
<1>9. CASE StateRootMismatch /\ UNCHANGED refused
  BY <1>3, <1>4, <1>9 DEF StateRootMismatch, Executed, HeadIsLongest, Longer
<1>10. CASE Fails
  BY <1>3, <1>4, <1>10
  DEF Fails, ExecuteTxFails, HeadIsLongest, Longer, AuditInv, ChainInv, TypeOK, Phase
<1>11. CASE Switches
  <2>1. /\ UNCHANGED <<chainHead, adding, refused>>
        /\ blocks' = blocks \cup {adding}
    BY <1>11 DEF Switches, BeginReorg, SelectBestChain, Insert
  <2> QED BY <1>3, <2>1 DEF HeadIsLongest, Longer
<1>12. CASE UNCHANGED <<vars, auditVars>>
  BY <1>3, <1>12 DEF vars, HeadIsLongest, Longer
<1> QED
  BY <1>5, <1>6, <1>7, <1>8, <1>9, <1>10, <1>11, <1>12 DEF AuditNext, OnMainChain, OffMainChain

LEMMA AuditInitInv == AuditInit => AuditInv
<1> SUFFICES ASSUME AuditInit PROVE AuditInv
  OBVIOUS
<1>1. ChainInv
  BY ChainInit DEF AuditInit
<1>2. HeadIsLongest
  BY HeaderTypes, GenesisAssumption DEF AuditInit, Init, HeadIsLongest, Longer
<1> QED BY <1>1, <1>2 DEF AuditInv

\* No stored block is above the head, except one whose reorganisation failed
\* on a transaction, or the one being added.
THEOREM HeadIsLongestCorrect == AuditSpec => []HeadIsLongest
<1>1. AuditInv => HeadIsLongest
  BY DEF AuditInv
<1> QED BY <1>1, AuditInitInv, AuditInvNext, PTL DEF AuditSpec

-----------------------------------------------------------------------------
(* Walks.  A walk is a recursive function; that its equation has a         *)
(* solution, and what it computes, is proved from the tree.                *)

\* The walk w from every block, through stored blocks.
IsWalk(stored, w) ==
    w = [x \in Block |-> {x} \cup (IF Prev(x) \in stored THEN w[Prev(x)] ELSE {})]

\* The least sets closed under stored parents solve the equation.
LEMMA WalkExists ==
  ASSUME NEW stored \in SUBSET Block
  PROVE  \E w : IsWalk(stored, w)
<1> DEFINE Closed(C) == \A z \in C : Prev(z) \in stored => Prev(z) \in C
           Met(x) == {y \in Block : \A C \in SUBSET Block : x \in C /\ Closed(C) => y \in C}
           w == [x \in Block |-> Met(x)]
<1>1. ASSUME NEW x \in Block
      PROVE  Met(x) = {x} \cup (IF Prev(x) \in stored THEN Met(Prev(x)) ELSE {})
  <2>1. x \in Met(x)
    OBVIOUS
  <2>2. CASE Prev(x) \in stored
    <3>1. Prev(x) \in Block
      BY <2>2
    <3>2. ASSUME NEW y \in Met(Prev(x)) PROVE y \in Met(x)
      <4> SUFFICES ASSUME NEW C \in SUBSET Block, x \in C, Closed(C) PROVE y \in C
        BY <3>2
      <4>1. Prev(x) \in C
        BY <2>2
      <4> QED BY <3>2, <4>1
    <3>3. ASSUME NEW y \in Met(x), y # x PROVE y \in Met(Prev(x))
      <4> SUFFICES ASSUME NEW C \in SUBSET Block, Prev(x) \in C, Closed(C) PROVE y \in C
        BY <3>3
      <4>1. C \cup {x} \in SUBSET Block /\ Closed(C \cup {x})
        OBVIOUS
      <4> QED BY <3>3, <4>1
    <3> QED BY <2>1, <2>2, <3>2, <3>3
  <2>3. CASE Prev(x) \notin stored
    <3>1. {x} \in SUBSET Block /\ Closed({x})
      BY <2>3
    <3>2. \A y \in Met(x) : y = x
      BY <3>1
    <3> QED BY <2>1, <2>3, <3>2
  <2> QED BY <2>2, <2>3
<1>2. ASSUME NEW x \in Block
      PROVE  Met(x) = {x} \cup (IF Prev(x) \in stored THEN w[Prev(x)] ELSE {})
  <2> HIDE DEF Met
  <2> QED BY <1>1
<1>3. IsWalk(stored, w)
  <2> HIDE DEF Met
  <2>1. w = [x \in Block |-> {x} \cup (IF Prev(x) \in stored THEN w[Prev(x)] ELSE {})]
    BY <1>2
  <2> QED BY <2>1 DEF IsWalk
<1> HIDE DEF w
<1> QED BY <1>3

\* The equation of the walk holds of Ancestors.
LEMMA AncestorsStep ==
  ASSUME NEW stored \in SUBSET Block, NEW b \in Block
  PROVE  Ancestors(stored, b) =
            {b} \cup (IF Prev(b) \in stored THEN Ancestors(stored, Prev(b)) ELSE {})
<1> DEFINE w == CHOOSE v : IsWalk(stored, v)
<1>1. IsWalk(stored, w)
  BY WalkExists
<1>2. \A x \in Block : Ancestors(stored, x) = w[x]
  BY DEF Ancestors, IsWalk
<1> HIDE DEF w
<1>3. w[b] = {b} \cup (IF Prev(b) \in stored THEN w[Prev(b)] ELSE {})
  BY <1>1 DEF IsWalk
<1> QED BY <1>2, <1>3

\* The stored blocks are a tree: each but the genesis has a stored parent one
\* lower.
Rooted(stored) ==
    /\ stored \subseteq Block /\ Genesis \in stored
    /\ \A b \in stored \ {Genesis} : Prev(b) \in stored /\ Height(b) = Height(Prev(b)) + 1

\* Heights fall along a walk, so what passes from a parent to its children
\* holds of every block.
LEMMA WalkInduction ==
  ASSUME NEW stored, Rooted(stored), NEW Good \in SUBSET Block,
         \A b \in Block : (Prev(b) \in stored => Prev(b) \in Good) => b \in Good
  PROVE  Good = Block
<1> DEFINE rank == [x \in Block |-> IF x \in stored THEN Height(x) ELSE MaxHeight + 1]
           Bad == Block \ Good
<1>1. \A x \in Block : rank[x] \in Nat
  BY HeaderTypes, BoundsAssumption
<1>2. ASSUME NEW x \in Block, Prev(x) \in stored PROVE rank[Prev(x)] < rank[x]
  <2>1. Prev(x) \in Block /\ rank[Prev(x)] = Height(Prev(x)) /\ Height(Prev(x)) \in 0 .. MaxHeight
    BY <1>2, HeaderTypes DEF Rooted, Heights
  <2>2. CASE x \in stored
    <3>1. x # Genesis
      BY <1>2, GenesisAssumption, NoBlockAssumption DEF Rooted, Prev
    <3>2. Height(x) = Height(Prev(x)) + 1
      BY <2>2, <3>1 DEF Rooted
    <3> QED BY <2>1, <2>2, <3>2
  <2>3. CASE x \notin stored
    BY <2>1, <2>3, BoundsAssumption
  <2> QED BY <2>2, <2>3
<1> HIDE DEF rank
<1>3. CASE Bad # {}
  <2>1. PICK b \in Bad : \A y \in Bad : rank[b] <= rank[y]
    <3>1. \A x \in Bad : rank[x] \in Nat
      BY <1>1
    <3> HIDE DEF Bad
    <3> QED BY <1>3, <3>1, LeastRank
  <2>2. Prev(b) \in stored /\ Prev(b) \in Bad
    BY DEF Rooted
  <2>3. rank[Prev(b)] < rank[b] /\ rank[b] <= rank[Prev(b)]
    BY <1>2, <2>1, <2>2
  <2>4. rank[b] \in Nat /\ rank[Prev(b)] \in Nat
    BY <1>1, <2>2
  <2> QED BY <2>3, <2>4
<1> QED BY <1>3

\* A walk meets, after its first block, only stored blocks, each lower than a
\* stored first block; and it ends at the genesis block.
LEMMA WalkMeets ==
  ASSUME NEW stored, Rooted(stored), NEW b \in Block
  PROVE  /\ Ancestors(stored, b) \subseteq stored \cup {b}
         /\ b \in stored => \A x \in Ancestors(stored, b) : x = b \/ Height(x) < Height(b)
         /\ b \in stored \/ Prev(b) \in stored => Genesis \in Ancestors(stored, b)
<1> DEFINE Good == {x \in Block :
              /\ Ancestors(stored, x) \subseteq stored \cup {x}
              /\ x \in stored => \A y \in Ancestors(stored, x) : y = x \/ Height(y) < Height(x)
              /\ x \in stored \/ Prev(x) \in stored => Genesis \in Ancestors(stored, x)}
<1>1. ASSUME NEW x \in Block, Prev(x) \in stored => Prev(x) \in Good
      PROVE  x \in Good
  <2>1. CASE Prev(x) \in stored
    <3>1. Ancestors(stored, x) = {x} \cup Ancestors(stored, Prev(x)) /\ Prev(x) \in Good
      BY <1>1, <2>1, AncestorsStep DEF Rooted
    <3>2. ASSUME x \in stored, NEW y \in Ancestors(stored, x), y # x
          PROVE  Height(y) < Height(x)
      <4>1. x # Genesis
        BY <2>1, GenesisAssumption, NoBlockAssumption DEF Rooted, Prev
      <4>2. Height(x) = Height(Prev(x)) + 1
        BY <3>2, <4>1 DEF Rooted
      <4>3. y = Prev(x) \/ Height(y) < Height(Prev(x))
        BY <2>1, <3>1, <3>2
      <4>4. y \in Block /\ Prev(x) \in Block
        BY <2>1, <3>1, <3>2 DEF Rooted
      <4> QED BY <4>2, <4>3, <4>4, HeaderTypes
    <3> QED BY <2>1, <3>1, <3>2
  <2>2. CASE Prev(x) \notin stored
    <3>1. Ancestors(stored, x) = {x}
      BY <2>2, AncestorsStep DEF Rooted
    <3>2. x \in stored => x = Genesis
      BY <2>2 DEF Rooted
    <3> QED BY <2>2, <3>1, <3>2
  <2> QED BY <2>1, <2>2
<1>2. Good = Block
  <2>1. Good \in SUBSET Block
    OBVIOUS
  <2> HIDE DEF Good
  <2> QED BY <1>1, <2>1, WalkInduction
<1> QED BY <1>2

\* A walk through a tree does not change when the tree grows.
LEMMA AncestorsKept ==
  ASSUME NEW stored, Rooted(stored), NEW more \in SUBSET Block, stored \subseteq more,
         NEW b \in Block, b \in stored \/ Prev(b) \in stored
  PROVE  Ancestors(more, b) = Ancestors(stored, b)
<1> DEFINE Good == {x \in Block : x \in stored => Ancestors(more, x) = Ancestors(stored, x)}
<1>1. ASSUME NEW x \in Block
      PROVE  /\ Ancestors(stored, x) =
                   {x} \cup (IF Prev(x) \in stored THEN Ancestors(stored, Prev(x)) ELSE {})
             /\ Ancestors(more, x) =
                   {x} \cup (IF Prev(x) \in more THEN Ancestors(more, Prev(x)) ELSE {})
  BY AncestorsStep DEF Rooted
<1>2. ASSUME NEW x \in Block, Prev(x) \in stored => Prev(x) \in Good
      PROVE  x \in Good
  <2> SUFFICES ASSUME x \in stored PROVE Ancestors(more, x) = Ancestors(stored, x)
    BY <1>2
  <2>1. Prev(x) \in stored \/ (Prev(x) \notin stored /\ Prev(x) \notin more)
    BY GenesisAssumption, NoBlockAssumption DEF Rooted, Prev
  <2> QED BY <1>1, <1>2, <2>1
<1>3. Good = Block
  <2>1. Good \in SUBSET Block
    OBVIOUS
  <2> HIDE DEF Good
  <2> QED BY <1>2, <2>1, WalkInduction
<1>4. CASE b \in stored
  BY <1>3, <1>4
<1>5. CASE Prev(b) \in stored
  <2>1. Prev(b) \in more /\ Ancestors(more, Prev(b)) = Ancestors(stored, Prev(b))
    BY <1>3, <1>5 DEF Rooted
  <2> QED BY <1>1, <1>5, <2>1
<1> QED BY <1>4, <1>5

\* A block that a walk meets brings its parent.
LEMMA ParentMet ==
  ASSUME NEW stored, Rooted(stored), NEW b \in Block, NEW x \in Ancestors(stored, b),
         Prev(x) \in stored
  PROVE  Prev(x) \in Ancestors(stored, b)
<1> DEFINE Good == {y \in Block : \A z \in Ancestors(stored, y) :
                       Prev(z) \in stored => Prev(z) \in Ancestors(stored, y)}
<1>1. ASSUME NEW y \in Block, Prev(y) \in stored => Prev(y) \in Good
      PROVE  y \in Good
  <2>1. Ancestors(stored, y) =
           {y} \cup (IF Prev(y) \in stored THEN Ancestors(stored, Prev(y)) ELSE {})
    BY AncestorsStep DEF Rooted
  <2>2. Prev(y) \in stored => Prev(y) \in Ancestors(stored, Prev(y))
    <3>1. Prev(y) \in stored => Prev(y) \in Block
      BY DEF Rooted
    <3> QED BY <3>1, AncestorsStep DEF Rooted
  <2> QED BY <1>1, <2>1, <2>2
<1>2. Good = Block
  <2>1. Good \in SUBSET Block
    OBVIOUS
  <2> HIDE DEF Good
  <2> QED BY <1>1, <2>1, WalkInduction
<1> QED BY <1>2

\* Of some blocks that a walk meets it meets one first, and from there on all
\* the others.
LEMMA FirstMetExists ==
  ASSUME NEW stored, Rooted(stored), NEW b \in Block,
         NEW S \in SUBSET Ancestors(stored, b), S # {}
  PROVE  \E x \in S : FirstMet(stored, S, x)
<1> DEFINE Good == {x \in Block : \A T \in SUBSET Ancestors(stored, x) :
                       T # {} => \E y \in T : T \subseteq Ancestors(stored, y)}
<1>1. ASSUME NEW x \in Block, Prev(x) \in stored => Prev(x) \in Good
      PROVE  x \in Good
  <2> SUFFICES ASSUME NEW T \in SUBSET Ancestors(stored, x), T # {}
               PROVE  \E y \in T : T \subseteq Ancestors(stored, y)
    BY <1>1
  <2>1. CASE x \in T
    BY <2>1
  <2>2. CASE x \notin T
    <3>1. Ancestors(stored, x) =
             {x} \cup (IF Prev(x) \in stored THEN Ancestors(stored, Prev(x)) ELSE {})
      BY AncestorsStep DEF Rooted
    <3>2. Prev(x) \in stored /\ T \in SUBSET Ancestors(stored, Prev(x))
      BY <2>2, <3>1
    <3> QED BY <1>1, <3>2
  <2> QED BY <2>1, <2>2
<1>2. Good = Block
  <2>1. Good \in SUBSET Block
    OBVIOUS
  <2> HIDE DEF Good
  <2> QED BY <1>1, <2>1, WalkInduction
<1>3. \E x \in S : S \subseteq Ancestors(stored, x)
  BY <1>2
<1> QED BY <1>3 DEF FirstMet

\* The difficulty of a stored branch is its length.
LEMMA DifficultyIsLength ==
  ASSUME NEW stored, Rooted(stored), NEW b \in stored, NEW h \in Nat, h <= Height(b)
  PROVE  calculateChainDifficulty(stored, b, h) = Height(b) - h + 1
<1> DEFINE Down(x) == {y \in Ancestors(stored, x) : Height(y) >= h}
           Good == {x \in Block : x \in stored /\ h <= Height(x) =>
                       IsFiniteSet(Down(x)) /\ Cardinality(Down(x)) = Height(x) - h + 1}
<1>1. ASSUME NEW x \in Block, Prev(x) \in stored => Prev(x) \in Good
      PROVE  x \in Good
  <2> SUFFICES ASSUME x \in stored, h <= Height(x)
               PROVE  IsFiniteSet(Down(x)) /\ Cardinality(Down(x)) = Height(x) - h + 1
    BY <1>1
  <2>1. Height(x) \in Nat
    BY HeaderTypes
  <2>2. \A y \in Ancestors(stored, x) : y \in Block /\ Height(y) \in Nat /\ (y = x \/ Height(y) < Height(x))
    BY WalkMeets, HeaderTypes DEF Rooted
  <2>3. x \in Ancestors(stored, x)
    BY AncestorsStep DEF Rooted
  <2>4. CASE h = Height(x)
    <3>1. Down(x) = {x}
      BY <2>1, <2>2, <2>3, <2>4
    <3>2. IsFiniteSet({x}) /\ Cardinality({x}) = 1
      BY FS_Singleton
    <3> QED BY <2>1, <2>4, <3>1, <3>2
  <2>5. CASE h # Height(x)
    <3>1. x # Genesis
      BY <2>1, <2>5, GenesisAssumption DEF Height
    <3>2. Prev(x) \in stored /\ Prev(x) \in Block /\ Height(x) = Height(Prev(x)) + 1
      BY <3>1 DEF Rooted
    <3>3. Height(Prev(x)) \in Nat /\ h <= Height(Prev(x))
      BY <2>1, <2>5, <3>2, HeaderTypes
    <3>4. IsFiniteSet(Down(Prev(x))) /\ Cardinality(Down(Prev(x))) = Height(Prev(x)) - h + 1
      BY <1>1, <3>2, <3>3
    <3>5. Ancestors(stored, x) = {x} \cup Ancestors(stored, Prev(x))
      BY <3>2, AncestorsStep DEF Rooted
    <3>6. Down(x) = Down(Prev(x)) \cup {x}
      BY <3>5
    <3>7. x \notin Down(Prev(x))
      <4>1. \A y \in Ancestors(stored, Prev(x)) : y = Prev(x) \/ Height(y) < Height(Prev(x))
        BY <3>2, WalkMeets
      <4> QED BY <2>1, <3>2, <3>3, <4>1
    <3> HIDE DEF Down
    <3>8. IsFiniteSet(Down(x)) /\ Cardinality(Down(x)) = Cardinality(Down(Prev(x))) + 1
      BY <3>4, <3>6, <3>7, FS_AddElement
    <3> QED BY <3>2, <3>3, <3>4, <3>8
  <2> QED BY <2>4, <2>5
<1>2. Good = Block
  <2>1. Good \in SUBSET Block
    OBVIOUS
  <2> HIDE DEF Good
  <2> QED BY <1>1, <2>1, WalkInduction
<1>3. b \in Block /\ Height(b) \in Nat
  BY HeaderTypes DEF Rooted
<1>4. Cardinality(Down(b)) = Height(b) - h + 1
  BY <1>2, <1>3
<1>5. WalkDownTo(stored, b, h) = Down(b)
  BY <1>3 DEF WalkDownTo
<1> QED BY <1>4, <1>5 DEF calculateChainDifficulty

-----------------------------------------------------------------------------
(* The choice between two branches.                                        *)

\* What the choice rests on: the blocks are a tree from the genesis block,
\* and the head is one of them or extends one.
HeadOK ==
    /\ Genesis \in blocks
    /\ chainHead \in blocks \/ Prev(chainHead) \in blocks

\* With the block being added, which is not stored yet, they are one too.
LEMMA StoredRooted ==
  ASSUME ChainInv, HeadOK
  PROVE  /\ Rooted(blocks)
         /\ adding # NoBlock /\ phase = "execute" => Rooted(blocks \cup {adding})
  BY DEF ChainInv, TypeOK, CallOK, TreeOK, HeadOK, Rooted

\* Two branches of the tree have a fork point.
LEMMA ForkPointFound ==
  ASSUME ChainInv, HeadOK, adding # NoBlock, phase = "execute"
  PROVE  \E x \in Block : IsForkPoint(blocks \cup {adding}, adding, x)
<1> DEFINE stored == blocks \cup {adding}
           S == ForkPoints(stored, adding)
<1>1. Rooted(stored) /\ adding \in Block /\ adding \in stored /\ chainHead \in Block
  BY StoredRooted DEF ChainInv, TypeOK
<1>2. Genesis \in Ancestors(stored, adding) /\ Genesis \in Ancestors(stored, chainHead)
  <2> HIDE DEF stored
  <2>1. chainHead \in stored \/ Prev(chainHead) \in stored
    BY DEF HeadOK, stored
  <2> QED BY <1>1, <2>1, WalkMeets
<1>3. Genesis \in S /\ S \in SUBSET Ancestors(stored, adding) /\ S \in SUBSET Block
  BY <1>1, <1>2 DEF ForkPoints, Rooted
<1> HIDE DEF stored, S
<1>4. PICK x \in S : FirstMet(stored, S, x)
  BY <1>1, <1>3, FirstMetExists
<1> QED BY <1>3, <1>4 DEF IsForkPoint, S, stored

\* A higher branch is the more difficult one, measured from their fork point.
LEMMA HigherIsMoreDifficult ==
  ASSUME ChainInv, HeadOK, chainHead \in blocks, adding # NoBlock, phase = "execute",
         Longer(adding), NEW x \in Block, IsForkPoint(blocks \cup {adding}, adding, x)
  PROVE  MoreDifficult(x)
<1> DEFINE stored == blocks \cup {adding}
<1>1. /\ Rooted(stored) /\ adding \in Block /\ adding \in stored
      /\ chainHead \in Block /\ chainHead \in stored
  BY StoredRooted DEF ChainInv, TypeOK
<1>2. x \in Ancestors(stored, adding) /\ x \in Ancestors(stored, chainHead)
  BY DEF IsForkPoint, FirstMet, ForkPoints
<1> HIDE DEF stored
<1>3. Height(x) \in Nat /\ Height(adding) \in Nat /\ Height(chainHead) \in Nat
  BY <1>1, HeaderTypes
<1>4. Height(x) <= Height(adding) /\ Height(x) <= Height(chainHead)
  BY <1>1, <1>2, <1>3, WalkMeets
<1>5. /\ calculateChainDifficulty(stored, adding, Height(x)) = Height(adding) - Height(x) + 1
      /\ calculateChainDifficulty(stored, chainHead, Height(x)) = Height(chainHead) - Height(x) + 1
  BY <1>1, <1>3, <1>4, DifficultyIsLength
<1> QED BY <1>3, <1>5 DEF MoreDifficult, Longer, stored

\* selectBestChain always finds the fork point and always decides for the new
\* branch: ErrForkDetected and the case that keeps the current chain are dead
\* code as long as AddBlock alone sets the head.
THEOREM ForkAlwaysDecidedCorrect == AuditSpec => []ForkAlwaysDecided
<1> DEFINE Inv == AuditInv /\ Genesis \in blocks
<1>1. AuditInit => Inv
  BY AuditInitInv DEF AuditInit, Init
<1>2. Inv /\ [AuditNext]_<<vars, auditVars>> => Inv'
  <2>1. [AuditNext]_<<vars, auditVars>> => blocks \subseteq blocks'
    BY AuditStep, BlocksGrow DEF vars, chainVars
  <2> QED BY <2>1, AuditInvNext
<1>3. Inv => ForkAlwaysDecided
  <2> SUFFICES ASSUME Inv, Executed, Longer(adding)
               PROVE  \E x \in Block : /\ IsForkPoint(blocks \cup {adding}, adding, x)
                                       /\ MoreDifficult(x)
    BY DEF ForkAlwaysDecided
  <2>1. /\ ChainInv /\ HeadOK /\ chainHead \in blocks
        /\ adding # NoBlock /\ phase = "execute"
    BY DEF AuditInv, HeadIsLongest, HeadOK, Executed
  <2> QED BY <2>1, ForkPointFound, HigherIsMoreDifficult
<1> HIDE DEF Inv
<1> QED BY <1>1, <1>2, <1>3, PTL DEF AuditSpec


-----------------------------------------------------------------------------
(* The state after a branch.  ExecuteAll is a loop over the transactions   *)
(* of a block, StateAfter a recursion along the parents.                   *)

LEMMA ExecuteNextType ==
  ASSUME NEW accts \in AccountMap, NEW tx \in Transaction
  PROVE  ExecuteNext(accts, tx) \in AccountMap
  BY ExecuteTransactionType DEF ExecuteNext

\* The accounts after the first transactions of txs.
ExecuteFcn(accts, txs) ==
    CHOOSE f : f = [t \in SUBSET DOMAIN txs |-> IF t = {} THEN accts ELSE
        ExecuteNext(f[t \ {Max(t)}], txs[Max(t)])]

LEMMA ExecuteAllDef ==
  ASSUME NEW accts, NEW txs
  PROVE  ExecuteAll(accts, txs) = ExecuteFcn(accts, txs)[DOMAIN txs]
  BY DEF ExecuteAll, FoldLeft, MapThenFoldSet, ExecuteFcn

LEMMA ExecuteFcnStep ==
  ASSUME NEW accts \in AccountMap, NEW txs \in Seq(Transaction)
  PROVE  /\ ExecuteFcn(accts, txs)[{}] = accts
         /\ \A i \in 0 .. Len(txs) : ExecuteFcn(accts, txs)[1 .. i] \in AccountMap
         /\ \A i \in 1 .. Len(txs) :
                ExecuteFcn(accts, txs)[1 .. i] = ExecuteNext(ExecuteFcn(accts, txs)[1 .. (i - 1)], txs[i])
<1> DEFINE n == Len(txs)
           step == [i \in 1 .. n |-> [v \in AccountMap |-> ExecuteNext(v, txs[i])]]
           Eq(f) == f = [t \in SUBSET (1 .. n) |-> IF t = {} THEN accts ELSE
                            ExecuteNext(f[t \ {Max(t)}], txs[Max(t)])]
<1>1. n \in Nat /\ DOMAIN txs = 1 .. n /\ \A i \in 1 .. n : txs[i] \in Transaction
  OBVIOUS
<1> HIDE DEF n
<1>2. step \in [1 .. n -> [AccountMap -> AccountMap]]
  <2>1. \A i \in 1 .. n : \A v \in AccountMap : ExecuteNext(v, txs[i]) \in AccountMap
    BY <1>1, ExecuteNextType
  <2> QED BY <2>1
<1>3. \A i \in 1 .. n : \A v \in AccountMap : step[i][v] = ExecuteNext(v, txs[i])
  OBVIOUS
<1> HIDE DEF step
<1>4. PICK f \in [SUBSET (1 .. n) -> AccountMap] : IsLoop(n, accts, step, f)
  BY <1>1, <1>2, LoopExists
<1>5. Eq(f)
  <2>1. ASSUME NEW t \in SUBSET (1 .. n)
        PROVE  f[t] = IF t = {} THEN accts ELSE ExecuteNext(f[t \ {Max(t)}], txs[Max(t)])
    <3>1. CASE t # {}
      <4>1. t \in SUBSET (0 .. n)
        BY <1>1
      <4>2. Max(t) \in 1 .. n
        BY <1>1, <3>1, <4>1, MaxBounded
      <4>3. f[t \ {Max(t)}] \in AccountMap
        BY <1>4
      <4>4. f[t] = step[Max(t)][f[t \ {Max(t)}]]
        BY <1>4, <3>1 DEF IsLoop
      <4> QED BY <1>3, <3>1, <4>2, <4>3, <4>4
    <3> QED BY <1>4, <3>1 DEF IsLoop
  <2> QED BY <1>4, <2>1
<1>6. Eq(ExecuteFcn(accts, txs))
  BY <1>1, <1>5 DEF ExecuteFcn
<1> DEFINE p == ExecuteFcn(accts, txs)
<1>7. \A t \in SUBSET (1 .. n) : p[t] = IF t = {} THEN accts ELSE ExecuteNext(p[t \ {Max(t)}], txs[Max(t)])
  BY <1>6
<1> HIDE DEF p
<1>8. p[{}] = accts
  BY <1>7
<1>9. \A i \in 1 .. n : p[1 .. i] = ExecuteNext(p[1 .. (i - 1)], txs[i])
  <2> SUFFICES ASSUME NEW i \in 1 .. n PROVE p[1 .. i] = ExecuteNext(p[1 .. (i - 1)], txs[i])
    OBVIOUS
  <2>1. 1 .. i \in SUBSET (1 .. n) /\ i \in Nat /\ i > 0
    BY <1>1
  <2>2. Max(1 .. i) = i /\ (1 .. i) \ {i} = 1 .. (i - 1) /\ 1 .. i # {}
    BY <2>1, MaxInterval
  <2> QED BY <1>7, <2>1, <2>2
<1>10. \A i \in 0 .. n : p[1 .. i] \in AccountMap
  <2> DEFINE Good == {i \in 0 .. n : p[1 .. i] \in AccountMap}
  <2>1. 0 \in Good
    <3>1. 1 .. 0 = {} /\ 0 \in 0 .. n
      BY <1>1
    <3> QED BY <1>8, <3>1
  <2>2. ASSUME NEW i \in 1 .. n, i - 1 \in Good PROVE i \in Good
    <3>1. p[1 .. (i - 1)] \in AccountMap /\ i \in 0 .. n
      BY <2>2
    <3>2. ExecuteNext(p[1 .. (i - 1)], txs[i]) \in AccountMap
      BY <1>1, <3>1, ExecuteNextType
    <3> QED BY <1>9, <3>1, <3>2
  <2>3. Good \in SUBSET (0 .. n)
    OBVIOUS
  <2> HIDE DEF Good
  <2>4. Good = 0 .. n
    BY <1>1, <2>1, <2>2, <2>3, UpInduction
  <2> QED BY <2>4 DEF Good
<1> QED BY <1>8, <1>9, <1>10 DEF p, n

LEMMA ExecuteAllType ==
  ASSUME NEW accts \in AccountMap, NEW txs \in Seq(Transaction)
  PROVE  ExecuteAll(accts, txs) \in AccountMap
<1>1. Len(txs) \in 0 .. Len(txs) /\ DOMAIN txs = 1 .. Len(txs)
  OBVIOUS
<1> QED BY <1>1, ExecuteAllDef, ExecuteFcnStep

Follows(x) == Prev(x) \in Block /\ Height(x) = Height(Prev(x)) + 1

\* What StateAfter computes at x from its values s at the other blocks.
StateStep(s, x) == IF Follows(x) THEN ExecuteAll(s[Prev(x)], BlockTxs[x]) ELSE EmptyAccounts

\* Heights fall along the links that the recursion follows, so that its
\* equation has a solution: block by block, the lowest first.
LEMMA StateExists == \E s \in [Block -> AccountMap] : \A x \in Block : s[x] = StateStep(s, x)
<1> DEFINE n == MaxHeight + 1
           Solves(s, k) == \A x \in Block : Height(x) < k => s[x] = StateStep(s, x)
           Good == {k \in 0 .. n : \E s \in [Block -> AccountMap] : Solves(s, k)}
<1>1. n \in Nat /\ \A x \in Block : Height(x) \in Nat /\ Height(x) < n
  BY HeaderTypes, BoundsAssumption DEF Heights
<1>2. EmptyAccounts \in AccountMap
  BY DEF EmptyAccounts, AccountMap
<1>3. \A x \in Block : \A s \in [Block -> AccountMap] : StateStep(s, x) \in AccountMap
  <2> SUFFICES ASSUME NEW x \in Block, NEW s \in [Block -> AccountMap] PROVE StateStep(s, x) \in AccountMap
    OBVIOUS
  <2>1. CASE Follows(x)
    <3>1. s[Prev(x)] \in AccountMap /\ BlockTxs[x] \in Seq(Transaction)
      BY <2>1, BlockTxsAssumption DEF Follows
    <3> QED BY <2>1, <3>1, ExecuteAllType DEF StateStep
  <2> QED BY <1>2, <2>1 DEF StateStep
<1> HIDE DEF n
<1>4. 0 \in Good
  <2>1. [x \in Block |-> EmptyAccounts] \in [Block -> AccountMap]
    BY <1>2
  <2>2. Solves([x \in Block |-> EmptyAccounts], 0)
    BY <1>1
  <2>3. 0 \in 0 .. n
    BY <1>1
  <2> HIDE DEF Solves
  <2> QED BY <2>1, <2>2, <2>3
<1>5. ASSUME NEW k \in 1 .. n, k - 1 \in Good PROVE k \in Good
  <2>1. PICK s \in [Block -> AccountMap] : Solves(s, k - 1)
    BY <1>5
  <2> DEFINE g == [x \in Block |-> IF Height(x) < k - 1 THEN s[x] ELSE StateStep(s, x)]
  <2>2. g \in [Block -> AccountMap]
    BY <1>3
  <2>3. \A x \in Block : g[x] = StateStep(s, x) \/ Height(x) < k - 1
    OBVIOUS
  <2>4. \A x \in Block : Height(x) < k - 1 => g[x] = s[x] /\ s[x] = StateStep(s, x)
    BY <2>1
  <2> HIDE DEF g
  <2>5. ASSUME NEW x \in Block, Height(x) < k PROVE g[x] = StateStep(g, x)
    <3>1. g[x] = StateStep(s, x)
      BY <2>3, <2>4
    <3>2. CASE Follows(x)
      <4>1. Prev(x) \in Block /\ Height(Prev(x)) < k - 1
        BY <1>1, <2>5, <3>2 DEF Follows
      <4>2. g[Prev(x)] = s[Prev(x)]
        BY <2>4, <4>1
      <4> QED BY <3>1, <3>2, <4>2 DEF StateStep
    <3> QED BY <3>1, <3>2 DEF StateStep
  <2>6. Solves(g, k) /\ k \in 0 .. n
    BY <2>5
  <2> HIDE DEF Solves
  <2> QED BY <2>2, <2>6
<1>6. Good \in SUBSET (0 .. n)
  OBVIOUS
<1>7. n \in Good
  <2> HIDE DEF Good
  <2>1. Good = 0 .. n
    BY <1>1, <1>4, <1>5, <1>6, UpInduction
  <2> QED BY <1>1, <2>1
<1> QED BY <1>1, <1>7

LEMMA StateAfterStep ==
  ASSUME NEW b \in Block
  PROVE  /\ StateAfter(b) \in AccountMap
         /\ Follows(b) => StateAfter(b) = ExecuteAll(StateAfter(Prev(b)), BlockTxs[b])
         /\ ~ Follows(b) => StateAfter(b) = EmptyAccounts
<1> DEFINE Eq(s) == s = [x \in Block |-> IF Prev(x) \in Block /\ Height(x) = Height(Prev(x)) + 1
                           THEN ExecuteAll(s[Prev(x)], BlockTxs[x]) ELSE EmptyAccounts]
           after == CHOOSE s : Eq(s)
<1>1. \E s : Eq(s)
  <2>1. PICK s \in [Block -> AccountMap] : \A x \in Block : s[x] = StateStep(s, x)
    BY StateExists
  <2>2. Eq(s)
    BY <2>1 DEF StateStep, Follows
  <2> HIDE DEF Eq
  <2> QED BY <2>2
<1>2. Eq(after)
  <2> HIDE DEF Eq
  <2> QED BY <1>1
<1>3. \A x \in Block : StateAfter(x) = after[x]
  BY DEF StateAfter
<1> HIDE DEF after
<1>4. \A x \in Block : after[x] = StateStep(after, x)
  BY <1>2 DEF StateStep, Follows
<1> DEFINE Good == {k \in 0 .. MaxHeight + 1 : \A x \in Block : Height(x) < k => after[x] \in AccountMap}
<1>5. MaxHeight + 1 \in Nat /\ \A x \in Block : Height(x) \in Nat /\ Height(x) < MaxHeight + 1
  BY HeaderTypes, BoundsAssumption DEF Heights
<1>6. 0 \in Good
  BY <1>5
<1>7. ASSUME NEW k \in 1 .. MaxHeight + 1, k - 1 \in Good PROVE k \in Good
  <2>1. ASSUME NEW x \in Block, Height(x) < k PROVE after[x] \in AccountMap
    <3>1. CASE Follows(x)
      <4>1. Prev(x) \in Block /\ Height(Prev(x)) < k - 1
        BY <1>5, <2>1, <3>1 DEF Follows
      <4>2. after[Prev(x)] \in AccountMap /\ BlockTxs[x] \in Seq(Transaction)
        BY <1>7, <4>1, BlockTxsAssumption
      <4> QED BY <1>4, <3>1, <4>2, ExecuteAllType DEF StateStep
    <3> QED BY <1>4, <3>1 DEF StateStep, EmptyAccounts, AccountMap
  <2> QED BY <1>5, <2>1
<1>8. Good \in SUBSET (0 .. MaxHeight + 1)
  OBVIOUS
<1>9. MaxHeight + 1 \in Good
  <2> DEFINE n == MaxHeight + 1
  <2>1. n \in Nat /\ \A k \in 1 .. n : k - 1 \in Good => k \in Good
    BY <1>5, <1>7
  <2>2. Good \in SUBSET (0 .. n)
    BY <1>8
  <2> HIDE DEF Good, n
  <2>3. Good = 0 .. n
    BY <1>6, <2>1, <2>2, UpInduction
  <2> QED BY <2>1, <2>3 DEF n
<1>10. after[b] \in AccountMap
  BY <1>5, <1>9
<1>11. Follows(b) => StateAfter(b) = ExecuteAll(StateAfter(Prev(b)), BlockTxs[b])
  BY <1>3, <1>4 DEF StateStep, Follows
<1> QED BY <1>3, <1>4, <1>10, <1>11 DEF StateStep

\* The accounts after the branch of the head and the first i transactions of b.
StateAt(head, b, i) == ExecuteFcn(StateAfter(head), BlockTxs[b])[1 .. i]

LEMMA StateAtStep ==
  ASSUME NEW head \in Block, NEW b \in Block
  PROVE  /\ StateAt(head, b, 0) = StateAfter(head)
         /\ \A i \in 1 .. Len(BlockTxs[b]) :
                StateAt(head, b, i) = ExecuteNext(StateAt(head, b, i - 1), BlockTxs[b][i])
         /\ Follows(b) /\ Prev(b) = head => StateAfter(b) = StateAt(head, b, Len(BlockTxs[b]))
<1>1. StateAfter(head) \in AccountMap /\ BlockTxs[b] \in Seq(Transaction)
  BY StateAfterStep, BlockTxsAssumption
<1>2. 1 .. 0 = {} /\ DOMAIN BlockTxs[b] = 1 .. Len(BlockTxs[b])
  BY <1>1
<1>3. StateAt(head, b, 0) = StateAfter(head)
  BY <1>1, <1>2, ExecuteFcnStep DEF StateAt
<1>4. \A i \in 1 .. Len(BlockTxs[b]) :
          StateAt(head, b, i) = ExecuteNext(StateAt(head, b, i - 1), BlockTxs[b][i])
  BY <1>1, ExecuteFcnStep DEF StateAt
<1>5. ASSUME Follows(b), Prev(b) = head PROVE StateAfter(b) = StateAt(head, b, Len(BlockTxs[b]))
  BY <1>2, <1>5, StateAfterStep, ExecuteAllDef DEF StateAt
<1> QED BY <1>3, <1>4, <1>5

\* CleanState is about the moments between two calls.  Inside a call that has
\* not left the main chain the accounts are those of the head and of the
\* transactions executed so far.
CleanInv ==
    ~ tainted =>
        /\ phase = "execute"
        /\ adding = NoBlock => accounts = StateAfter(chainHead)
        /\ adding # NoBlock =>
              /\ at = adding /\ pos <= Len(BlockTxs[adding]) + 1
              /\ accounts = StateAt(chainHead, adding, pos - 1)

LEMMA CleanNext ==
  ASSUME AuditInv, CleanInv, [AuditNext]_<<vars, auditVars>>
  PROVE  CleanInv'
<1> USE DEF chainVars, callVars, auditVars
<1>1. /\ chainHead \in Block /\ adding \in Block \cup {NoBlock} /\ NoBlock \notin Block
      /\ pos \in Nat \ {0} /\ phase \in {"execute", "reorg"} /\ at \in Block
      /\ \A b \in Block : BlockTxs[b] \in Seq(Transaction) /\ Len(BlockTxs[b]) \in Nat
  BY NoBlockAssumption, BlockTxsAssumption DEF AuditInv, ChainInv, TypeOK, Phase
<1>2. ASSUME NEW b \in Block, BeginAdd(b), UNCHANGED auditVars PROVE CleanInv'
  <2>1. ~ tainted => accounts = StateAt(chainHead, b, 0)
    BY <1>1, <1>2, StateAtStep DEF CleanInv, BeginAdd
  <2>2. /\ adding' = b /\ at' = b /\ pos' = 1 /\ phase' = "execute" /\ tainted' = tainted
        /\ accounts' = accounts /\ chainHead' = chainHead
    BY <1>2 DEF BeginAdd
  <2>3. pos' - 1 = 0 /\ pos' <= Len(BlockTxs[b]) + 1
    BY <1>1, <2>2
  <2> QED BY <1>1, <2>1, <2>2, <2>3 DEF CleanInv
<1>3. CASE ExecuteTx /\ UNCHANGED auditVars
  <2> SUFFICES ASSUME ~ tainted PROVE CleanInv'
    BY <1>3 DEF CleanInv
  <2>1. /\ adding \in Block /\ at = adding /\ phase = "execute"
        /\ accounts = StateAt(chainHead, adding, pos - 1)
        /\ pos \in 1 .. Len(BlockTxs[adding])
    BY <1>1, <1>3 DEF CleanInv, ExecuteTx, MoreTxs
  <2>2. /\ adding' = adding /\ at' = at /\ pos' = pos + 1 /\ phase' = phase /\ tainted' = tainted
        /\ chainHead' = chainHead
        /\ accounts' = ExecuteNext(accounts, BlockTxs[adding][pos])
    BY <1>3, <2>1 DEF ExecuteTx, ExecuteNext
  <2>3. pos' - 1 = pos /\ pos' <= Len(BlockTxs[adding]) + 1
    BY <1>1, <2>1, <2>2
  <2>4. accounts' = StateAt(chainHead, adding, pos)
    BY <1>1, <2>1, <2>2, StateAtStep
  <2> QED BY <1>1, <2>1, <2>2, <2>3, <2>4 DEF CleanInv
<1>4. CASE ExtendHead /\ UNCHANGED auditVars
  <2> SUFFICES ASSUME ~ tainted PROVE CleanInv'
    BY <1>4 DEF CleanInv
  <2>1. /\ adding \in Block /\ at = adding
        /\ accounts = StateAt(chainHead, adding, pos - 1)
        /\ pos = Len(BlockTxs[adding]) + 1
    BY <1>1, <1>4 DEF CleanInv, ExtendHead, Executed, MoreTxs
  <2>2. Follows(adding) /\ Prev(adding) = chainHead
    BY <1>1, <1>4, <2>1 DEF ExtendHead, Executed, AuditInv, ChainInv, CallOK, Follows
  <2>3. pos - 1 = Len(BlockTxs[adding])
    BY <1>1, <2>1
  <2>4. accounts = StateAfter(adding)
    BY <1>1, <2>1, <2>2, <2>3, StateAtStep
  <2>5. adding' = NoBlock /\ phase' = "execute" /\ accounts' = accounts /\ chainHead' = adding
    BY <1>4 DEF ExtendHead, ReleaseMutex
  <2> QED BY <2>4, <2>5 DEF CleanInv
<1>5. CASE OffMainChain
  <2> SUFFICES ASSUME ~ tainted' PROVE CleanInv'
    BY DEF CleanInv
  <2>1. ~ tainted /\ BlockTxs[adding] = <<>> /\ adding # NoBlock
    BY <1>5 DEF OffMainChain, StateRootMismatch, AddToSideBranch, Executed
  <2>2. adding \in Block /\ accounts = StateAt(chainHead, adding, pos - 1) /\ pos - 1 = 0
    BY <1>1, <2>1 DEF CleanInv
  <2>3. accounts = StateAfter(chainHead)
    BY <1>1, <2>2, StateAtStep
  <2>4. adding' = NoBlock /\ phase' = "execute" /\ accounts' = accounts /\ chainHead' = chainHead
    BY <1>5 DEF OffMainChain, StateRootMismatch, AddToSideBranch, ReleaseMutex
  <2> QED BY <2>3, <2>4 DEF CleanInv
<1>6. CASE Fails
  <2> SUFFICES ASSUME ~ tainted' PROVE CleanInv'
    BY DEF CleanInv
  <2>1. ~ tainted /\ ~ (pos > 1) /\ adding # NoBlock
    BY <1>6 DEF Fails, ExecuteTxFails
  <2>2. adding \in Block /\ accounts = StateAt(chainHead, adding, pos - 1) /\ pos - 1 = 0
    BY <1>1, <2>1 DEF CleanInv
  <2>3. accounts = StateAfter(chainHead)
    BY <1>1, <2>2, StateAtStep
  <2>4. adding' = NoBlock /\ phase' = "execute" /\ accounts' = accounts /\ chainHead' = chainHead
    BY <1>6 DEF Fails, ExecuteTxFails, ReleaseMutex
  <2> QED BY <2>3, <2>4 DEF CleanInv
<1>7. CASE Switches
  BY <1>7 DEF Switches, CleanInv
<1>8. CASE (EndReorg \/ \E next \in Block : ReorgNextBlock(next)) /\ UNCHANGED auditVars
  BY <1>8 DEF EndReorg, ReorgNextBlock, CleanInv
<1>9. CASE (Tick /\ UNCHANGED auditVars) \/ UNCHANGED <<vars, auditVars>>
  BY <1>9 DEF Tick, vars, CleanInv
<1> QED
  BY <1>2, <1>3, <1>4, <1>5, <1>6, <1>7, <1>8, <1>9 DEF AuditNext, OnMainChain

\* As long as AddBlock has only extended the head or failed before it executed
\* anything, the state database is the result of executing the main chain from
\* the genesis block on, for every universe of blocks and transactions
\* (chain.go, AddBlock and executor.go, ExecuteTransaction).
THEOREM CleanStateCorrect == AuditSpec => []CleanState
<1> DEFINE Inv == AuditInv /\ CleanInv
<1>1. AuditInit => Inv
  <2> SUFFICES ASSUME AuditInit PROVE CleanInv
    BY AuditInitInv
  <2>1. ~ Follows(Genesis) /\ Genesis \in Block
    BY GenesisAssumption, NoBlockAssumption DEF Follows, Prev
  <2> QED BY <2>1, StateAfterStep DEF AuditInit, Init, CleanInv
<1>2. Inv /\ [AuditNext]_<<vars, auditVars>> => Inv'
  BY AuditInvNext, CleanNext
<1>3. Inv => CleanState
  BY DEF CleanInv, CleanState, MainChainState
<1> HIDE DEF Inv
<1> QED BY <1>1, <1>2, <1>3, PTL DEF AuditSpec

-----------------------------------------------------------------------------
(* The node.                                                               *)

Locked == {"visit", "find", "execute"}

\* A worker inside CheckForFork or ResolveFork holds fh.mu.  Past the parent's
\* check its block extends a stored one.  While it holds the lock the head
\* stays the one CheckForFork read, or moves to a stored block.
WorkerOK ==
    \A w \in Workers :
        /\ pc[w] \in Locked => fhMutex = w
        /\ pc[w] \in {"find", "resolve", "execute"} => Prev(block[w]) \in blocks
        /\ pc[w] \in {"visit", "find"} => chainHead = oldHead \/ chainHead \in blocks

StatusTypeOK == proposeHeight \in Heights /\ chainHeight \in Heights /\ credited \in Nat

Updating == {w \in Workers : pc[w] = "update"}

\* The genesis block, the blocks credited, those about to be credited and the
\* one of a reorganisation are different stored blocks.
CountOK ==
    /\ IsFiniteSet(blocks) /\ IsFiniteSet(Updating)
    /\ credited + Cardinality(Updating) + (IF phase = "reorg" THEN 1 ELSE 0) < Cardinality(blocks)

NodeInv ==
    /\ ChainInv /\ HeadOK /\ HandlerTypeOK /\ StatusTypeOK /\ WorkerOK /\ CountOK
    /\ ForksRooted /\ BranchExecuted

-----------------------------------------------------------------------------
(* What the handler computes.                                              *)

\* The work of a branch is a sum of rewards, taken modulo 2^64.
LEMMA ChainWorkIsSum ==
  ASSUME NEW W \in SUBSET Block
  PROVE  MapThenSumSet(LAMBDA x : BlockReward[Height(x)], W)
            = SumOver([x \in Block |-> BlockReward[Height(x)]], W)
<1> DEFINE g == [x \in Block |-> BlockReward[Height(x)]]
           IsWork(f) == f = [s \in SUBSET W |-> IF s = {} THEN 0 ELSE
                                BlockReward[Height(Pick(s))] + f[s \ {Pick(s)}]]
<1>1. MapThenSumSet(LAMBDA x : BlockReward[Height(x)], W) = (CHOOSE f : IsWork(f))[W]
  BY DEF MapThenSumSet, MapThenFoldSet, Pick
<1>2. \A s \in SUBSET W : s # {} => g[Pick(s)] = BlockReward[Height(Pick(s))]
  BY DEF Pick
<1> HIDE DEF g
<1>3. ASSUME NEW f PROVE IsWork(f) <=> IsSum(g, W, f)
  BY <1>2 DEF IsSum
<1> HIDE DEF IsWork
<1>4. (CHOOSE f : IsWork(f)) = (CHOOSE f : IsSum(g, W, f))
  BY <1>3
<1> QED BY <1>1, <1>4, SumOverDef DEF SumFcn, g

LEMMA ChainWorkType ==
  ASSUME NodeInv, NEW b \in Block, NEW h
  PROVE  calculateChainWork(b, h) \in Uint64
<1> DEFINE W == WalkDownTo(blocks, b, h)
           g == [x \in Block |-> BlockReward[Height(x)]]
<1>1. Rooted(blocks) /\ blocks \in SUBSET Block /\ IsFiniteSet(blocks)
  BY StoredRooted DEF NodeInv, CountOK, Rooted
<1>2. W \in SUBSET (blocks \cup {b})
  BY <1>1, WalkMeets DEF WalkDownTo
<1>3. IsFiniteSet(W) /\ W \in SUBSET Block
  <2>1. IsFiniteSet(blocks \cup {b})
    BY <1>1, FS_AddElement
  <2> HIDE DEF W
  <2> QED BY <1>1, <1>2, <2>1, FS_Subset
<1>4. \A x \in W : g[x] \in Int
  <2>1. \A x \in Block : BlockReward[Height(x)] \in Int
    BY HeaderTypes, BlockRewardAssumption, ModulusAssumption DEF Uint64
  <2> HIDE DEF W
  <2> QED BY <1>3, <2>1
<1>5. SumOver(g, W) \in Int
  <2> HIDE DEF W, g
  <2> QED BY <1>3, <1>4, SumOverType
<1>6. calculateChainWork(b, h) = SumOver(g, W) % Modulus
  <2> HIDE DEF W
  <2>1. MapThenSumSet(LAMBDA x : BlockReward[Height(x)], W) = SumOver(g, W)
    BY <1>3, ChainWorkIsSum
  <2> QED BY <2>1 DEF calculateChainWork, W
<1> HIDE DEF W, g
<1>7. SumOver(g, W) % Modulus \in 0 .. (Modulus - 1)
  BY <1>5, ModulusAssumption
<1> QED BY <1>6, <1>7 DEF Uint64

LEMMA Sub64Type ==
  ASSUME NEW x \in Int, NEW y \in Int
  PROVE  Sub64(x, y) \in Uint64
  BY ModulusAssumption DEF Sub64, Uint64

LEMMA ForkRecordType ==
  ASSUME NodeInv, NEW b \in Block, NEW x \in Block
  PROVE  ForkRecord(b, x) \in Fork
<1>1. oldHead \in Block /\ Height(b) \in Int /\ Height(x) \in Int /\ Height(oldHead) \in Int
  BY HeaderTypes DEF NodeInv, HandlerTypeOK
<1>2. /\ calculateChainWork(b, Height(x)) \in Int
      /\ calculateChainWork(oldHead, Height(x)) \in Int
  BY <1>1, ChainWorkType, ModulusAssumption DEF Uint64
<1>3. Sub64(calculateChainWork(b, Height(x)), calculateChainWork(oldHead, Height(x))) \in Uint64
  BY <1>2, Sub64Type
<1> QED BY <1>1, <1>3 DEF ForkRecord, Fork

LEMMA NoForkType == NoFork \in Fork
  BY GenesisAssumption, ModulusAssumption DEF NoFork, Fork, Uint64

\* WithoutFork removes one place of the list.
LEMMA WithoutForkType ==
  ASSUME forks \in Seq(Block), NEW b \in Block
  PROVE  WithoutFork(b) \in Seq(Block)
<1> DEFINE I == {i \in 1 .. Len(forks) : forks[i] = b}
<1>1. CASE I # {}
  <2>1. PICK m \in I : \A n \in I : m <= n
    <3>1. I \in SUBSET Nat
      OBVIOUS
    <3> HIDE DEF I
    <3> QED BY <1>1, <3>1, LeastNatural
  <2>2. Min(I) \in I
    <3> HIDE DEF I
    <3> QED BY <2>1 DEF Min
  <2>3. SelectInSeq(forks, LAMBDA v : v = b) = Min(I)
    BY <1>1 DEF SelectInSeq
  <2> DEFINE i == Min(I)
  <2>4. i \in 1 .. Len(forks)
    BY <2>2
  <2> HIDE DEF i
  <2>5. SubSeq(forks, 1, i - 1) \in Seq(Block) /\ SubSeq(forks, i + 1, Len(forks)) \in Seq(Block)
    BY <2>4, SubSeqProperties
  <2>6. RemoveAt(forks, i) \in Seq(Block)
    BY <2>5, ConcatProperties DEF RemoveAt
  <2>7. WithoutFork(b) = RemoveAt(forks, i) \/ WithoutFork(b) = forks
    BY <2>3 DEF WithoutFork, RemoveFirst, i
  <2> QED BY <2>6, <2>7
<1>2. CASE I = {}
  <2>1. WithoutFork(b) = forks
    BY <1>2 DEF WithoutFork, RemoveFirst
  <2> QED BY <2>1
<1> QED BY <1>1, <1>2

-----------------------------------------------------------------------------
(* The chain under the workers.                                            *)

\* A step of the node is a step of the chain, or leaves it alone, or is one
\* of the two that reach into it from the fork handler.
LEMMA NodeStepKinds ==
  ASSUME NodeInv, [NodeNext]_nodeVars
  PROVE  \/ UNCHANGED vars
         \/ Next
         \/ \E w \in Workers : ForkExecuteTx(w) \/ SetChainHead(w)
<1>1. ASSUME NEW w \in Workers, Works(w)
      PROVE  UNCHANGED vars \/ Next \/ ForkExecuteTx(w) \/ SetChainHead(w)
  <2>1. CASE AddAccepted(w)
    BY <2>1 DEF AddAccepted, Next, NodeInv, HandlerTypeOK
  <2>2. CASE AddRuns(w)
    BY <2>2 DEF AddRuns, Next, AddBlockStep
  <2>3. CASE ForkStep(w)
    BY <2>3 DEF ForkStep, CheckExtends, CheckHead, ParentMissing, VisitBranch, NoForkPoint,
                ForkFound, ResolveFork, ResolveNothing, ForkExecuteTxFails, ForkNextBlock
  <2> QED BY <1>1, <2>1, <2>2, <2>3 DEF Works, ProposeBlock, OutOfBlocks, AddRefused, Update
<1>2. CASE UNCHANGED nodeVars
  BY <1>2 DEF nodeVars
<1>3. CASE NodeNext
  BY <1>1, <1>3 DEF NodeNext, Receive, ProposeHeight, OperatorStep, ClearOldForks, SetEnabled, Next
<1> QED BY <1>2, <1>3

\* The tree, the index and the running AddBlock stay in order, although a
\* worker executes transactions under it and moves the head between calls.
LEMMA NodeChainNext ==
  ASSUME NodeInv, [NodeNext]_nodeVars
  PROVE  ChainInv' /\ HeadOK' /\ blocks \subseteq blocks'
<1> USE DEF chainVars, callVars
<1>1. CASE UNCHANGED vars
  BY <1>1, ChainNext DEF vars, NodeInv, HeadOK
<1>2. CASE Next
  <2>1. ChainInv' /\ blocks \subseteq blocks'
    BY <1>2, ChainNext, BlocksGrow DEF NodeInv
  <2>2. chainHead' # chainHead => chainHead' \in blocks'
    BY <1>2, HeadMoves DEF NodeInv
  <2> QED BY <2>1, <2>2 DEF NodeInv, HeadOK
<1>3. ASSUME NEW w \in Workers, ForkExecuteTx(w)
      PROVE  ChainInv' /\ HeadOK' /\ blocks \subseteq blocks'
  <2>1. BlockTxs[execAt] \in Seq(Transaction) /\ execPos \in 1 .. Len(BlockTxs[execAt])
    BY <1>3, BlockTxsAssumption DEF ForkExecuteTx, MoreToExecute, NodeInv, HandlerTypeOK
  <2>2. BlockTxs[execAt][execPos] \in Transaction
    BY <2>1
  <2>3. accounts' \in AccountMap
    BY <1>3, <2>2, ExecuteTransactionType DEF ForkExecuteTx, NodeInv, ChainInv, TypeOK
  <2>4. UNCHANGED <<blocks, heightMap, chainHead, now, adding, phase, at, pos>>
    BY <1>3 DEF ForkExecuteTx
  <2> QED BY <2>3, <2>4 DEF NodeInv, ChainInv, TypeOK, CallOK, TreeOK, HeightIndexOK, Longer, HeadOK
<1>4. ASSUME NEW w \in Workers, SetChainHead(w)
      PROVE  ChainInv' /\ HeadOK' /\ blocks \subseteq blocks'
  <2>1. /\ UNCHANGED <<blocks, heightMap, accounts, now, adding, phase, at, pos>>
        /\ chainHead' = block[w] /\ block[w] \in Block
        /\ adding = NoBlock /\ Prev(block[w]) \in blocks
    BY <1>4 DEF SetChainHead, ChainUnlocked, NodeInv, HandlerTypeOK, WorkerOK
  <2>2. phase = "execute"
    BY <2>1 DEF NodeInv, ChainInv, CallOK
  <2> QED BY <2>1, <2>2 DEF NodeInv, ChainInv, TypeOK, CallOK, TreeOK, HeightIndexOK, HeadOK
<1> QED BY <1>1, <1>2, <1>3, <1>4, NodeStepKinds

\* A worker that holds fh.mu sees the head move to stored blocks only.
LEMMA HeadStored ==
  ASSUME NodeInv, [NodeNext]_nodeVars, NEW w \in Workers, pc[w] \in {"visit", "find"}
  PROVE  chainHead' = chainHead \/ chainHead' \in blocks'
<1>1. ASSUME NEW v \in Workers, SetChainHead(v) PROVE FALSE
  BY <1>1 DEF SetChainHead, NodeInv, WorkerOK, Locked
<1>2. CASE Next
  BY <1>2, HeadMoves DEF NodeInv
<1> QED BY <1>1, <1>2, NodeStepKinds DEF vars, chainVars, ForkExecuteTx

-----------------------------------------------------------------------------
(* The handler and the workers.                                            *)

LEMMA NodeInitInv == NodeInit => NodeInv
<1> SUFFICES ASSUME NodeInit PROVE NodeInv
  OBVIOUS
<1>1. ChainInv /\ HeadOK
  BY ChainInit DEF NodeInit, Init, HeadOK
<1>2. HandlerTypeOK
  <2>1. <<>> \in Seq(Block) /\ 0 \in Uint64
    BY ModulusAssumption DEF Uint64
  <2> QED BY <2>1, NoForkType, GenesisAssumption DEF NodeInit, HandlerInit, HandlerTypeOK, PC
<1>3. StatusTypeOK
  BY BoundsAssumption DEF NodeInit, StatusTypeOK, Heights
<1>4. WorkerOK /\ ForksRooted /\ BranchExecuted
  BY DEF NodeInit, HandlerInit, WorkerOK, Locked, ForksRooted, BranchExecuted
<1>5. CountOK
  <2>1. Updating = {} /\ blocks = {Genesis} /\ credited = 0 /\ phase = "execute"
    BY DEF NodeInit, HandlerInit, Init, Updating
  <2>2. /\ IsFiniteSet({}) /\ Cardinality({}) = 0
        /\ IsFiniteSet({Genesis}) /\ Cardinality({Genesis}) = 1
    BY FS_EmptySet, FS_Singleton
  <2> QED BY <2>1, <2>2 DEF CountOK
<1> QED BY <1>1, <1>2, <1>3, <1>4, <1>5 DEF NodeInv

LEMMA HandlerTypeNext ==
  ASSUME NodeInv, [NodeNext]_nodeVars
  PROVE  HandlerTypeOK'
<1> USE DEF handlerVars, workerVars
<1>0. /\ HandlerTypeOK /\ chainHead \in Block /\ Height(chainHead) \in Int
      /\ maxForkDepth \in Int /\ 0 \in Uint64 /\ Genesis \in Block
  BY ModulusAssumption, ForkBoundsAssumption, HeaderTypes, GenesisAssumption
  DEF NodeInv, ChainInv, TypeOK, Uint64
<1>1. ASSUME NEW w \in Workers, ForkStep(w) PROVE HandlerTypeOK'
  <2>1. CASE CheckExtends(w) \/ CheckHead(w) \/ ParentMissing(w) \/ NoForkPoint(w)
             \/ ForkExecuteTxFails(w)
    BY <1>0, <2>1 DEF CheckExtends, CheckHead, ParentMissing, NoForkPoint, ForkExecuteTxFails,
                      HandlerTypeOK, PC, Goto, Unlock
  <2>2. CASE VisitBranch(w)
    <3>1. Sub64(Height(chainHead), maxForkDepth) \in Uint64
      BY <1>0, Sub64Type
    <3> QED BY <1>0, <2>2, <3>1 DEF VisitBranch, HandlerTypeOK, PC, Goto
  <2>3. ASSUME NEW x \in Block, ForkFound(w, x) PROVE HandlerTypeOK'
    <3>1. block[w] \in Block /\ ForkRecord(block[w], x) \in Fork /\ NoFork \in Fork
      BY <1>0, ForkRecordType, NoForkType DEF HandlerTypeOK
    <3>2. Append(forks, block[w]) \in Seq(Block)
      BY <1>0, <3>1 DEF HandlerTypeOK
    <3>3. forks' \in Seq(Block)
      BY <1>0, <2>3, <3>2 DEF ForkFound, HandlerTypeOK
    <3>4. fork' \in [Workers -> Fork]
      <4> HIDE DEF Fork
      <4> QED BY <1>0, <2>3, <3>1 DEF ForkFound, HandlerTypeOK
    <3>5. pc' \in [Workers -> PC]
      BY <1>0, <2>3 DEF ForkFound, HandlerTypeOK, Goto, PC
    <3> QED BY <1>0, <2>3, <3>3, <3>4, <3>5 DEF ForkFound, HandlerTypeOK, Unlock
  <2>4. ASSUME NEW x \in Block, ResolveFork(w, x) PROVE HandlerTypeOK'
    BY <1>0, <2>4 DEF ResolveFork, HandlerTypeOK, PC, Goto
  <2>5. CASE ResolveNothing(w)
    <3>1. Len(BlockTxs[block[w]]) + 1 \in Nat \ {0}
      BY <1>0, BlockTxsAssumption DEF HandlerTypeOK
    <3> QED BY <1>0, <2>5, <3>1 DEF ResolveNothing, HandlerTypeOK, PC, Goto
  <2>6. CASE ForkExecuteTx(w)
    BY <1>0, <2>6 DEF ForkExecuteTx, HandlerTypeOK
  <2>7. ASSUME NEW x \in Block, ForkNextBlock(w, x) PROVE HandlerTypeOK'
    BY <1>0, <2>7 DEF ForkNextBlock, HandlerTypeOK
  <2>8. CASE SetChainHead(w)
    <3>1. WithoutFork(block[w]) \in Seq(Block)
      BY <1>0, WithoutForkType DEF HandlerTypeOK
    <3> QED BY <1>0, <2>8, <3>1 DEF SetChainHead, HandlerTypeOK, PC, Goto, Unlock
  <2> QED BY <1>1, <2>1, <2>2, <2>3, <2>4, <2>5, <2>6, <2>7, <2>8 DEF ForkStep
<1>2. ASSUME NEW w \in Workers, Works(w) PROVE HandlerTypeOK'
  <2>1. ASSUME NEW p \in Proposals, ProposeBlock(w, p) PROVE HandlerTypeOK'
    BY <1>0, <2>1, BlocksAssumption DEF ProposeBlock, HandlerTypeOK, PC, Goto
  <2>2. CASE OutOfBlocks(w) \/ AddRefused(w) \/ AddAccepted(w) \/ AddRuns(w) \/ Update(w)
    BY <1>0, <2>2 DEF OutOfBlocks, AddRefused, AddAccepted, AddRuns, Update, HandlerTypeOK, PC, Goto
  <2> QED BY <1>1, <1>2, <2>1, <2>2 DEF Works
<1>3. ASSUME NEW w \in Workers, (\E b \in Received : Receive(w, b)) \/ ProposeHeight(w)
      PROVE  HandlerTypeOK'
  BY <1>0, <1>3, BlocksAssumption DEF Receive, ProposeHeight, HandlerTypeOK, PC, Goto
<1>4. CASE OperatorStep
  <2>1. ASSUME NEW n \in 1 .. MaxForks + 1, ClearOldForks(n) PROVE HandlerTypeOK'
    <3>1. SubSeq(forks, n + 1, Len(forks)) \in Seq(Block)
      BY <1>0, <2>1, SubSeqProperties DEF HandlerTypeOK, ClearOldForks
    <3> QED BY <1>0, <2>1, <3>1 DEF ClearOldForks, HandlerTypeOK
  <2>2. ASSUME NEW on \in BOOLEAN, SetEnabled(on) PROVE HandlerTypeOK'
    BY <1>0, <2>2 DEF SetEnabled, HandlerTypeOK
  <2> QED BY <1>4, <2>1, <2>2 DEF OperatorStep
<1>5. CASE UNCHANGED <<handlerVars, workerVars>>
  BY <1>0, <1>5 DEF HandlerTypeOK
<1> QED BY <1>2, <1>3, <1>4, <1>5 DEF NodeNext, nodeVars

LEMMA StatusTypeNext ==
  ASSUME NodeInv, [NodeNext]_nodeVars
  PROVE  StatusTypeOK'
<1>1. StatusTypeOK /\ Height(chainHead) \in Heights
  BY HeaderTypes DEF NodeInv, ChainInv, TypeOK
<1>2. CASE UNCHANGED statusVars
  BY <1>1, <1>2 DEF statusVars, StatusTypeOK
<1>3. ASSUME NEW w \in Workers, Update(w) \/ ProposeHeight(w) PROVE StatusTypeOK'
  BY <1>1, <1>3 DEF Update, ProposeHeight, StatusTypeOK
<1> QED BY <1>2, <1>3 DEF NodeNext, nodeVars, Works, ProposeBlock, OutOfBlocks, AddRefused,
                          AddAccepted, AddRuns, Receive

\* A step of one worker leaves the others where they are, and the one that
\* holds fh.mu finds the handler as it left it.
LEMMA OthersKept ==
  ASSUME NodeInv, NEW w \in Workers, NEW v \in Workers, v # w,
         Works(w) \/ (\E b \in Received : Receive(w, b)) \/ ProposeHeight(w)
  PROVE  /\ pc'[v] = pc[v] /\ block'[v] = block[v] /\ fork'[v] = fork[v]
         /\ pc[v] \in Locked => UNCHANGED <<fhMutex, oldHead, execAt, execPos>>
<1> USE DEF handlerVars, workerVars, Goto
<1>1. /\ pc \in [Workers -> PC] /\ block \in [Workers -> Block] /\ fork \in [Workers -> Fork]
      /\ NoWorker \notin Workers
      /\ pc[v] \in Locked => fhMutex = v /\ fhMutex # NoWorker
      /\ pc[w] \in Locked => fhMutex = w
  BY NoWorkerAssumption DEF NodeInv, HandlerTypeOK, WorkerOK
<1>2. CASE ForkStep(w)
  BY <1>1, <1>2 DEF ForkStep, CheckExtends, CheckHead, ParentMissing, VisitBranch, NoForkPoint,
                ForkFound, ResolveFork, ResolveNothing, ForkExecuteTx, ForkExecuteTxFails,
                ForkNextBlock, SetChainHead, Unlock, Locked
<1>3. CASE ~ ForkStep(w)
  BY <1>1, <1>3 DEF Works, ProposeBlock, OutOfBlocks, AddRefused, AddAccepted, AddRuns, Update,
                    Receive, ProposeHeight
<1> QED BY <1>2, <1>3

\* What the worker that steps knows afterwards.
LEMMA WorkerSteps ==
  ASSUME NodeInv, [NodeNext]_nodeVars, NEW w \in Workers,
         Works(w) \/ (\E b \in Received : Receive(w, b)) \/ ProposeHeight(w)
  PROVE  /\ pc'[w] \in Locked => fhMutex' = w
         /\ pc'[w] \in {"find", "resolve", "execute"} => Prev(block'[w]) \in blocks'
         /\ pc'[w] \in {"visit", "find"} => chainHead' = oldHead' \/ chainHead' \in blocks'
<1> USE DEF handlerVars, workerVars, Goto, Locked, chainVars
<1>1. /\ pc \in [Workers -> PC] /\ block \in [Workers -> Block]
      /\ pc[w] \in Locked => fhMutex = w
      /\ pc[w] \in {"find", "resolve", "execute"} => Prev(block[w]) \in blocks
      /\ pc[w] \in {"visit", "find"} => chainHead = oldHead \/ chainHead \in blocks
      /\ blocks \subseteq blocks'
  BY NodeChainNext DEF NodeInv, HandlerTypeOK, WorkerOK
<1>2. CASE CheckHead(w)
  BY <1>1, <1>2 DEF CheckHead, vars
<1>3. CASE VisitBranch(w)
  BY <1>1, <1>3 DEF VisitBranch, vars
<1>4. ASSUME NEW x \in Block, ForkFound(w, x)
      PROVE  pc'[w] \in {"idle", "resolve", "add"} /\ Prev(block'[w]) \in blocks'
  BY <1>1, <1>4 DEF ForkFound
<1>5. ASSUME NEW x \in Block, ResolveFork(w, x) \/ ResolveNothing(w)
      PROVE  pc'[w] = "execute" /\ fhMutex' = w /\ Prev(block'[w]) \in blocks'
  BY <1>1, <1>5 DEF ResolveFork, ResolveNothing
<1>6. ASSUME NEW x \in Block, ForkExecuteTx(w) \/ ForkNextBlock(w, x)
      PROVE  pc'[w] = "execute" /\ fhMutex' = w /\ Prev(block'[w]) \in blocks'
  BY <1>1, <1>6 DEF ForkExecuteTx, ForkNextBlock
<1>7. CASE CheckExtends(w) \/ ParentMissing(w) \/ NoForkPoint(w) \/ ForkExecuteTxFails(w)
           \/ SetChainHead(w)
  BY <1>1, <1>7 DEF CheckExtends, ParentMissing, NoForkPoint, ForkExecuteTxFails, SetChainHead
<1>8. CASE ForkStep(w)
  BY <1>2, <1>3, <1>4, <1>5, <1>6, <1>7, <1>8, GenesisAssumption DEF ForkStep
<1>9. CASE ~ ForkStep(w)
  BY <1>1, <1>9 DEF Works, ProposeBlock, OutOfBlocks, AddRefused, AddAccepted, AddRuns, Update,
                    Receive, ProposeHeight
<1> QED BY <1>8, <1>9

\* Every step is one of a worker, or leaves the workers alone.
LEMMA NodeSteps ==
  ASSUME [NodeNext]_nodeVars
  PROVE  \/ \E w \in Workers : Works(w) \/ (\E b \in Received : Receive(w, b)) \/ ProposeHeight(w)
         \/ UNCHANGED <<fhMutex, oldHead, execAt, execPos, workerVars>>
  BY DEF NodeNext, nodeVars, OperatorStep, ClearOldForks, SetEnabled, handlerVars

LEMMA WorkerNext ==
  ASSUME NodeInv, [NodeNext]_nodeVars
  PROVE  WorkerOK'
<1> SUFFICES ASSUME NEW v \in Workers
             PROVE  /\ pc'[v] \in Locked => fhMutex' = v
                    /\ pc'[v] \in {"find", "resolve", "execute"} => Prev(block'[v]) \in blocks'
                    /\ pc'[v] \in {"visit", "find"}
                          => chainHead' = oldHead' \/ chainHead' \in blocks'
  BY DEF WorkerOK
<1>1. /\ pc[v] \in Locked => fhMutex = v
      /\ pc[v] \in {"find", "resolve", "execute"} => Prev(block[v]) \in blocks
      /\ pc[v] \in {"visit", "find"} => chainHead = oldHead \/ chainHead \in blocks
      /\ blocks \subseteq blocks'
  BY NodeChainNext DEF NodeInv, WorkerOK
<1>2. pc[v] \in {"visit", "find"} => chainHead' = oldHead \/ chainHead' \in blocks'
  BY <1>1, HeadStored
<1>3. ASSUME /\ pc'[v] = pc[v] /\ block'[v] = block[v]
             /\ pc[v] \in Locked => UNCHANGED <<fhMutex, oldHead>>
      PROVE  /\ pc'[v] \in Locked => fhMutex' = v
             /\ pc'[v] \in {"find", "resolve", "execute"} => Prev(block'[v]) \in blocks'
             /\ pc'[v] \in {"visit", "find"} => chainHead' = oldHead' \/ chainHead' \in blocks'
  BY <1>1, <1>2, <1>3 DEF Locked
<1>4. ASSUME NEW w \in Workers,
             Works(w) \/ (\E b \in Received : Receive(w, b)) \/ ProposeHeight(w), v # w
      PROVE  /\ pc'[v] = pc[v] /\ block'[v] = block[v]
             /\ pc[v] \in Locked => UNCHANGED <<fhMutex, oldHead>>
  BY <1>4, OthersKept
<1>5. CASE UNCHANGED <<fhMutex, oldHead, execAt, execPos, workerVars>>
  BY <1>3, <1>5 DEF workerVars
<1> QED BY <1>3, <1>4, <1>5, NodeSteps, WorkerSteps

-----------------------------------------------------------------------------
(* Forks.                                                                  *)

\* Only a stored block is the fork point of a fork that triggers a
\* reorganisation: a new block that is the head, and not stored, is its own
\* fork point, but was the head already when CheckForFork began, and its
\* branch has no more work than itself.
LEMMA ForkPointStored ==
  ASSUME NodeInv, NEW w \in Workers, NEW x \in Block, pc[w] = "find",
         findForkPoint(block[w], x), TriggersReorg(ForkRecord(block[w], x))
  PROVE  x \in blocks /\ x \in Ancestors(blocks, block[w])
<1>1. /\ Rooted(blocks) /\ block[w] \in Block /\ chainHead \in Block
      /\ Prev(block[w]) \in blocks
      /\ chainHead = oldHead \/ chainHead \in blocks
  BY StoredRooted DEF NodeInv, HandlerTypeOK, ChainInv, TypeOK, WorkerOK
<1>2. x \in Ancestors(blocks, block[w]) /\ x \in Ancestors(blocks, chainHead)
  BY DEF findForkPoint, FirstMet, CommonBlocks, WalkDownTo
<1>3. (x \in blocks \/ x = block[w]) /\ (x \in blocks \/ x = chainHead)
  BY <1>1, <1>2, WalkMeets
<1>4. ASSUME x \notin blocks PROVE FALSE
  <2>1. block[w] = oldHead
    BY <1>1, <1>3, <1>4
  <2>2. /\ calculateChainWork(oldHead, Height(x)) \in Int
        /\ Height(oldHead) \in Int /\ Height(x) \in Int
    BY <1>1, <2>1, HeaderTypes, ChainWorkType, ModulusAssumption DEF Uint64
  <2>3. Sub64(calculateChainWork(oldHead, Height(x)), calculateChainWork(oldHead, Height(x))) = 0
    <3> DEFINE c == calculateChainWork(oldHead, Height(x))
    <3>1. c \in Int
      BY <2>2
    <3> HIDE DEF c
    <3>2. Sub64(c, c) = 0
      BY <3>1, ModulusAssumption DEF Sub64
    <3> QED BY <3>2 DEF c
  <2> QED BY <2>1, <2>2, <2>3 DEF TriggersReorg, ForkRecord
<1> QED BY <1>2, <1>4

\* The parts of the invariant for one worker, on its block b and fork f.
RootedIn(stored, b, f) == f.ForkPoint \in stored \cap Ancestors(stored, b)

OnBranch(stored, b, f, x, p) ==
    \/ x \in Ancestors(stored, b) \ Ancestors(stored, f.ForkPoint)
    \/ x = b /\ b = f.ForkPoint /\ ~ p <= Len(BlockTxs[x])

\* They stay true while blocks are added.
LEMMA BranchKept ==
  ASSUME NEW stored, Rooted(stored), NEW more \in SUBSET Block, stored \subseteq more,
         NEW b \in Block, Prev(b) \in stored, NEW f, NEW x, NEW p, RootedIn(stored, b, f)
  PROVE  /\ RootedIn(more, b, f)
         /\ OnBranch(stored, b, f, x, p) => OnBranch(more, b, f, x, p)
<1>1. f.ForkPoint \in stored /\ f.ForkPoint \in Block
  BY DEF RootedIn, Rooted
<1>2. /\ Ancestors(more, b) = Ancestors(stored, b)
      /\ Ancestors(more, f.ForkPoint) = Ancestors(stored, f.ForkPoint)
  BY <1>1, AncestorsKept
<1> QED BY <1>2 DEF RootedIn, OnBranch

\* ResolveFork starts above the fork point and goes up.
LEMMA BranchSteps ==
  ASSUME NodeInv, NEW w \in Workers, NEW x \in Block, block[w] \in Block,
         Rooted(blocks), RootedIn(blocks, block[w], fork[w]),
         pc[w] = "execute" => OnBranch(blocks, block[w], fork[w], execAt, execPos),
         ResolveFork(w, x) \/ ResolveNothing(w) \/ ForkExecuteTx(w) \/ ForkNextBlock(w, x)
  PROVE  OnBranch(blocks, block[w], fork[w], execAt', execPos')
<1> DEFINE b == block[w]
           fp == fork[w].ForkPoint
<1>1. fp \in blocks /\ fp \in Block /\ fp \in Ancestors(blocks, b) /\ b \in Block
  BY DEF RootedIn, Rooted
<1>2. CASE ResolveFork(w, x)
  BY <1>2 DEF ResolveFork, BlocksToAdd, BlocksFromFork, OnBranch
<1>3. CASE ResolveNothing(w)
  <2>1. Ancestors(blocks, b) \subseteq Ancestors(blocks, fp)
    BY <1>3 DEF ResolveNothing, BlocksToAdd, BlocksFromFork
  <2>2. b \in Ancestors(blocks, b)
    BY <1>1, AncestorsStep DEF Rooted
  <2>3. b \in blocks
    BY <1>1, <2>1, <2>2, WalkMeets
  <2>4. /\ b = fp \/ Height(b) < Height(fp)
        /\ fp = b \/ Height(fp) < Height(b)
    <3> HIDE DEF b, fp
    <3> QED BY <1>1, <2>1, <2>2, <2>3, WalkMeets
  <2>5. b = fp
    <3>1. Height(b) \in Nat /\ Height(fp) \in Nat
      BY <1>1, HeaderTypes
    <3> QED BY <2>4, <3>1
  <2>6. execAt' = b /\ execPos' = Len(BlockTxs[b]) + 1 /\ Len(BlockTxs[b]) \in Nat
    BY <1>1, <1>3, BlockTxsAssumption DEF ResolveNothing
  <2>7. ~ execPos' <= Len(BlockTxs[execAt'])
    BY <2>6
  <2> QED BY <2>5, <2>6, <2>7 DEF OnBranch
<1>4. CASE ForkExecuteTx(w)
  BY <1>4 DEF ForkExecuteTx, OnBranch, MoreToExecute
<1>5. CASE ForkNextBlock(w, x)
  <2>1. /\ execAt # b /\ x \in Ancestors(blocks, b) /\ Prev(x) = execAt /\ execAt' = x
        /\ execPos' = 1 /\ OnBranch(blocks, b, fork[w], execAt, execPos)
    BY <1>5 DEF ForkNextBlock
  <2>2. CASE execAt \in Ancestors(blocks, b) \ Ancestors(blocks, fp)
    <3>1. execAt \in blocks
      BY <1>1, <2>1, <2>2, WalkMeets
    <3>2. x \notin Ancestors(blocks, fp)
      BY <1>1, <2>1, <2>2, <3>1, ParentMet
    <3> QED BY <2>1, <3>2 DEF OnBranch
  <2> QED BY <2>1, <2>2 DEF OnBranch
<1> QED BY <1>2, <1>3, <1>4, <1>5

\* Both parts, for every worker.
LEMMA ForkParts ==
  /\ ForksRooted <=> \A w \in Workers : pc[w] \in {"resolve", "execute"}
                          => RootedIn(blocks, block[w], fork[w])
  /\ BranchExecuted <=> \A w \in Workers : pc[w] = "execute"
                          => OnBranch(blocks, block[w], fork[w], execAt, execPos)
  BY DEF ForksRooted, BranchExecuted, RootedIn, OnBranch, MoreToExecute

LEMMA ForkNext ==
  ASSUME NodeInv, [NodeNext]_nodeVars
  PROVE  ForksRooted' /\ BranchExecuted'
<1> SUFFICES ASSUME NEW v \in Workers
             PROVE  /\ pc'[v] \in {"resolve", "execute"}
                          => RootedIn(blocks', block'[v], fork'[v])
                    /\ pc'[v] = "execute"
                          => OnBranch(blocks', block'[v], fork'[v], execAt', execPos')
  BY DEF ForksRooted, BranchExecuted, RootedIn, OnBranch, MoreToExecute
<1> USE DEF handlerVars, workerVars, Goto
<1>1. /\ Rooted(blocks) /\ blocks' \in SUBSET Block /\ blocks \subseteq blocks'
      /\ pc \in [Workers -> PC] /\ block \in [Workers -> Block] /\ fork \in [Workers -> Fork]
      /\ pc[v] \in {"find", "resolve", "execute"} => Prev(block[v]) \in blocks
      /\ pc[v] \in {"resolve", "execute"} => RootedIn(blocks, block[v], fork[v])
      /\ pc[v] = "execute" => OnBranch(blocks, block[v], fork[v], execAt, execPos)
      /\ block[v] \in Block
  BY StoredRooted, NodeChainNext, ForkParts
  DEF NodeInv, HandlerTypeOK, WorkerOK, ChainInv, TypeOK
<1>2. ASSUME /\ pc'[v] = pc[v] /\ block'[v] = block[v] /\ fork'[v] = fork[v]
             /\ pc[v] \in Locked => UNCHANGED <<fhMutex, oldHead, execAt, execPos>>
      PROVE  /\ pc'[v] \in {"resolve", "execute"}
                    => RootedIn(blocks', block'[v], fork'[v])
             /\ pc'[v] = "execute"
                    => OnBranch(blocks', block'[v], fork'[v], execAt', execPos')
  BY <1>1, <1>2, BranchKept DEF Locked
<1>3. ASSUME NEW w \in Workers,
             Works(w) \/ (\E b \in Received : Receive(w, b)) \/ ProposeHeight(w), v # w
      PROVE  /\ pc'[v] = pc[v] /\ block'[v] = block[v] /\ fork'[v] = fork[v]
             /\ pc[v] \in Locked => UNCHANGED <<fhMutex, oldHead, execAt, execPos>>
  BY <1>3, OthersKept
<1>4. CASE UNCHANGED <<fhMutex, oldHead, execAt, execPos, workerVars>>
  BY <1>2, <1>4
<1>5. ASSUME NEW x \in Block, ForkFound(v, x), pc'[v] \in {"resolve", "execute"}
      PROVE  pc'[v] = "resolve" /\ RootedIn(blocks', block'[v], fork'[v])
  <2> DEFINE f == ForkRecord(block[v], x)
  <2>1. /\ pc[v] = "find" /\ findForkPoint(block[v], x) /\ pc'[v] = "resolve"
        /\ TriggersReorg(f) /\ fork'[v] = f /\ block'[v] = block[v]
    <3> HIDE DEF f
    <3>1. /\ pc[v] = "find" /\ findForkPoint(block[v], x)
          /\ fork' = [fork EXCEPT ![v] = IF ~ TooDeep(f) /\ TriggersReorg(f) THEN f ELSE NoFork]
          /\ pc' = [pc EXCEPT ![v] = IF TooDeep(f) THEN "idle" ELSE
                       IF ~ TooDeep(f) /\ TriggersReorg(f) THEN "resolve" ELSE "add"]
          /\ block' = block
      BY <1>5 DEF ForkFound, f
    <3> HIDE DEF Fork
    <3> QED BY <1>1, <1>5, <3>1
  <2>2. x \in blocks /\ x \in Ancestors(blocks, block[v])
    BY <2>1, ForkPointStored
  <2>3. f.ForkPoint = x
    BY DEF ForkRecord
  <2> HIDE DEF f
  <2>4. RootedIn(blocks, block[v], f)
    BY <2>2, <2>3 DEF RootedIn
  <2>5. RootedIn(blocks', block[v], f)
    BY <1>1, <2>1, <2>4, BranchKept
  <2> QED BY <2>1, <2>5
<1>6. ASSUME NEW x \in Block,
             ResolveFork(v, x) \/ ResolveNothing(v) \/ ForkExecuteTx(v) \/ ForkNextBlock(v, x)
      PROVE  /\ RootedIn(blocks', block'[v], fork'[v])
             /\ OnBranch(blocks', block'[v], fork'[v], execAt', execPos')
  <2>1. /\ pc[v] \in {"resolve", "execute"} /\ block' = block /\ fork' = fork
        /\ blocks' = blocks
    BY <1>6 DEF ResolveFork, ResolveNothing, ForkExecuteTx, ForkNextBlock, vars, chainVars
  <2>2. OnBranch(blocks, block[v], fork[v], execAt', execPos')
    BY <1>1, <1>6, <2>1, BranchSteps
  <2> QED BY <1>1, <2>1, <2>2
<1>7. CASE CheckExtends(v) \/ CheckHead(v) \/ ParentMissing(v) \/ VisitBranch(v)
           \/ NoForkPoint(v) \/ ForkExecuteTxFails(v) \/ SetChainHead(v)
  BY <1>1, <1>7 DEF CheckExtends, CheckHead, ParentMissing, VisitBranch, NoForkPoint,
                    ForkExecuteTxFails, SetChainHead
<1>8. CASE ForkStep(v)
  BY <1>5, <1>6, <1>7, <1>8, GenesisAssumption DEF ForkStep
<1>9. CASE /\ ~ ForkStep(v)
           /\ Works(v) \/ (\E b \in Received : Receive(v, b)) \/ ProposeHeight(v)
  BY <1>1, <1>9 DEF Works, ProposeBlock, OutOfBlocks, AddRefused, AddAccepted, AddRuns, Update,
                    Receive, ProposeHeight
<1> QED BY <1>2, <1>3, <1>4, <1>8, <1>9, NodeSteps

-----------------------------------------------------------------------------
(* Credits.                                                                *)

Reorganising == IF phase = "reorg" THEN 1 ELSE 0

\* An AddBlock that returns nil has stored a block that no other AddBlock has
\* stored or will.
LEMMA SuccessStores ==
  ASSUME NodeInv, AddBlockSucceeds
  PROVE  /\ IsFiniteSet(blocks') /\ phase' = "execute"
         /\ Cardinality(blocks') = Cardinality(blocks) + 1 - Reorganising
<1>1. IsFiniteSet(blocks) /\ Cardinality(blocks) \in Nat
  BY FS_CardinalityType DEF NodeInv, CountOK
<1>2. CASE EndReorg
  BY <1>1, <1>2 DEF EndReorg, ReleaseMutex, Reorganising
<1>3. CASE AddToSideBranch \/ ExtendHead \/ \E x \in Block : KeepCurrentChain(x)
  <2>1. /\ adding # NoBlock /\ phase = "execute" /\ phase' = "execute"
        /\ blocks' = blocks \cup {adding}
    BY <1>3 DEF AddToSideBranch, ExtendHead, KeepCurrentChain, SelectBestChain, Executed,
                Insert, ReleaseMutex
  <2>2. adding \notin blocks
    BY <2>1 DEF NodeInv, ChainInv, CallOK
  <2>3. IsFiniteSet(blocks') /\ Cardinality(blocks') = Cardinality(blocks) + 1
    BY <1>1, <2>1, <2>2, FS_AddElement
  <2> QED BY <1>1, <2>1, <2>3 DEF Reorganising
<1> QED BY <1>2, <1>3 DEF AddBlockSucceeds

\* What an AddBlock that goes on or fails has stored is accounted for too.
LEMMA OthersStore ==
  ASSUME NodeInv, AddBlockContinues \/ AddBlockFails
  PROVE  /\ IsFiniteSet(blocks')
         /\ Cardinality(blocks') - Reorganising' >= Cardinality(blocks) - Reorganising
<1> USE DEF chainVars, callVars
<1>1. IsFiniteSet(blocks) /\ Cardinality(blocks) \in Nat
  BY FS_CardinalityType DEF NodeInv, CountOK
<1>2. CASE ExecuteTx \/ AddBlockFails \/ \E x \in Block : ReorgNextBlock(x)
  <2>1. blocks' = blocks /\ (phase' = phase \/ phase' = "execute")
    BY <1>2 DEF ExecuteTx, AddBlockFails, ExecuteTxFails, StateRootMismatch, ReorgNextBlock,
                ReleaseMutex
  <2> QED BY <1>1, <2>1 DEF Reorganising
<1>3. ASSUME NEW x \in Block, NEW y \in Block, BeginReorg(x, y)
      PROVE  /\ IsFiniteSet(blocks')
             /\ Cardinality(blocks') - Reorganising' >= Cardinality(blocks) - Reorganising
  <2>1. /\ adding # NoBlock /\ phase = "execute" /\ phase' = "reorg"
        /\ blocks' = blocks \cup {adding}
    BY <1>3 DEF BeginReorg, SelectBestChain, Executed, Insert
  <2>2. adding \notin blocks
    BY <2>1 DEF NodeInv, ChainInv, CallOK
  <2>3. IsFiniteSet(blocks') /\ Cardinality(blocks') = Cardinality(blocks) + 1
    BY <1>1, <2>1, <2>2, FS_AddElement
  <2> QED BY <1>1, <2>1, <2>3 DEF Reorganising
<1> QED BY <1>2, <1>3 DEF AddBlockContinues

LEMMA CountNext ==
  ASSUME NodeInv, [NodeNext]_nodeVars
  PROVE  CountOK'
<1> USE DEF handlerVars, workerVars, chainVars, callVars, statusVars, Goto
<1>1. /\ pc \in [Workers -> PC] /\ credited \in Nat
      /\ IsFiniteSet(blocks) /\ Cardinality(blocks) \in Nat
      /\ IsFiniteSet(Updating) /\ Cardinality(Updating) \in Nat
      /\ credited + Cardinality(Updating) + Reorganising < Cardinality(blocks)
      /\ Reorganising \in {0, 1}
  BY FS_CardinalityType DEF NodeInv, HandlerTypeOK, StatusTypeOK, CountOK, Reorganising
<1> SUFFICES /\ IsFiniteSet(blocks') /\ IsFiniteSet(Updating')
             /\ credited' + Cardinality(Updating') + Reorganising' < Cardinality(blocks')
  BY DEF CountOK, Reorganising
<1>2. CASE Updating' = Updating /\ UNCHANGED <<blocks, phase, credited>>
  BY <1>1, <1>2 DEF Reorganising
<1>3. ASSUME NEW w \in Workers, AddRuns(w)
      PROVE  /\ IsFiniteSet(blocks') /\ IsFiniteSet(Updating')
             /\ credited' + Cardinality(Updating') + Reorganising' < Cardinality(blocks')
  <2>1. pc[w] = "adding" /\ credited' = credited /\ w \notin Updating
    BY <1>3 DEF AddRuns, Updating
  <2>2. CASE AddBlockSucceeds /\ Goto(w, "update")
    <3>1. Updating' = Updating \cup {w}
      BY <1>1, <2>2 DEF Updating
    <3>2. IsFiniteSet(Updating') /\ Cardinality(Updating') = Cardinality(Updating) + 1
      BY <1>1, <2>1, <3>1, FS_AddElement
    <3>3. /\ IsFiniteSet(blocks') /\ Reorganising' = 0
          /\ Cardinality(blocks') = Cardinality(blocks) + 1 - Reorganising
      BY <2>2, SuccessStores DEF Reorganising
    <3> QED BY <1>1, <2>1, <3>2, <3>3
  <2>3. CASE (AddBlockContinues /\ UNCHANGED pc) \/ (AddBlockFails /\ Goto(w, "idle"))
    <3>1. Updating' = Updating
      BY <1>1, <2>1, <2>3 DEF Updating
    <3>2. /\ IsFiniteSet(blocks') /\ Reorganising' \in {0, 1}
          /\ Cardinality(blocks') - Reorganising' >= Cardinality(blocks) - Reorganising
      BY <2>3, OthersStore DEF Reorganising
    <3>3. Cardinality(blocks') \in Nat
      BY <3>2, FS_CardinalityType
    <3> QED BY <1>1, <2>1, <3>1, <3>2, <3>3
  <2> QED BY <1>3, <2>2, <2>3 DEF AddRuns
<1>4. ASSUME NEW w \in Workers, Update(w)
      PROVE  /\ IsFiniteSet(blocks') /\ IsFiniteSet(Updating')
             /\ credited' + Cardinality(Updating') + Reorganising' < Cardinality(blocks')
  <2>1. /\ credited' = credited + 1 /\ w \in Updating /\ Updating' = Updating \ {w}
        /\ UNCHANGED <<blocks, phase>>
    BY <1>1, <1>4 DEF Update, Updating, vars
  <2>2. IsFiniteSet(Updating') /\ Cardinality(Updating') = Cardinality(Updating) - 1
    BY <1>1, <2>1, FS_RemoveElement
  <2> QED BY <1>1, <2>1, <2>2 DEF Reorganising
<1>5. ASSUME NEW w \in Workers, AddAccepted(w)
      PROVE  Updating' = Updating /\ UNCHANGED <<blocks, phase, credited>>
  <2>1. phase = "execute"
    BY <1>5 DEF AddAccepted, BeginAdd, NodeInv, ChainInv, CallOK
  <2> QED BY <1>1, <1>5, <2>1 DEF AddAccepted, BeginAdd, Updating
<1>6. ASSUME NEW w \in Workers, ForkStep(w), UNCHANGED statusVars
      PROVE  Updating' = Updating /\ UNCHANGED <<blocks, phase, credited>>
  BY <1>1, <1>6
  DEF ForkStep, CheckExtends, CheckHead, ParentMissing, VisitBranch, NoForkPoint, ForkFound,
      ResolveFork, ResolveNothing, ForkExecuteTx, ForkExecuteTxFails, ForkNextBlock,
      SetChainHead, Updating, vars
<1>7. ASSUME NEW w \in Workers,
             \/ \E p \in Proposals : ProposeBlock(w, p)
             \/ OutOfBlocks(w) \/ AddRefused(w)
             \/ \E b \in Received : Receive(w, b)
             \/ ProposeHeight(w)
      PROVE  Updating' = Updating /\ UNCHANGED <<blocks, phase, credited>>
  BY <1>1, <1>7 DEF ProposeBlock, OutOfBlocks, AddRefused, Receive, ProposeHeight, Updating, vars
<1>8. CASE (OperatorStep /\ UNCHANGED statusVars) \/ UNCHANGED nodeVars
           \/ (Tick /\ UNCHANGED <<handlerVars, workerVars, statusVars>>)
  BY <1>2, <1>8 DEF OperatorStep, ClearOldForks, SetEnabled, Tick, nodeVars, Updating, vars
<1> QED BY <1>2, <1>3, <1>4, <1>5, <1>6, <1>7, <1>8 DEF NodeNext, Works

-----------------------------------------------------------------------------
(* The theorems.                                                           *)

LEMMA NodeInvNext == NodeInv /\ [NodeNext]_nodeVars => NodeInv'
  BY NodeChainNext, HandlerTypeNext, StatusTypeNext, WorkerNext, ForkNext, CountNext DEF NodeInv

LEMMA NodeInvariant == NodeSpec => []NodeInv
  BY NodeInitInv, NodeInvNext, PTL DEF NodeSpec

\* Whatever the workers, the clock and the operator interleave, the chain,
\* the fork handler and the workers' variables keep their types.
THEOREM NodeTypeCorrect == NodeSpec => []NodeTypeOK
<1>1. NodeInv => NodeTypeOK
  BY DEF NodeInv, ChainInv, StatusTypeOK, NodeTypeOK
<1> QED BY <1>1, NodeInvariant, PTL

\* The stored blocks stay a tree of valid blocks with an exact height index,
\* although ResolveFork makes blocks the head that are not stored, and
\* executes transactions while an AddBlock runs.
THEOREM NodeTreeCorrect == NodeSpec => []TreeIndexed
<1>1. NodeInv => TreeIndexed
  BY DEF NodeInv, ChainInv, TreeIndexed
<1> QED BY <1>1, NodeInvariant, PTL

\* AddBlock always finds a fork point; and the fork handler, for every number
\* of workers and every maxForkDepth, resolves each fork from a stored common
\* block up, although the chain moves between its reads and its calls.
THEOREM ForksResolvedCorrect == NodeSpec => []ForksResolved
<1>1. NodeInv => ForkPointExists
  BY ForkPointFound DEF NodeInv, ForkPointExists, Executed
<1>2. NodeInv => ForksResolved
  BY <1>1 DEF ForksResolved, NodeInv
<1> QED BY <1>2, NodeInvariant, PTL

\* A validator is credited at most once for a stored block, however often the
\* block arrives and whichever workers process it.
THEOREM CreditedOnceCorrect == NodeSpec => []CreditedOnce
<1>1. NodeInv => CreditedOnce
  <2> SUFFICES ASSUME NodeInv PROVE CreditedOnce
    OBVIOUS
  <2>1. /\ credited \in Nat /\ Cardinality(Updating) \in Nat /\ Cardinality(blocks) \in Nat
        /\ credited + Cardinality(Updating) + (IF phase = "reorg" THEN 1 ELSE 0)
              < Cardinality(blocks)
    BY FS_CardinalityType DEF NodeInv, CountOK, StatusTypeOK
  <2>2. credited + Cardinality(Updating) < Cardinality(blocks)
    BY <2>1
  <2> QED BY <2>2 DEF CreditedOnce, Updating
<1> QED BY <1>1, NodeInvariant, PTL

=============================================================================

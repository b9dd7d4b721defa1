-------------------------------- MODULE Trie --------------------------------
(***************************************************************************)
(* pkg/state/mpt.go and node.go: the Merkle Patricia trie.  Its nodes are  *)
(* immutable, so a tree is a value and a call replaces the root.  A nil    *)
(* child and an EmptyNode are told apart nowhere: both are EmptyNode here, *)
(* and a branch lists its other children only.                             *)
(*                                                                         *)
(* A call that may fail is an operator on sets: {} is the error.           *)
(***************************************************************************)
EXTENDS Integers, Sequences, SequencesExt, TLC

CONSTANTS
    TrieKeys,     \* keys, as the nibbles of their bytes
    TrieValues    \* values, not empty

ASSUME TrieAssumption ==
    /\ \A k \in TrieKeys : k \in Seq(0 .. 15) /\ Len(k) % 2 = 0
    /\ TrieValues \subseteq Nat \ {0}

\* The nibble that ends the path of a key, and the empty value.
Terminator == 16
NoValue == 0

EmptyNode == [type |-> "empty"]
LeafNode(key, value) == [type |-> "leaf", key |-> key, value |-> value]
ExtensionNode(path, next) == [type |-> "extension", path |-> path, next |-> next]
BranchNode(children, value) == [type |-> "branch", children |-> children, value |-> value]

VARIABLES
    root,      \* mpt.root
    lastPut    \* history: the last value put under every key and not deleted

trieVars == <<root, lastPut>>

TrieInit ==
    /\ root = EmptyNode
    /\ lastPut = [k \in TrieKeys |-> NoValue]

-----------------------------------------------------------------------------
(* Paths.                                                                  *)

KeyToPath(key) == Append(key, Terminator)

\* What NibblesToBytes and BytesToNibbles make of a path: an odd one is
\* filled up, the terminator's bit 4 is shifted out of a byte when it comes
\* first and falls into the other nibble when it comes second.
Nibble(path, i) == IF i \in DOMAIN path THEN path[i] ELSE 0

Repacked(path) ==
    [i \in 1 .. 2 * ((Len(path) + 1) \div 2) |->
        IF i % 2 = 0 \/ Nibble(path, i + 1) # Terminator THEN Nibble(path, i) % 16
        ELSE Nibble(path, i) + 1 - (Nibble(path, i) % 2)]

\* PathToKey drops the terminator only at the front of a path.
StoredPath(key) ==
    KeyToPath(Repacked(IF key # <<>> /\ Head(key) = Terminator THEN Tail(key) ELSE key))

CommonPrefixLength(a, b) == Len(LongestCommonPrefix({a, b}))

From(path, i) == SubSeq(path, i + 1, Len(path))

-----------------------------------------------------------------------------
(* Reading.                                                                *)

LeafMatches(key, path) == path = <<>> \/ IsPrefix(StoredPath(key), path)

RECURSIVE get(_, _)
get(node, path) ==
    CASE node.type = "empty" -> {}
      [] node.type = "leaf" -> IF LeafMatches(node.key, path) THEN {node.value} ELSE {}
      [] node.type = "extension" ->
            IF path # <<>> /\ IsPrefix(node.path, path) THEN get(node.next, From(path, Len(node.path))) ELSE {}
      [] node.type = "branch" ->
            IF path = <<>> THEN {node.value} \ {NoValue}
            ELSE IF Head(path) \in DOMAIN node.children THEN get(node.children[Head(path)], Tail(path)) ELSE {}

TrieGet(key) == get(root, KeyToPath(key))

-----------------------------------------------------------------------------
(* Writing.                                                                *)

\* The child a branch gets for a path: none when the path has ended.
Hung(path, value) ==
    IF path = <<>> \/ Head(path) = Terminator THEN <<>> ELSE Head(path) :> LeafNode(Tail(path), value)

\* Mutant: the value of a leaf is not replaced.
insertToLeafKeeping(leaf, path, value) ==
    LET common == CommonPrefixLength(leaf.key, path)
        branch == BranchNode(Hung(From(leaf.key, common), leaf.value) @@ Hung(From(path, common), value), NoValue)
    IN  CASE path = <<>> -> leaf
          [] path # <<>> /\ common = 0 -> branch
          [] common > 0 /\ common = Len(leaf.key) -> ExtensionNode(leaf.key, LeafNode(From(path, common), value))
          [] common > 0 /\ common < Len(leaf.key) /\ common = Len(path) ->
                ExtensionNode(path, LeafNode(From(leaf.key, common), value))
          [] common > 0 /\ common < Len(leaf.key) /\ common < Len(path) ->
                ExtensionNode(SubSeq(path, 1, common), branch)

\* A leaf met by its own path becomes an extension with an empty leaf behind.
insertToLeaf(leaf, path, value) ==
    LET common == CommonPrefixLength(leaf.key, path)
        branch == BranchNode(Hung(From(leaf.key, common), leaf.value) @@ Hung(From(path, common), value), NoValue)
    IN  CASE path = <<>> -> LeafNode(leaf.key, value)
          [] path # <<>> /\ common = 0 -> branch
          [] common > 0 /\ common = Len(leaf.key) -> ExtensionNode(leaf.key, LeafNode(From(path, common), value))
          [] common > 0 /\ common < Len(leaf.key) /\ common = Len(path) ->
                ExtensionNode(path, LeafNode(From(leaf.key, common), value))
          [] common > 0 /\ common < Len(leaf.key) /\ common < Len(path) ->
                ExtensionNode(SubSeq(path, 1, common), branch)

RECURSIVE insert(_, _, _)

\* The child that keeps what was behind an extension: the rest of its path is
\* inserted into the node behind it, with the value of that node if it is a
\* leaf.
Reinserted(ext) ==
    LET kept == insert(ext.next, Tail(ext.path), IF ext.next.type = "leaf" THEN ext.next.value ELSE NoValue)
    IN  IF Head(ext.path) = Terminator \/ kept = {} THEN <<>>
        ELSE Head(ext.path) :> CHOOSE n \in kept : TRUE

\* Where the paths part the new child may take the place of the old one: the
\* branch stands at the first nibble, shared or not.
insertToExtension(ext, path, value) ==
    CASE path = <<>> -> {LeafNode(ext.path, value)}
      [] path # <<>> /\ IsPrefix(ext.path, path) ->
            {ExtensionNode(ext.path, next) : next \in insert(ext.next, From(path, Len(ext.path)), value)}
      [] path # <<>> /\ ~ IsPrefix(ext.path, path) ->
            {BranchNode(Hung(path, value) @@ Reinserted(ext), NoValue)}

insertToBranch(branch, path, value) ==
    CASE path = <<>> -> {[branch EXCEPT !.value = value]}
      [] path # <<>> /\ Head(path) = Terminator -> {}
      [] path # <<>> /\ Head(path) # Terminator ->
            LET nibble == Head(path)
                child == IF nibble \in DOMAIN branch.children THEN branch.children[nibble] ELSE EmptyNode
            IN  {BranchNode((nibble :> new) @@ branch.children, branch.value) :
                    new \in insert(child, Tail(path), value)}

insert(node, path, value) ==
    CASE node.type = "empty" -> {LeafNode(path, value)}
      [] node.type = "leaf" -> {insertToLeaf(node, path, value)}
      [] node.type = "extension" -> insertToExtension(node, path, value)
      [] node.type = "branch" -> insertToBranch(node, path, value)

RECURSIVE delete(_, _)
delete(node, path) ==
    CASE node.type = "empty" -> {}
      [] node.type = "leaf" -> IF path = <<>> THEN {EmptyNode} ELSE {}
      [] node.type = "extension" ->
            IF path = <<>> THEN {EmptyNode}
            ELSE IF IsPrefix(node.path, path)
            THEN {IF next = EmptyNode THEN EmptyNode ELSE ExtensionNode(node.path, next) :
                    next \in delete(node.next, From(path, Len(node.path)))}
            ELSE {}
      [] node.type = "branch" ->
            IF path = <<>> THEN {[node EXCEPT !.value = NoValue]}
            ELSE IF Head(path) \in DOMAIN node.children
            THEN {BranchNode((Head(path) :> child) @@ node.children, node.value) :
                    child \in delete(node.children[Head(path)], Tail(path))}
            ELSE {}

-----------------------------------------------------------------------------

\* A failed insert leaves the root.
TriePut(k, v) ==
    /\ \E new \in insert(root, KeyToPath(k), v) : root' = new
    /\ lastPut' = [lastPut EXCEPT ![k] = v]

TrieDelete(k) ==
    /\ \E new \in delete(root, KeyToPath(k)) : root' = new
    /\ lastPut' = [lastPut EXCEPT ![k] = NoValue]

TrieClear ==
    /\ root' = EmptyNode
    /\ lastPut' = [k \in TrieKeys |-> NoValue]

TrieNext ==
    \/ \E k \in TrieKeys : TrieDelete(k) \/ \E v \in TrieValues : TriePut(k, v)
    \/ TrieClear

TrieSpec == TrieInit /\ [][TrieNext]_trieVars

-----------------------------------------------------------------------------
(* Properties.                                                             *)

\* For keys of one length, after any sequence of calls, Get never answers the
\* value of another key, a value that was replaced or one that was deleted:
\* when it answers a value, it is the last one put under that key.  It may
\* answer the empty value, which insertToExtension puts in for a node that is
\* no leaf, and it may find nothing.
AnswersOwn == \A k \in TrieKeys : TrieGet(k) \subseteq {NoValue, lastPut[k]}

=============================================================================

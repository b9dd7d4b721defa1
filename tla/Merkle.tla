------------------------------- MODULE Merkle -------------------------------
(***************************************************************************)
(* pkg/crypto/hash.go: the root of a Merkle tree, the proof of a leaf and  *)
(* its verification.  Two pairs with one hash are left out, but nothing    *)
(* keeps the hash of a pair from being a leaf: the code hashes both alike. *)
(***************************************************************************)
EXTENDS Integers, FiniteSets, SequencesExt

CONSTANTS
    LeafHashes,   \* the hashes of the leaves, and with a pair's hash those of the pair
    NoHash,       \* the empty slice
    MaxLeaves     \* bound on the number of leaves

ASSUME MerkleAssumption == MaxLeaves \in Nat \ {0} /\ NoHash \notin LeafHashes

VARIABLE leaves

merkleVars == <<leaves>>

MerkleInit == leaves = <<>>

\* The list under study grows: every list up to the bound is reached.
MerkleNext == Len(leaves) < MaxLeaves /\ \E h \in LeafHashes : leaves' = Append(leaves, h)

MerkleSpec == MerkleInit /\ [][MerkleNext]_merkleVars

HashOf(a, b) == <<a, b>>

\* An odd level repeats its last hash.
Evened(level) == IF Len(level) % 2 = 1 THEN Append(level, Last(level)) ELSE level

Parents(level) ==
    [i \in 1 .. Len(Evened(level)) \div 2 |-> HashOf(Evened(level)[2 * i - 1], Evened(level)[2 * i])]

RECURSIVE MerkleRoot(_)
MerkleRoot(level) ==
    CASE Len(level) = 0 -> NoHash
      [] Len(level) = 1 -> level[1]
      [] OTHER -> MerkleRoot(Parents(level))

\* Positions count from 0: index ^ 1 is the neighbour.
Sibling(index) == IF index % 2 = 0 THEN index + 1 ELSE index - 1

RECURSIVE HashTreeProof(_, _)
HashTreeProof(level, index) ==
    IF Len(level) = 1 THEN <<>>
    ELSE <<Evened(level)[Sibling(index) + 1]>> \o HashTreeProof(Parents(level), index \div 2)

\* Mutant: the neighbour always stands right.
ClimbRight(state, sibling) ==
    [hash |-> HashOf(state.hash, sibling), index |-> state.index \div 2]

\* An empty neighbour is skipped, without a step up.
Climb(state, sibling) ==
    IF sibling = NoHash THEN state
    ELSE [hash |-> IF state.index % 2 = 0 THEN HashOf(state.hash, sibling) ELSE HashOf(sibling, state.hash),
          index |-> state.index \div 2]

VerifyMerkleProof(leaf, proof, root, index) ==
    FoldLeft(Climb, [hash |-> leaf, index |-> index], proof).hash = root

-----------------------------------------------------------------------------

\* The proof made for a leaf verifies against the root, for every list of
\* leaves and every position, the last of an odd level included; and whatever
\* position of the list it is offered for, it verifies with no hash but the
\* leaf that stands there (hash.go:97-127, 209-265, hash_test.go:242-261).
ProofsVerify ==
    LET root == MerkleRoot(leaves)
    IN  \A i \in 0 .. Len(leaves) - 1 :
            LET proof == HashTreeProof(leaves, i)
            IN  /\ VerifyMerkleProof(leaves[i + 1], proof, root, i)
                /\ \A j \in 0 .. Len(leaves) - 1, leaf \in LeafHashes :
                    VerifyMerkleProof(leaf, proof, root, j) => leaf = leaves[j + 1]

\* All lists within the bound, with their roots.
Roots == {[list |-> list, root |-> MerkleRoot(list)] : list \in SeqOf(LeafHashes, MaxLeaves)}

\* The longer list is the shorter one and then what the completion of an odd
\* level repeats: its last d leaves, d a power of two of which the shorter one
\* has an odd number.
RepeatsEnd(short, long) ==
    \E d \in {1, 2, 4} :
        /\ short = SubSeq(long, 1, Len(short))
        /\ Len(short) % d = 0 /\ (Len(short) \div d) % 2 = 1
        /\ \A i \in Len(short) + 1 .. Len(long) : long[i] = long[i - d]

IsPair(h) == \E a, b \in LeafHashes : h = HashOf(a, b)

\* Two lists with one root are the same list, or the longer one ends with the
\* repetition that completes an odd level of the shorter (hash.go:112-114), or
\* every leaf of the shorter is the hash of a pair (hash.go:117-121).  So lists
\* of one length, and lists of different leaves none of which is the hash of a
\* pair, are told apart by their root.
RootsTellApart ==
    LET root == MerkleRoot(leaves)
    IN  \A other \in {r.list : r \in {q \in Roots : q.root = root}} :
            Len(other) <= Len(leaves)
            => \/ other = leaves
               \/ /\ Len(other) < Len(leaves)
                  /\ RepeatsEnd(other, leaves) \/ \A i \in DOMAIN other : IsPair(other[i])

\* A root commits to its leaves: through the proofs, and as a whole.
RootsCommit == ProofsVerify /\ RootsTellApart

=============================================================================

------------------------------ MODULE Kademlia ------------------------------
(***************************************************************************)
(* pkg/p2p/discovery.go: the k-buckets of the DHT and the search for the   *)
(* nodes closest to a key.  A key is two bytes of two bits each.           *)
(***************************************************************************)
EXTENDS Sorting

CONSTANTS
    DHTNodes,       \* the nodes: [key, ip]; the port is part of the ip
    Self,           \* this node
    K,              \* the size of a bucket, 20 in the code
    Targets,        \* the keys searched for
    BootstrapLists  \* the lists given to Bootstrap

DHTKeys == [1 .. 2 -> 0 .. 3]

ASSUME KademliaAssumption ==
    /\ K \in Nat \ {0} /\ Self \in DHTNodes
    /\ \A n \in DHTNodes : n = [key |-> n.key, ip |-> n.ip] /\ n.key \in DHTKeys
    /\ Targets \subseteq DHTKeys
    /\ BootstrapLists \subseteq Seq(DHTNodes)

VARIABLES buckets, routing

dhtVars == <<buckets, routing>>

Xor(a, b) == 2 * (((a \div 2) + (b \div 2)) % 2) + ((a + b) % 2)

xorDistance(a, b) == [i \in DOMAIN a |-> Xor(a[i], b[i])]

\* The bucket is that of the first byte that differs, not of the first bit; a
\* node with this node's own key goes to bucket 0.
calculateBucketIndex(key) ==
    LET differs == {i \in DOMAIN key : xorDistance(Self.key, key)[i] # 0}
    IN  IF differs = {} THEN 0 ELSE 127 - (Min(differs) - 1)

BucketIndexes == {calculateBucketIndex(n.key) : n \in DHTNodes}

DHTInit ==
    /\ buckets = [i \in BucketIndexes |-> <<>>]
    /\ routing = <<>>

Known(bs, n) == Contains(bs[calculateBucketIndex(n.key)], n)

HasRoom(bs, n) == Len(bs[calculateBucketIndex(n.key)]) < K

Stored(bs, n) == [bs EXCEPT ![calculateBucketIndex(n.key)] = Append(@, n)]

Recorded(r, n) == [key \in DOMAIN r \cup {n.key} |-> IF key = n.key THEN n ELSE r[key]]

\* A full bucket refuses the node, the routing map takes it all the same.
AddNode(n) ==
    /\ n # Self
    /\ ~ Known(buckets, n)
    /\ buckets' = IF HasRoom(buckets, n) THEN Stored(buckets, n) ELSE buckets
    /\ routing' = Recorded(routing, n)

\* Mutant: a node that is there is stored again.
BootstrapsAgain(bs, n) == n # Self /\ HasRoom(bs, n)

Bootstraps(bs, n) == n # Self /\ HasRoom(bs, n) /\ ~ Known(bs, n)

\* Bootstrap stores what fits, and remembers only that.
BootstrapOne(known, n) ==
    IF Bootstraps(known.buckets, n)
    THEN [buckets |-> Stored(known.buckets, n), routing |-> Recorded(known.routing, n)]
    ELSE known

Bootstrapped(list) == FoldLeft(BootstrapOne, [buckets |-> buckets, routing |-> routing], list)

Bootstrap(list) ==
    LET known == Bootstrapped(list)
    IN  buckets' = known.buckets /\ routing' = known.routing

FirstWith(nodes, key) == Min({j \in DOMAIN nodes : nodes[j].key = key})

\* The first node with the key goes, whatever its address.
RemoveNode(key) ==
    LET i == calculateBucketIndex(key)
    IN  /\ \E n \in ToSet(buckets[i]) : n.key = key
        /\ buckets' = [buckets EXCEPT ![i] = RemoveAt(buckets[i], FirstWith(buckets[i], key))]
        /\ routing' = Restrict(routing, DOMAIN routing \ {key})

ClearAll ==
    /\ buckets' = [i \in BucketIndexes |-> <<>>]
    /\ routing' = <<>>

DHTNext ==
    \/ \E n \in DHTNodes : AddNode(n) \/ RemoveNode(n.key)
    \/ \E list \in BootstrapLists : Bootstrap(list)
    \/ ClearAll

DHTSpec == DHTInit /\ [][DHTNext]_dhtVars

-----------------------------------------------------------------------------

compareDistance(d1, d2) ==
    LET differs == {i \in DOMAIN d1 : d1[i] # d2[i]}
    IN  IF differs = {} THEN 0 ELSE IF d1[Min(differs)] < d2[Min(differs)] THEN -1 ELSE 1

\* The first of two nodes is closer to the target than the second.
Closer(nodes, target) ==
    {p \in ToSet(nodes) \X ToSet(nodes) :
        compareDistance(xorDistance(target, p[2].key), xorDistance(target, p[1].key)) > 0}

\* Mutant: neighbours are compared once.
sortByDistanceOnce(nodes, target) == ExchangeSortOnePass(nodes, Closer(nodes, target))

sortByDistance(nodes, target) == ExchangeSort(nodes, Closer(nodes, target))

\* The candidates: the nodes of all buckets, one bucket after the other.
AllNodes == FoldLeft(LAMBDA nodes, i : nodes \o buckets[i], <<>>, Ascending(BucketIndexes))

FindNode(target) ==
    LET sorted == sortByDistance(AllNodes, target)
    IN  SubSeq(sorted, 1, Min({K, Len(sorted)}))

-----------------------------------------------------------------------------

DHTTypeOK ==
    /\ \A i \in BucketIndexes : buckets[i] \in Seq(DHTNodes)
    /\ \A key \in DOMAIN routing : routing[key].key = key

\* The buckets hold each known node once, in the bucket of its key, at most K
\* in one, and never this node itself, along both ways a node is stored, which
\* are different code (discovery.go:65-98, 345-378).
BucketsSound ==
    \A i \in BucketIndexes :
        /\ Len(buckets[i]) <= K /\ IsInjective(buckets[i])
        /\ \A n \in ToSet(buckets[i]) : calculateBucketIndex(n.key) = i /\ n # Self

\* FindNode answers with the closest of all known nodes: as many as there are,
\* up to K, in the order of their distance, and no other known node is closer
\* than any of them (discovery.go:101-128, 284-296).
FindsClosest ==
    AllNodes # <<>> => \A target \in Targets :
        LET answer == FindNode(target)
            dist(n) == 4 * Xor(target[1], n.key[1]) + Xor(target[2], n.key[2])
        IN  /\ Len(answer) = Min({K, Len(AllNodes)})
            /\ \A i, j \in DOMAIN answer : i < j => dist(answer[i]) <= dist(answer[j])
            /\ \A n \in ToSet(AllNodes) \ ToSet(answer), i \in DOMAIN answer :
                    dist(answer[i]) <= dist(n)

=============================================================================

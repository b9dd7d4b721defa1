---------------------------- MODULE RoutingTable ----------------------------
(***************************************************************************)
(* pkg/p2p/p2p.go: the routing table: a map of peers and 256 buckets of    *)
(* one peer each, by the first byte of the hash of the ID.                 *)
(***************************************************************************)
EXTENDS Integers, FiniteSets, SequencesExt

CONSTANTS
    TablePeers,   \* peer IDs
    Versions,     \* the objects a caller may have for one ID
    GetBucket,    \* GetBucket[id]: the first byte of its hash
    NoPeer,
    TableMax      \* MaxPeers

ASSUME TableAssumption ==
    /\ TableMax \in Nat
    /\ NoPeer \notin Versions /\ NoPeer \notin [id : TablePeers, version : Versions]

VARIABLES
    table,         \* the peer of an ID, or NoPeer
    tableBuckets

tableVars == <<table, tableBuckets>>

Listed == {id \in TablePeers : table[id] # NoPeer}

TableInit ==
    /\ table = [id \in TablePeers |-> NoPeer]
    /\ tableBuckets = [b \in {GetBucket[id] : id \in TablePeers} |-> NoPeer]

\* Mutant: the limit is not asked for.
TableAddPeerOverfull(id, v) ==
    /\ tableBuckets' = IF id \in Listed THEN tableBuckets
                       ELSE [tableBuckets EXCEPT ![GetBucket[id]] = [id |-> id, version |-> v]]
    /\ table' = [table EXCEPT ![id] = v]

\* A new ID takes its bucket over; the object of a known one is replaced in the
\* map and not in the bucket.  A full table refuses known IDs too.
TableAddPeer(id, v) ==
    /\ Cardinality(Listed) < TableMax
    /\ tableBuckets' = IF id \in Listed THEN tableBuckets
                       ELSE [tableBuckets EXCEPT ![GetBucket[id]] = [id |-> id, version |-> v]]
    /\ table' = [table EXCEPT ![id] = v]

\* Mutant: the bucket keeps the peer.
TableRemovePeerOnly(id) ==
    /\ table' = [table EXCEPT ![id] = NoPeer]
    /\ UNCHANGED tableBuckets

TableRemovePeer(id) ==
    /\ table' = [table EXCEPT ![id] = NoPeer]
    /\ tableBuckets' = [b \in DOMAIN tableBuckets |->
            IF b = GetBucket[id] /\ tableBuckets[b] # NoPeer /\ tableBuckets[b].id = id
            THEN NoPeer ELSE tableBuckets[b]]

TableNext == \E id \in TablePeers : TableRemovePeer(id) \/ \E v \in Versions : TableAddPeer(id, v)

TableSpec == TableInit /\ [][TableNext]_tableVars

TableTypeOK ==
    /\ table \in [TablePeers -> Versions \cup {NoPeer}]
    /\ Cardinality(Listed) <= TableMax

\* A bucket names a peer of the table with that hash (p2p.go:602-638): however
\* peers replace each other in a bucket, one that was removed is not left in it.
BucketsNamePeers ==
    \A b \in DOMAIN tableBuckets : tableBuckets[b] # NoPeer =>
        tableBuckets[b].id \in Listed /\ GetBucket[tableBuckets[b].id] = b

=============================================================================

------------------------------- MODULE MCInfra -------------------------------
(***************************************************************************)
(* The stores, the p2p components and the Merkle trees, in one run.  They  *)
(* share no state in the code, so one of them runs at a time: active says  *)
(* which.                                                                  *)
(***************************************************************************)
EXTENDS Infra, Merkle, Trie, TLC

CONSTANTS ka, kb, kc, f1, f2, i1, i2, g1, g2, g3

\* Two keys of one file, and one of another.
MCFile == (ka :> f1) @@ (kb :> f1) @@ (kc :> f2)

MCEntries == {[key |-> ka, value |-> 1], [key |-> kb, value |-> 1],
              [key |-> kc, value |-> 1], [key |-> kc, value |-> 2]}

MCBatches == {[puts |-> (kc :> 2), dels |-> {ka}], [puts |-> (ka :> 1) @@ (kc :> 1), dels |-> {}]}

DHTNode(key, ip) == [key |-> key, ip |-> ip]

MCSelf == DHTNode(<<0, 0>>, i1)

\* One key with two addresses, three nodes of one bucket, two of others.
MCDHTNodes ==
    {MCSelf, DHTNode(<<0, 0>>, i2), DHTNode(<<0, 1>>, i1), DHTNode(<<0, 1>>, i2),
     DHTNode(<<0, 3>>, i1), DHTNode(<<1, 0>>, i1), DHTNode(<<3, 2>>, i2)}

MCTargets == {0, 1, 3} \X {0, 1, 3}

MCBootstrapLists ==
    {<<DHTNode(<<0, 1>>, i1), DHTNode(<<0, 1>>, i1)>>, <<MCSelf, DHTNode(<<3, 2>>, i2)>>}

\* Two peers of one bucket.
MCGetBucket == (g1 :> 0) @@ (g2 :> 0) @@ (g3 :> 1)

\* Two leaves, and one that is the hash of the pair of them.
MCLeafHashes == {g1, g2, HashOf(g1, g2)}

\* Keys that share three nibbles, one and none.
MCTrieKeys == {<<1, 1, 0, 0>>, <<1, 1, 0, 1>>, <<1, 0, 0, 0>>, <<0, 1, 0, 0>>}

-----------------------------------------------------------------------------

VARIABLE active

storeVars == <<cacheVars, dbVars, iterVars, builderVars, merkleVars, trieVars>>
netVars   == <<gossipVars, peerVars, rateVars, dhtVars, tableVars>>
allVars   == <<active, storeVars, netVars>>

InfraInit ==
    /\ active \in {"cache", "db", "iterator", "builder", "merkle", "trie",
                   "gossip", "peers", "rate", "dht", "table"}
    /\ CacheInit /\ DBInit /\ IterInit /\ BuilderInit /\ MerkleInit /\ TrieInit
    /\ GossipInit /\ PeerInit /\ RateInit /\ DHTInit /\ TableInit
    \* A part that does not run is in one of its initial states.
    /\ active # "cache" => lruCache.maxSize = DBCacheSize
    /\ active # "iterator" => source = [k \in IterKeys |-> Missing]

StoreStep ==
    \/ /\ active = "cache" /\ CacheNext
       /\ UNCHANGED <<dbVars, iterVars, builderVars, merkleVars, trieVars>>
    \/ /\ active = "db" /\ DBNext
       /\ UNCHANGED <<cacheVars, iterVars, builderVars, merkleVars, trieVars>>
    \/ /\ active = "iterator" /\ IterNext
       /\ UNCHANGED <<cacheVars, dbVars, builderVars, merkleVars, trieVars>>
    \/ /\ active = "builder" /\ BuilderNext
       /\ UNCHANGED <<cacheVars, dbVars, iterVars, merkleVars, trieVars>>
    \/ /\ active = "merkle" /\ MerkleNext
       /\ UNCHANGED <<cacheVars, dbVars, iterVars, builderVars, trieVars>>
    \/ /\ active = "trie" /\ TrieNext
       /\ UNCHANGED <<cacheVars, dbVars, iterVars, builderVars, merkleVars>>

NetStep ==
    \/ /\ active = "gossip" /\ GossipNext
       /\ UNCHANGED <<peerVars, rateVars, dhtVars, tableVars>>
    \/ /\ active = "peers" /\ PeerNext
       /\ UNCHANGED <<gossipVars, rateVars, dhtVars, tableVars>>
    \/ /\ active = "rate" /\ RateNext
       /\ UNCHANGED <<gossipVars, peerVars, dhtVars, tableVars>>
    \/ /\ active = "dht" /\ DHTNext
       /\ UNCHANGED <<gossipVars, peerVars, rateVars, tableVars>>
    \/ /\ active = "table" /\ TableNext
       /\ UNCHANGED <<gossipVars, peerVars, rateVars, dhtVars>>

InfraNext ==
    \/ StoreStep /\ UNCHANGED <<active, netVars>>
    \/ NetStep /\ UNCHANGED <<active, storeVars>>

InfraSpec == InfraInit /\ [][InfraNext]_allVars

=============================================================================

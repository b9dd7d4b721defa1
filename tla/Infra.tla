-------------------------------- MODULE Infra --------------------------------
(***************************************************************************)
(* What is asked of the stores and of the p2p components together.  They   *)
(* share no state in the code; the Merkle trees, which are recursive, are  *)
(* apart.                                                                  *)
(***************************************************************************)
EXTENDS Database, Iterators, BatchBuilder, Gossip, PeerManager, RateLimiter,
        Kademlia, RoutingTable

\* The types of all parts: the stores hold keys and values of theirs, a batch
\* under construction stays below its limit, clocks within their bounds, the
\* tables of peers within their limits.
InfraTypesOK ==
    /\ CacheTypeOK /\ DBTypeOK /\ IterTypeOK /\ BuilderTypeOK
    /\ GossipTypeOK /\ PeerTypeOK /\ RateTypeOK /\ DHTTypeOK /\ TableTypeOK

\* The helpers of utils.go and the iterator under them do to the store what
\* their callers asked for.
HelpersSound == SeekFinds /\ TrueHasKey /\ HelpersUndisturbed /\ BuilderAgrees

\* Both tables of peers are sound: k-buckets and what they answer, and the
\* buckets of the routing table.
TablesSound == BucketsSound /\ FindsClosest /\ BucketsNamePeers

=============================================================================

----------------------------- MODULE PeerManager -----------------------------
(***************************************************************************)
(* pkg/p2p/peer.go: the peers a node knows and its connections to them.    *)
(*                                                                         *)
(* Three maps and a counter under one lock.  Peer objects belong to the    *)
(* callers: one that was removed keeps its state and may be added again.   *)
(***************************************************************************)
EXTENDS Integers, FiniteSets, SequencesExt

CONSTANTS
    PeerIDs,
    Conns,         \* the connections a caller opens, each for one peer
    maxPeers,
    MaxAge,        \* the age above which ClearStalePeers drops a peer
    PeerMaxTime    \* bound on the clock

ASSUME PeerAssumption == maxPeers \in Nat /\ MaxAge \in Nat /\ PeerMaxTime \in Nat

VARIABLES
    objects,          \* the peer objects: [state, lastSeen]
    peers,            \* the IDs of pm.peers
    connectedPeers,
    peerConnections,
    peerCount,
    peerNow,
    opened,           \* connections that are open
    replaced,         \* history: connections MarkPeerConnected wrote over
    readded           \* history: peers whose old object was added again

peerVars == <<objects, peers, connectedPeers, peerConnections, peerCount, peerNow, opened, replaced, readded>>

NewPeer == [state |-> "new", lastSeen |-> peerNow]

PeerInit ==
    /\ peerNow = 0
    /\ objects = [id \in PeerIDs |-> [state |-> "new", lastSeen |-> 0]]
    /\ peers = {} /\ connectedPeers = {} /\ peerConnections = <<>>
    /\ peerCount = 0
    /\ opened = {} /\ replaced = {} /\ readded = {}

\* AddPeer of a new object, or of the one the caller still has.
AddPeer(id, again) ==
    /\ Cardinality(peers) < maxPeers
    /\ id \notin peers
    /\ peers' = peers \cup {id}
    /\ peerCount' = peerCount + 1
    /\ objects' = IF again THEN objects ELSE [objects EXCEPT ![id] = NewPeer]
    /\ readded' = IF again THEN readded \cup {id} ELSE readded \ {id}
    /\ UNCHANGED <<connectedPeers, peerConnections, peerNow, opened, replaced>>

Connection(id) == IF id \in DOMAIN peerConnections THEN {peerConnections[id]} ELSE {}

Forgotten(id) == Restrict(peerConnections, DOMAIN peerConnections \ {id})

\* Mutant: the connection is forgotten and stays open.
RemovePeerOpen(id) ==
    /\ id \in peers
    /\ peerConnections' = Forgotten(id)
    /\ connectedPeers' = connectedPeers \ {id}
    /\ peers' = peers \ {id}
    /\ peerCount' = peerCount - 1
    /\ UNCHANGED <<objects, peerNow, opened, replaced, readded>>

\* The object keeps its state.
RemovePeer(id) ==
    /\ id \in peers
    /\ opened' = opened \ Connection(id)
    /\ peerConnections' = Forgotten(id)
    /\ connectedPeers' = connectedPeers \ {id}
    /\ peers' = peers \ {id}
    /\ peerCount' = peerCount - 1
    /\ UNCHANGED <<objects, peerNow, replaced, readded>>

\* A connection is recorded for any ID, known or not, over an older one.
MarkPeerConnected(id, conn) ==
    /\ conn \notin opened \cup replaced
    /\ opened' = opened \cup {conn}
    /\ replaced' = replaced \cup Connection(id)
    /\ connectedPeers' = connectedPeers \cup {id}
    /\ peerConnections' = [other \in DOMAIN peerConnections \cup {id} |->
                              IF other = id THEN conn ELSE peerConnections[other]]
    /\ objects' = IF id \in peers THEN [objects EXCEPT ![id] = [state |-> "connected", lastSeen |-> peerNow]]
                                  ELSE objects
    /\ UNCHANGED <<peers, peerCount, peerNow, readded>>

\* Mutant: a peer that is not known stays marked.
MarkPeerDisconnectedKnown(id) ==
    /\ connectedPeers' = IF id \in peers THEN connectedPeers \ {id} ELSE connectedPeers
    /\ opened' = opened \ Connection(id)
    /\ peerConnections' = Forgotten(id)
    /\ objects' = IF id \in peers THEN [objects EXCEPT ![id].state = "offline"] ELSE objects
    /\ UNCHANGED <<peers, peerCount, peerNow, replaced, readded>>

MarkPeerDisconnected(id) ==
    /\ connectedPeers' = connectedPeers \ {id}
    /\ opened' = opened \ Connection(id)
    /\ peerConnections' = Forgotten(id)
    /\ objects' = IF id \in peers THEN [objects EXCEPT ![id].state = "offline"] ELSE objects
    /\ UNCHANGED <<peers, peerCount, peerNow, replaced, readded>>

UpdatePeerLastSeen(id) ==
    /\ id \in peers
    /\ objects' = [objects EXCEPT ![id].lastSeen = peerNow]
    /\ UNCHANGED <<peers, connectedPeers, peerConnections, peerCount, peerNow, opened, replaced, readded>>

\* Old peers without a connection go.
ClearStalePeers ==
    LET stale == {id \in peers \ connectedPeers : peerNow - objects[id].lastSeen > MaxAge}
    IN  /\ stale # {}
        /\ peers' = peers \ stale
        /\ peerCount' = peerCount - Cardinality(stale)
        /\ UNCHANGED <<objects, connectedPeers, peerConnections, peerNow, opened, replaced, readded>>

PeerTick ==
    /\ peerNow < PeerMaxTime
    /\ peerNow' = peerNow + 1
    /\ UNCHANGED <<objects, peers, connectedPeers, peerConnections, peerCount, opened, replaced, readded>>

PeerNext ==
    \/ \E id \in PeerIDs :
        \/ \E again \in BOOLEAN : AddPeer(id, again)
        \/ RemovePeer(id) \/ MarkPeerDisconnected(id) \/ UpdatePeerLastSeen(id)
        \/ \E conn \in Conns : MarkPeerConnected(id, conn)
    \/ ClearStalePeers \/ PeerTick

PeerSpec == PeerInit /\ [][PeerNext]_peerVars

-----------------------------------------------------------------------------

PeerTypeOK ==
    /\ objects \in [PeerIDs -> [state : {"new", "connected", "offline"}, lastSeen : 0 .. PeerMaxTime]]
    /\ peers \subseteq PeerIDs /\ connectedPeers \subseteq PeerIDs
    /\ Range(peerConnections) \subseteq Conns

\* The three maps and the counter agree (peer.go:31-71, 109-144, 232-252): the
\* counter counts the peers and stays within the limit, a peer is marked
\* connected where it has a connection, and one whose state is "connected" has
\* one, unless the object of a removed peer was added again.
PeersConsistent ==
    /\ peerCount = Cardinality(peers) /\ peerCount <= maxPeers
    /\ connectedPeers = DOMAIN peerConnections
    /\ \A id \in peers \ readded : objects[id].state = "connected" => id \in connectedPeers

\* Every open connection is the recorded one of some peer, so that it can be
\* closed (peer.go:61, 132), unless MarkPeerConnected wrote another over it,
\* which closes nothing (peer.go:114); and a recorded one is open.
ConnectionsOwned ==
    /\ opened \ replaced \subseteq Range(peerConnections)
    /\ Range(peerConnections) \subseteq opened

\* Peers and connections together: nothing is counted, marked or left open
\* that the manager does not know.
PeersSound == PeersConsistent /\ ConnectionsOwned

=============================================================================

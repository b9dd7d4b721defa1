--------------------------- MODULE NetworkProofs ----------------------------
(***************************************************************************)
(* Proofs about the parts of the p2p package, which share no state:        *)
(*   PeersSoundCorrect     the maps, the counter and the connections of    *)
(*                         the peer manager agree, for any peers;          *)
(*   RateBoundedCorrect    the bound of the rate limiter, for any number   *)
(*                         of callers;                                     *)
(*   DeliveriesBoundedCorrect  how often the message processor handles a   *)
(*                         message, for any workers and messages;          *)
(*   TablesSoundCorrect    the k-buckets, the search in them and the       *)
(*                         routing table, for any nodes and peers;         *)
(*   InfraTypesOKCorrect   the types of these parts and of the stores.     *)
(***************************************************************************)
EXTENDS StorageProofs

-----------------------------------------------------------------------------
(* The rate limiter.                                                       *)

\* The positions of the times behind start.
Behind(ms, start) == {i \in DOMAIN ms : ms[i] > start}

LEMMA BehindFinite ==
  ASSUME NEW ms \in Seq(Nat), NEW start \in Int
  PROVE  IsFiniteSet(Behind(ms, start)) /\ Cardinality(Behind(ms, start)) \in Nat
<1>1. Len(ms) \in Nat /\ DOMAIN ms = 1 .. Len(ms) /\ 1 \in Int /\ Len(ms) \in Int
  OBVIOUS
<1>2. IsFiniteSet(1 .. Len(ms))
  BY <1>1, FS_Interval
<1>3. Behind(ms, start) \in SUBSET (1 .. Len(ms))
  BY <1>1 DEF Behind
<1> QED BY <1>2, <1>3, FS_Subset, FS_CardinalityType

\* The loop of Allow keeps the times behind the start of the window.
LEMMA InWindowIs ==
  ASSUME messages \in Seq(Nat), rateNow \in Nat
  PROVE  /\ InWindow \in Seq(Nat)
         /\ Len(InWindow) = Cardinality(Behind(messages, rateNow - Window))
         /\ \A j \in DOMAIN InWindow : InWindow[j] > rateNow - Window
         /\ \A j \in DOMAIN InWindow : \E i \in DOMAIN messages : InWindow[j] = messages[i]
<1> DEFINE start == rateNow - Window
           W == {t \in Nat : t > start}
           q == SelectIn(messages, W)
           Eq(f) == f = [t \in SUBSET DOMAIN messages |-> IF t = {} THEN <<>> ELSE
              IF messages[Max(t)] > start THEN Append(f[t \ {Max(t)}], messages[Max(t)])
              ELSE f[t \ {Max(t)}]]
           EqIn(f) == f = [t \in SUBSET DOMAIN messages |-> IF t = {} THEN <<>> ELSE
              IF messages[Max(t)] \in W THEN Append(f[t \ {Max(t)}], messages[Max(t)])
              ELSE f[t \ {Max(t)}]]
<1>1. /\ Len(messages) \in Nat /\ DOMAIN messages = 1 .. Len(messages)
      /\ \A i \in DOMAIN messages : messages[i] \in Nat
  OBVIOUS
<1>2. InWindow = q
  <2>1. InWindow = (CHOOSE f : Eq(f))[DOMAIN messages]
    BY DEF InWindow, FoldLeft, MapThenFoldSet
  <2>2. \A t \in SUBSET DOMAIN messages : t # {} => messages[Max(t)] \in Nat
    <3> SUFFICES ASSUME NEW t \in SUBSET DOMAIN messages, t # {} PROVE messages[Max(t)] \in Nat
      OBVIOUS
    <3>1. t \in SUBSET (0 .. Len(messages))
      BY <1>1
    <3> QED BY <1>1, <3>1, MaxBounded
  <2>3. ASSUME NEW f PROVE Eq(f) <=> EqIn(f)
    BY <2>2
  <2> HIDE DEF Eq, EqIn
  <2>4. (CHOOSE f : Eq(f)) = (CHOOSE f : EqIn(f))
    BY <2>3
  <2>5. q = (CHOOSE f : EqIn(f))[DOMAIN messages]
    BY SelectInDef DEF SelectFcn, EqIn
  <2> QED BY <2>1, <2>4, <2>5
<1>3. messages \in Seq(Nat)
  OBVIOUS
<1> HIDE DEF W, q
<1>4. q \in Seq(Nat) /\ \E h : Selects(q, messages, Len(messages), W, h)
  BY <1>3, SelectIndex DEF q
<1>5. PICK h : Selects(q, messages, Len(messages), W, h)
  BY <1>4
<1> USE DEF Selects
<1>6. Behind(messages, start) = {h[j] : j \in 1 .. Len(q)}
  BY <1>1, <1>5 DEF Behind, W
<1>7. Len(q) = Cardinality(Behind(messages, start))
  <2>1. Len(q) \in Nat
    BY <1>4
  <2>2. h \in Bijection(1 .. Len(q), Behind(messages, start))
    <3>1. h \in [1 .. Len(q) -> Behind(messages, start)]
      BY <1>5, <1>6
    <3>2. \A i \in Behind(messages, start) : \E j \in 1 .. Len(q) : h[j] = i
      BY <1>6
    <3> QED BY <1>5, <3>1, <3>2 DEF Bijection, Injection, Surjection, IsInjective
  <2>3. ExistsBijection(1 .. Len(q), Behind(messages, start))
    BY <2>2 DEF ExistsBijection
  <2> QED BY <2>1, <2>3, FS_CountingElements
<1>8. /\ \A j \in DOMAIN q : q[j] > start
      /\ \A j \in DOMAIN q : \E i \in DOMAIN messages : q[j] = messages[i]
  <2>1. DOMAIN q = 1 .. Len(q)
    BY <1>4
  <2>2. \A j \in 1 .. Len(q) : h[j] \in {i \in 1 .. Len(messages) : messages[i] \in W}
    BY <1>5
  <2>3. \A j \in DOMAIN q : q[j] > start
    BY <1>5, <2>1, <2>2 DEF W
  <2>4. \A j \in DOMAIN q : q[j] = messages[h[j]] /\ h[j] \in DOMAIN messages
    BY <1>1, <1>5, <2>1, <2>2
  <2> QED BY <2>3, <2>4
<1> QED BY <1>2, <1>4, <1>7, <1>8

RateInv ==
    /\ messages \in Seq(Nat) /\ rateNow \in Nat
    /\ allowed \in SUBSET RateCallers
    /\ Cardinality(Behind(messages, rateNow - Window)) + Cardinality(allowed)
          <= maxMessages + Cardinality(RateCallers) - 1

LEMMA RateInitOK == RateInit => RateInv
<1> SUFFICES ASSUME RateInit PROVE RateInv
  OBVIOUS
<1>1. messages = <<>> /\ allowed = {} /\ rateNow = 0
  BY DEF RateInit
<1>2. Behind(messages, rateNow - Window) = {}
  BY <1>1 DEF Behind
<1>3. Cardinality({}) = 0 /\ Cardinality(RateCallers) \in Nat
  BY FS_EmptySet, FS_CardinalityType, RateAssumption
<1>4. 0 + 0 <= maxMessages + Cardinality(RateCallers) - 1
  BY <1>3, RateAssumption
<1>5. messages \in Seq(Nat) /\ rateNow \in Nat /\ allowed \in SUBSET RateCallers
  BY <1>1
<1> QED BY <1>1, <1>2, <1>3, <1>4, <1>5 DEF RateInv

LEMMA RateNextOK == RateInv /\ [RateNext]_rateVars => RateInv'
<1> SUFFICES ASSUME RateInv, [RateNext]_rateVars PROVE RateInv'
  OBVIOUS
<1> DEFINE before == Behind(messages, rateNow - Window)
           after == Behind(messages', rateNow' - Window)
           bound == maxMessages + Cardinality(RateCallers) - 1
<1>1. /\ messages \in Seq(Nat) /\ rateNow \in Nat /\ allowed \in SUBSET RateCallers
      /\ Window \in Nat /\ maxMessages \in Nat
  BY RateAssumption DEF RateInv
<1>2. /\ IsFiniteSet(RateCallers) /\ Cardinality(RateCallers) \in Nat
      /\ IsFiniteSet(allowed) /\ Cardinality(allowed) \in Nat
      /\ IsFiniteSet(before) /\ Cardinality(before) \in Nat
  <2>1. IsFiniteSet(RateCallers)
    BY RateAssumption
  <2>2. IsFiniteSet(allowed)
    BY <1>1, <2>1, FS_Subset
  <2>3. rateNow - Window \in Int
    BY <1>1
  <2> QED BY <1>1, <2>1, <2>2, <2>3, FS_CardinalityType, BehindFinite
<1>3. Cardinality(before) + Cardinality(allowed) <= bound
  BY DEF RateInv
<1>4. ASSUME NEW c \in RateCallers, Allow(c) PROVE RateInv'
  <2>1. /\ messages' = InWindow /\ rateNow' = rateNow /\ c \notin allowed
        /\ allowed' = IF Len(InWindow) < maxMessages THEN allowed \cup {c} ELSE allowed
    BY <1>4 DEF Allow, UnderLimit
  <2>2. /\ messages' \in Seq(Nat) /\ Len(messages') = Cardinality(before)
        /\ \A j \in DOMAIN messages' : messages'[j] > rateNow - Window
    BY <1>1, <2>1, InWindowIs
  <2>3. after = 1 .. Len(messages')
    BY <2>1, <2>2 DEF Behind
  <2>4. Cardinality(after) = Cardinality(before)
    <3>1. 1 \in Int /\ Cardinality(before) \in Int
      BY <1>2
    <3>2. Cardinality(1 .. Cardinality(before)) = IF 1 > Cardinality(before) THEN 0 ELSE Cardinality(before) - 1 + 1
      BY <3>1, FS_Interval
    <3> HIDE DEF before, after
    <3> QED BY <1>2, <2>2, <2>3, <3>2
  <2>5. allowed' \in SUBSET RateCallers
    BY <1>1, <2>1
  <2>6. Cardinality(after) + Cardinality(allowed') <= bound
    <3>1. CASE Len(InWindow) < maxMessages
      <4>1. Cardinality(allowed') <= Cardinality(RateCallers) /\ Cardinality(allowed') \in Nat
        BY <1>2, <2>5, FS_Subset, FS_CardinalityType
      <4>2. Cardinality(before) < maxMessages
        BY <2>1, <2>2, <3>1
      <4> HIDE DEF before, after
      <4> QED BY <1>1, <1>2, <2>4, <4>1, <4>2
    <3>2. CASE ~ (Len(InWindow) < maxMessages)
      BY <1>3, <2>1, <2>4, <3>2
    <3> QED BY <3>1, <3>2
  <2> QED BY <1>1, <2>1, <2>2, <2>5, <2>6 DEF RateInv
<1>5. ASSUME NEW c \in RateCallers, Record(c) PROVE RateInv'
  <2>1. /\ messages' = Append(messages, rateNow) /\ rateNow' = rateNow /\ c \in allowed
        /\ allowed' = allowed \ {c}
    BY <1>5 DEF Record
  <2> DEFINE n == Len(messages)
  <2>2. /\ n \in Nat /\ DOMAIN messages = 1 .. n /\ DOMAIN messages' = 1 .. (n + 1)
        /\ messages' \in Seq(Nat) /\ messages'[n + 1] = rateNow
        /\ \A i \in 1 .. n : messages'[i] = messages[i]
    BY <1>1, <2>1
  <2> HIDE DEF n
  <2>3. after \in SUBSET (before \cup {n + 1})
    <3>1. 1 .. (n + 1) = (1 .. n) \cup {n + 1}
      BY <2>2
    <3> QED BY <2>1, <2>2, <3>1 DEF Behind
  <2>4. Cardinality(after) <= Cardinality(before) + 1 /\ Cardinality(after) \in Nat
    <3> HIDE DEF before, after
    <3>1. IsFiniteSet(before \cup {n + 1}) /\ Cardinality(before \cup {n + 1}) <= Cardinality(before) + 1
          /\ Cardinality(before \cup {n + 1}) \in Nat
      <4> DEFINE p == n + 1
      <4> HIDE DEF p
      <4>1. IsFiniteSet(before \cup {p}) /\ Cardinality(before \cup {p}) =
               IF p \in before THEN Cardinality(before) ELSE Cardinality(before) + 1
        BY <1>2, FS_AddElement
      <4>2. Cardinality(before \cup {p}) \in Nat
        BY <4>1, FS_CardinalityType
      <4> QED BY <1>2, <4>1, <4>2 DEF p
    <3>2. IsFiniteSet(after) /\ Cardinality(after) <= Cardinality(before \cup {n + 1})
      BY <2>3, <3>1, FS_Subset
    <3>3. Cardinality(after) \in Nat
      BY <3>2, FS_CardinalityType
    <3> QED BY <1>2, <3>1, <3>2, <3>3
  <2>5. Cardinality(allowed') = Cardinality(allowed) - 1
    BY <1>2, <2>1, FS_RemoveElement
  <2>6. Cardinality(after) + Cardinality(allowed') <= bound
    <3> HIDE DEF before, after
    <3> QED BY <1>1, <1>2, <1>3, <2>4, <2>5
  <2> QED BY <1>1, <2>1, <2>2, <2>6 DEF RateInv
<1>6. CASE RateTick
  <2>1. messages' = messages /\ allowed' = allowed /\ rateNow' = rateNow + 1
    BY <1>6 DEF RateTick
  <2>2. after \in SUBSET before
    BY <1>1, <2>1 DEF Behind
  <2>3. Cardinality(after) <= Cardinality(before) /\ Cardinality(after) \in Nat
    BY <1>2, <2>2, FS_Subset, FS_CardinalityType
  <2>4. Cardinality(after) + Cardinality(allowed') <= bound
    <3> HIDE DEF before, after
    <3> QED BY <1>1, <1>2, <1>3, <2>1, <2>3
  <2> QED BY <1>1, <2>1, <2>4 DEF RateInv
<1>7. CASE UNCHANGED rateVars
  BY <1>7 DEF RateInv, rateVars
<1> QED BY <1>4, <1>5, <1>6, <1>7 DEF RateNext

\* No window sees more messages than the limit and one for every other caller:
\* Allow looks and Record counts under the lock for itself (p2p.go:739-767).
THEOREM RateBoundedCorrect == RateSpec => []RateBounded
<1>1. RateInv => RateBounded
  BY InWindowIs DEF RateInv, RateBounded
<1> QED BY RateInitOK, RateNextOK, <1>1, PTL DEF RateSpec

-----------------------------------------------------------------------------
(* The peer manager.                                                       *)

PeerRec == [state : {"new", "connected", "offline"}, lastSeen : Nat]

\* PeersSound, and what it needs: no two peers have one connection, so that
\* closing the one of a peer leaves every other recorded connection open.
PeerInv ==
    /\ objects \in [PeerIDs -> PeerRec] /\ peerNow \in Nat
    /\ peers \in SUBSET PeerIDs /\ IsFiniteSet(peers)
    /\ peerCount = Cardinality(peers) /\ peerCount <= maxPeers
    /\ connectedPeers = DOMAIN peerConnections
    /\ \A id \in peers \ readded : objects[id].state = "connected" => id \in connectedPeers
    /\ \A c \in opened \ replaced : \E id \in DOMAIN peerConnections : peerConnections[id] = c
    /\ \A id \in DOMAIN peerConnections : peerConnections[id] \in opened
    /\ \A id, other \in DOMAIN peerConnections : peerConnections[id] = peerConnections[other] => id = other

LEMMA PeerInvSound == PeerInv => PeersSound
  BY DEF PeerInv, PeersSound, PeersConsistent, ConnectionsOwned, Range

LEMMA PeerInitOK == PeerInit => PeerInv
<1> SUFFICES ASSUME PeerInit PROVE PeerInv
  OBVIOUS
<1>1. IsFiniteSet({}) /\ Cardinality({}) = 0
  BY FS_EmptySet
<1>2. DOMAIN peerConnections = {}
  BY DEF PeerInit
<1>3. objects \in [PeerIDs -> PeerRec]
  BY DEF PeerInit, PeerRec
<1> QED BY <1>1, <1>2, <1>3, PeerAssumption DEF PeerInit, PeerInv

LEMMA AddPeerKeeps ==
  ASSUME PeerInv, NEW id \in PeerIDs, NEW old \in BOOLEAN, AddPeer(id, old)
  PROVE  PeerInv'
<1>1. objects' \in [PeerIDs -> PeerRec]
  BY DEF AddPeer, NewPeer, PeerInv, PeerRec
<1>2. IsFiniteSet(peers') /\ peerCount' = Cardinality(peers') /\ peerCount' <= maxPeers
  <2>1. IsFiniteSet(peers \cup {id}) /\ Cardinality(peers \cup {id}) = Cardinality(peers) + 1
    BY FS_AddElement DEF AddPeer, PeerInv
  <2>2. Cardinality(peers) \in Nat
    BY FS_CardinalityType DEF PeerInv
  <2> QED BY <2>1, <2>2, PeerAssumption DEF AddPeer, PeerInv
<1>3. \A other \in peers' \ readded' : objects'[other].state = "connected" => other \in connectedPeers
  <2> SUFFICES ASSUME NEW other \in peers' \ readded', objects'[other].state = "connected"
               PROVE  other \in connectedPeers
    OBVIOUS
  <2>1. other # id
    <3> SUFFICES ASSUME other = id PROVE FALSE
      OBVIOUS
    <3>1. old = FALSE
      BY DEF AddPeer
    <3>2. objects'[id].state = "new"
      BY <3>1 DEF AddPeer, NewPeer, PeerInv
    <3> QED BY <3>2
  <2>2. objects'[other] = objects[other] /\ other \in peers \ readded
    BY <2>1 DEF AddPeer, PeerInv
  <2> QED BY <2>2 DEF PeerInv
<1>4. peers' \in SUBSET PeerIDs
  BY DEF AddPeer, PeerInv
<1> QED BY <1>1, <1>2, <1>3, <1>4 DEF AddPeer, PeerInv

\* Forgetting the connection of a peer and closing it.
LEMMA ForgetKeeps ==
  ASSUME PeerInv, NEW id, peerConnections' = Forgotten(id), opened' = opened \ Connection(id),
         replaced' = replaced
  PROVE  /\ DOMAIN peerConnections' = (DOMAIN peerConnections) \ {id}
         /\ \A c \in opened' \ replaced' : \E i \in DOMAIN peerConnections' : peerConnections'[i] = c
         /\ \A i \in DOMAIN peerConnections' : peerConnections'[i] \in opened'
         /\ \A i, j \in DOMAIN peerConnections' : peerConnections'[i] = peerConnections'[j] => i = j
<1>1. /\ DOMAIN peerConnections' = (DOMAIN peerConnections) \ {id}
      /\ \A i \in DOMAIN peerConnections' : peerConnections'[i] = peerConnections[i]
  BY DEF Forgotten, Restrict
<1>2. \A i \in DOMAIN peerConnections' : peerConnections'[i] \notin Connection(id)
  BY <1>1 DEF PeerInv, Connection
<1>3. ASSUME NEW c \in opened' \ replaced'
      PROVE  \E i \in DOMAIN peerConnections' : peerConnections'[i] = c
  <2>1. PICK i \in DOMAIN peerConnections : peerConnections[i] = c
    BY DEF PeerInv
  <2>2. i # id
    BY <2>1 DEF Connection
  <2> QED BY <1>1, <2>1, <2>2
<1> QED BY <1>1, <1>2, <1>3 DEF PeerInv

LEMMA RemovePeerKeeps ==
  ASSUME PeerInv, NEW id \in PeerIDs, RemovePeer(id)
  PROVE  PeerInv'
<1>1. IsFiniteSet(peers \ {id}) /\ Cardinality(peers \ {id}) = Cardinality(peers) - 1
  BY FS_RemoveElement DEF RemovePeer, PeerInv
<1>2. Cardinality(peers) \in Nat
  BY FS_CardinalityType DEF PeerInv
<1>3. IsFiniteSet(peers') /\ peerCount' = Cardinality(peers') /\ peerCount' <= maxPeers
  BY <1>1, <1>2, PeerAssumption DEF RemovePeer, PeerInv
<1>4. /\ DOMAIN peerConnections' = (DOMAIN peerConnections) \ {id}
      /\ \A c \in opened' \ replaced' : \E i \in DOMAIN peerConnections' : peerConnections'[i] = c
      /\ \A i \in DOMAIN peerConnections' : peerConnections'[i] \in opened'
      /\ \A i, j \in DOMAIN peerConnections' : peerConnections'[i] = peerConnections'[j] => i = j
  <2>1. peerConnections' = Forgotten(id) /\ opened' = opened \ Connection(id) /\ replaced' = replaced
    BY DEF RemovePeer
  <2> QED BY <2>1, ForgetKeeps
<1> QED BY <1>3, <1>4 DEF RemovePeer, PeerInv

LEMMA MarkPeerDisconnectedKeeps ==
  ASSUME PeerInv, NEW id \in PeerIDs, MarkPeerDisconnected(id)
  PROVE  PeerInv'
<1>1. /\ DOMAIN peerConnections' = (DOMAIN peerConnections) \ {id}
      /\ \A c \in opened' \ replaced' : \E i \in DOMAIN peerConnections' : peerConnections'[i] = c
      /\ \A i \in DOMAIN peerConnections' : peerConnections'[i] \in opened'
      /\ \A i, j \in DOMAIN peerConnections' : peerConnections'[i] = peerConnections'[j] => i = j
  <2>1. peerConnections' = Forgotten(id) /\ opened' = opened \ Connection(id) /\ replaced' = replaced
    BY DEF MarkPeerDisconnected
  <2> QED BY <2>1, ForgetKeeps
<1>2. objects' \in [PeerIDs -> PeerRec]
  BY DEF MarkPeerDisconnected, PeerInv, PeerRec
<1>3. \A other \in peers' \ readded' : objects'[other].state = "connected" => other \in connectedPeers'
  <2>1. \A other \in PeerIDs \ {id} : objects'[other] = objects[other]
    BY DEF MarkPeerDisconnected, PeerInv
  <2>2. id \in peers => objects'[id].state = "offline"
    BY DEF MarkPeerDisconnected, PeerInv, PeerRec
  <2> QED BY <2>1, <2>2 DEF MarkPeerDisconnected, PeerInv
<1> QED BY <1>1, <1>2, <1>3 DEF MarkPeerDisconnected, PeerInv

LEMMA MarkPeerConnectedKeeps ==
  ASSUME PeerInv, NEW id \in PeerIDs, NEW conn \in Conns, MarkPeerConnected(id, conn)
  PROVE  PeerInv'
<1>1. /\ DOMAIN peerConnections' = (DOMAIN peerConnections) \cup {id} /\ peerConnections'[id] = conn
      /\ \A i \in (DOMAIN peerConnections) \ {id} : peerConnections'[i] = peerConnections[i]
  BY DEF MarkPeerConnected
<1>2. conn \notin opened /\ opened' = opened \cup {conn} /\ replaced' = replaced \cup Connection(id)
      /\ connectedPeers' = connectedPeers \cup {id}
  BY DEF MarkPeerConnected
<1>3. ASSUME NEW c \in opened' \ replaced'
      PROVE  \E i \in DOMAIN peerConnections' : peerConnections'[i] = c
  <2>1. CASE c = conn
    BY <1>1, <2>1
  <2>2. CASE c # conn
    <3>1. PICK i \in DOMAIN peerConnections : peerConnections[i] = c
      BY <1>2, <2>2 DEF PeerInv
    <3>2. i # id
      BY <1>2, <3>1 DEF Connection
    <3> QED BY <1>1, <3>1, <3>2
  <2> QED BY <2>1, <2>2
<1>4. \A i \in DOMAIN peerConnections' : peerConnections'[i] \in opened'
  BY <1>1, <1>2 DEF PeerInv
<1>5. \A i, j \in DOMAIN peerConnections' : peerConnections'[i] = peerConnections'[j] => i = j
  BY <1>1, <1>2 DEF PeerInv
<1>6. objects' \in [PeerIDs -> PeerRec]
  BY DEF MarkPeerConnected, PeerInv, PeerRec
<1>7. \A other \in PeerIDs \ {id} : objects'[other] = objects[other]
  BY DEF MarkPeerConnected, PeerInv
<1> QED BY <1>1, <1>2, <1>3, <1>4, <1>5, <1>6, <1>7 DEF MarkPeerConnected, PeerInv

LEMMA ClearStalePeersKeeps == PeerInv /\ ClearStalePeers => PeerInv'
<1> SUFFICES ASSUME PeerInv, ClearStalePeers PROVE PeerInv'
  OBVIOUS
<1> DEFINE stale == {id \in peers \ connectedPeers : peerNow - objects[id].lastSeen > MaxAge}
<1>1. stale \in SUBSET peers /\ peers' = peers \ stale /\ peerCount' = peerCount - Cardinality(stale)
  BY DEF ClearStalePeers
<1> HIDE DEF stale
<1>2. IsFiniteSet(stale) /\ IsFiniteSet(peers \ stale)
  BY <1>1, FS_Subset DEF PeerInv
<1>3. Cardinality(peers) \in Nat /\ Cardinality(stale) \in Nat /\ Cardinality(peers \ stale) \in Nat
  BY <1>2, FS_CardinalityType DEF PeerInv
<1>4. Cardinality(peers \ stale) = Cardinality(peers) - Cardinality(stale)
  <2>1. stale \cap (peers \ stale) = {} /\ stale \cup (peers \ stale) = peers
    BY <1>1
  <2>2. Cardinality(stale \cup (peers \ stale)) = Cardinality(stale) + Cardinality(peers \ stale)
    <3> DEFINE kept == peers \ stale
    <3>1. stale \cap kept = {} /\ IsFiniteSet(kept)
      BY <1>2
    <3> HIDE DEF kept
    <3>2. Cardinality(stale \cup kept) = Cardinality(stale) + Cardinality(kept) - Cardinality(stale \cap kept)
      BY <1>2, <3>1, FS_Union
    <3>3. Cardinality(stale \cap kept) = 0
      BY <3>1, FS_EmptySet
    <3> QED BY <1>3, <3>2, <3>3 DEF kept
  <2>3. Cardinality(stale \cup (peers \ stale)) = Cardinality(peers)
    BY <2>1, Zenon
  <2> DEFINE a == Cardinality(peers)
             b == Cardinality(stale)
             c == Cardinality(peers \ stale)
  <2>4. a \in Nat /\ b \in Nat /\ c \in Nat /\ a = b + c
    BY <1>3, <2>2, <2>3
  <2> HIDE DEF a, b, c
  <2>5. c = a - b
    BY <2>4
  <2> QED BY <2>5 DEF a, b, c
<1>5. peerCount' = Cardinality(peers') /\ peerCount' <= maxPeers /\ IsFiniteSet(peers')
  BY <1>1, <1>2, <1>3, <1>4, PeerAssumption DEF PeerInv
<1> QED BY <1>1, <1>5 DEF ClearStalePeers, PeerInv

LEMMA PeerNextOK == PeerInv /\ [PeerNext]_peerVars => PeerInv'
<1> SUFFICES ASSUME PeerInv, [PeerNext]_peerVars PROVE PeerInv'
  OBVIOUS
<1>1. ASSUME NEW id \in PeerIDs, NEW old \in BOOLEAN, AddPeer(id, old) PROVE PeerInv'
  BY <1>1, AddPeerKeeps
<1>2. ASSUME NEW id \in PeerIDs, RemovePeer(id) PROVE PeerInv'
  BY <1>2, RemovePeerKeeps
<1>3. ASSUME NEW id \in PeerIDs, MarkPeerDisconnected(id) PROVE PeerInv'
  BY <1>3, MarkPeerDisconnectedKeeps
<1>4. ASSUME NEW id \in PeerIDs, UpdatePeerLastSeen(id) PROVE PeerInv'
  <2>1. objects' \in [PeerIDs -> PeerRec]
    BY <1>4 DEF UpdatePeerLastSeen, PeerInv, PeerRec
  <2>2. \A other \in PeerIDs : objects'[other].state = objects[other].state
    BY <1>4 DEF UpdatePeerLastSeen, PeerInv, PeerRec
  <2> QED BY <1>4, <2>1, <2>2 DEF UpdatePeerLastSeen, PeerInv
<1>5. ASSUME NEW id \in PeerIDs, NEW conn \in Conns, MarkPeerConnected(id, conn) PROVE PeerInv'
  BY <1>5, MarkPeerConnectedKeeps
<1>6. CASE PeerTick
  BY <1>6 DEF PeerTick, PeerInv
<1>7. CASE UNCHANGED peerVars
  BY <1>7 DEF peerVars, PeerInv
<1> QED BY <1>1, <1>2, <1>3, <1>4, <1>5, <1>6, <1>7, ClearStalePeersKeeps DEF PeerNext

\* The maps and the counter of the peer manager agree, and every open
\* connection can be closed unless MarkPeerConnected wrote another over it,
\* for any peers, connections and limit (peer.go:31-144, 232-252).
THEOREM PeersSoundCorrect == PeerSpec => []PeersSound
  BY PeerInitOK, PeerNextOK, PeerInvSound, PTL DEF PeerSpec

-----------------------------------------------------------------------------
(* The message processor.                                                  *)

WorkRec == [pc : {"idle", "mark", "size", "clean", "handle"}, id : IDs \cup {Resting.id}]

GossipTypes ==
    /\ network \in SUBSET Packets /\ expired \in SUBSET Packets
    /\ messageSeen \in SUBSET IDs
    /\ working \in [Workers -> WorkRec]
    /\ \A w \in Workers : working[w].pc # "idle" => working[w].id \in IDs
    /\ handled \in [IDs -> Nat] /\ forgotten \in [IDs -> Nat]
    /\ pending \in 0 .. MaxPending

\* The workers between the look into messageSeen and the mark.
Marking(id) == {w \in Workers : working[w].pc = "mark" /\ working[w].id = id}

\* How often a message was let in, h times handled and c times under way, when
\* k of the workers have still to mark it and it was forgotten f times: while
\* it is not seen, those that have still to mark it do not count.
LetIn(h, c, k, f, seen) ==
    /\ seen => h + c <= Cardinality(Workers) * (1 + f)
    /\ ~ seen => (h + c) - k <= Cardinality(Workers) * f

\* The inductive invariant of the message processor.
GossipInv ==
    /\ GossipTypes
    /\ \A id \in IDs : LetIn(handled[id], Cardinality(InProcess(id)), Cardinality(Marking(id)),
                             forgotten[id], id \in messageSeen)

LEMMA RestingIs == Resting \in WorkRec /\ Resting.pc = "idle"
  BY DEF Resting, WorkRec

LEMMA WorkersCount == IsFiniteSet(Workers) /\ Cardinality(Workers) \in Nat
  BY GossipAssumption, FS_CardinalityType

LEMMA WorkersOf ==
  ASSUME NEW S \in SUBSET Workers
  PROVE  IsFiniteSet(S) /\ Cardinality(S) \in Nat /\ Cardinality(S) <= Cardinality(Workers)
<1>1. IsFiniteSet(S) /\ Cardinality(S) <= Cardinality(Workers)
  BY WorkersCount, FS_Subset
<1> QED BY <1>1, FS_CardinalityType

LEMMA Once ==
  ASSUME NEW f \in Nat
  PROVE  /\ Cardinality(Workers) * f \in Nat
         /\ Cardinality(Workers) * (1 + f) = Cardinality(Workers) * f + Cardinality(Workers)
<1> DEFINE n == Cardinality(Workers)
<1>1. n \in Nat
  BY WorkersCount
<1> HIDE DEF n
<1>2. n * f \in Nat /\ n * (1 + f) = n * f + n
  BY <1>1
<1> QED BY <1>2 DEF n

\* Seen or not, a message was not let in more often than the bound says.
LEMMA LetInBounded ==
  ASSUME NEW h \in Nat, NEW c \in Nat, NEW k \in Nat, NEW f \in Nat, NEW seen \in BOOLEAN,
         k <= Cardinality(Workers), LetIn(h, c, k, f, seen)
  PROVE  h + c <= Cardinality(Workers) * (1 + f)
<1>1. CASE seen
  BY <1>1 DEF LetIn
<1>2. CASE ~ seen
  <2> DEFINE n == Cardinality(Workers)
             x == Cardinality(Workers) * f
             y == Cardinality(Workers) * (1 + f)
  <2>1. n \in Nat /\ x \in Nat /\ y = x + n
    BY WorkersCount, Once
  <2>2. (h + c) - k <= x /\ k <= n
    BY <1>2 DEF LetIn
  <2> HIDE DEF n, x, y
  <2>3. h + c <= y
    BY <2>1, <2>2
  <2> QED BY <2>3 DEF y
<1> QED BY <1>1, <1>2

LEMMA InProcessIs ==
  ASSUME NEW id \in IDs
  PROVE  /\ InProcess(id) \in SUBSET Workers /\ Marking(id) \in SUBSET Workers
         /\ IsFiniteSet(InProcess(id)) /\ Cardinality(InProcess(id)) \in Nat
         /\ IsFiniteSet(Marking(id)) /\ Cardinality(Marking(id)) \in Nat
         /\ Cardinality(Marking(id)) <= Cardinality(Workers)
<1>1. InProcess(id) \in SUBSET Workers /\ Marking(id) \in SUBSET Workers
  BY DEF InProcess, Marking
<1> QED BY <1>1, WorkersOf

LEMMA GossipInvBounded == GossipInv => DeliveriesBounded
<1> SUFFICES ASSUME GossipInv, NEW id \in IDs
             PROVE  handled[id] + Cardinality(InProcess(id)) <= Cardinality(Workers) * (1 + forgotten[id])
  BY DEF DeliveriesBounded
<1> DEFINE h == handled[id]
           c == Cardinality(InProcess(id))
           k == Cardinality(Marking(id))
           f == forgotten[id]
           seen == id \in messageSeen
<1>1. h \in Nat /\ f \in Nat /\ seen \in BOOLEAN /\ LetIn(h, c, k, f, seen)
  BY DEF GossipInv, GossipTypes
<1>2. c \in Nat /\ k \in Nat /\ k <= Cardinality(Workers)
  BY InProcessIs
<1> HIDE DEF h, c, k, f, seen
<1>3. h + c <= Cardinality(Workers) * (1 + f)
  BY <1>1, <1>2, LetInBounded
<1> QED BY <1>3 DEF h, c, f

LEMMA GossipInitOK == GossipInit => GossipInv
<1> SUFFICES ASSUME GossipInit PROVE GossipInv
  OBVIOUS
<1>1. \A w \in Workers : working[w].pc = "idle"
  BY RestingIs DEF GossipInit
<1>2. working \in [Workers -> WorkRec]
  BY RestingIs DEF GossipInit
<1>3. GossipTypes
  BY <1>1, <1>2, GossipAssumption DEF GossipInit, GossipTypes
<1>4. ASSUME NEW id \in IDs
      PROVE  LetIn(handled[id], Cardinality(InProcess(id)), Cardinality(Marking(id)), forgotten[id], id \in messageSeen)
  <2>1. InProcess(id) = {} /\ Marking(id) = {}
    BY <1>1 DEF InProcess, Marking
  <2>2. Cardinality(InProcess(id)) = 0 /\ Cardinality(Marking(id)) = 0
    BY <2>1, FS_EmptySet
  <2>3. handled[id] = 0 /\ forgotten[id] = 0 /\ id \notin messageSeen
    BY DEF GossipInit
  <2>4. Cardinality(Workers) * 0 \in Nat
    BY Once
  <2> QED BY <2>2, <2>3, <2>4 DEF LetIn
<1> QED BY <1>3, <1>4 DEF GossipInv

\* Packets and broadcasts change nothing of what the processor did.
LEMMA ProcessorStays ==
  ASSUME GossipInv, network' \in SUBSET Packets, expired' \in SUBSET Packets,
         pending' \in 0 .. MaxPending, UNCHANGED processorVars
  PROVE  GossipInv'
<1>1. UNCHANGED <<messageSeen, working, handled, forgotten>>
  BY DEF processorVars
<1>2. GossipTypes'
  BY <1>1 DEF GossipInv, GossipTypes
<1>3. \A id \in IDs : InProcess(id)' = InProcess(id) /\ Marking(id)' = Marking(id)
  BY <1>1 DEF InProcess, Marking
<1>4. ASSUME NEW id \in IDs
      PROVE  LetIn(handled[id], Cardinality(InProcess(id)), Cardinality(Marking(id)), forgotten[id], id \in messageSeen)'
  <2>1. LetIn(handled[id], Cardinality(InProcess(id)), Cardinality(Marking(id)), forgotten[id], id \in messageSeen)
    BY DEF GossipInv
  <2> QED BY <1>1, <1>3, <2>1 DEF LetIn
<1> QED BY <1>2, <1>4 DEF GossipInv

LEMMA TTLFacts ==
  /\ NewTTL \in Nat /\ MaxHops \in Nat /\ TTLModulus \in Nat /\ TTLModulus > 0 /\ NewTTL < TTLModulus
  BY GossipAssumption

LEMMA HopIs ==
  ASSUME NEW A, NEW B, NEW C, NEW p \in [id : A, ttl : B, hops : C], NEW t, NEW k
  PROVE  [p EXCEPT !.hops = k, !.ttl = t] = [id |-> p.id, ttl |-> t, hops |-> k]
<1> DEFINE z == [id |-> p.id, ttl |-> p.ttl, hops |-> k]
<1>1. [p EXCEPT !.hops = k, !.ttl = t] = [[p EXCEPT !.hops = k] EXCEPT !.ttl = t]
  OBVIOUS
<1>2. [p EXCEPT !.hops = k] = z
  OBVIOUS
<1>3. [z EXCEPT !.ttl = t] = [id |-> p.id, ttl |-> t, hops |-> k]
  OBVIOUS
<1> QED BY <1>1, <1>2, <1>3

LEMMA ForwardKeeps ==
  ASSUME GossipInv, NEW p \in network \cup expired, ForwardMessage(p)
  PROVE  GossipInv'
<1> DEFINE q == [p EXCEPT !.hops = @ + 1, !.ttl = (@ - 1) % TTLModulus]
<1>1. p \in [id : IDs, ttl : 0 .. TTLModulus - 1, hops : 0 .. MaxHops]
  BY DEF GossipInv, GossipTypes, Packets
<1>2. p.id \in IDs /\ p.ttl \in 0 .. TTLModulus - 1 /\ p.hops \in 0 .. MaxHops
  BY <1>1
<1>3. /\ p.hops < MaxHops
      /\ \/ expired' = expired \cup {q} /\ UNCHANGED network
         \/ network' = network \cup {q} /\ UNCHANGED expired
      /\ UNCHANGED <<processorVars, pending>>
  BY DEF ForwardMessage
<1>4. q = [id |-> p.id, ttl |-> (p.ttl - 1) % TTLModulus, hops |-> p.hops + 1]
  <2> DEFINE t == (p.ttl - 1) % TTLModulus
             k == p.hops + 1
  <2>1. q = [p EXCEPT !.hops = k, !.ttl = t]
    OBVIOUS
  <2> HIDE DEF q, t, k
  <2>2. q = [id |-> p.id, ttl |-> t, hops |-> k]
    BY <1>1, <2>1, HopIs
  <2> QED BY <2>2 DEF t, k
<1>5. (p.ttl - 1) % TTLModulus \in 0 .. TTLModulus - 1
  <2>1. p.ttl - 1 \in Int
    BY <1>2, TTLFacts
  <2> QED BY <2>1, TTLFacts, DivMod
<1>6. p.hops + 1 \in 0 .. MaxHops
  BY <1>2, <1>3, TTLFacts
<1>7. q \in Packets
  BY <1>2, <1>4, <1>5, <1>6 DEF Packets
<1> HIDE DEF q
<1>8. network' \in SUBSET Packets /\ expired' \in SUBSET Packets
  BY <1>3, <1>7 DEF GossipInv, GossipTypes
<1>9. pending' \in 0 .. MaxPending /\ UNCHANGED processorVars
  BY <1>3 DEF GossipInv, GossipTypes
<1> QED BY <1>8, <1>9, ProcessorStays

\* A worker at "idle" takes up a message: it is under way, and to be marked.
LEMMA ReceiveKeeps ==
  ASSUME GossipInv, NEW p \in network, NEW w \in Workers, Receive(w, p)
  PROVE  GossipInv'
<1> DEFINE rec == [pc |-> "mark", id |-> p.id]
<1>1. p.id \in IDs
  BY DEF GossipInv, GossipTypes, Packets
<1>2. /\ working[w].pc = "idle" /\ p.id \notin messageSeen
      /\ working' = [working EXCEPT ![w] = rec]
      /\ UNCHANGED <<network, expired, messageSeen, pending, handled, forgotten>>
  BY DEF Receive
<1>3. rec \in WorkRec /\ rec.pc = "mark" /\ rec.id = p.id
  BY <1>1 DEF WorkRec
<1> HIDE DEF rec
<1>4. /\ working' \in [Workers -> WorkRec]
      /\ working'[w] = rec /\ \A x \in Workers \ {w} : working'[x] = working[x]
  BY <1>2, <1>3 DEF GossipInv, GossipTypes
<1>5. GossipTypes'
  BY <1>1, <1>2, <1>3, <1>4 DEF GossipInv, GossipTypes
<1>6. ASSUME NEW id \in IDs
      PROVE  LetIn(handled[id], Cardinality(InProcess(id)), Cardinality(Marking(id)), forgotten[id], id \in messageSeen)'
  <2>0. LetIn(handled[id], Cardinality(InProcess(id)), Cardinality(Marking(id)), forgotten[id], id \in messageSeen)
    BY DEF GossipInv
  <2>1. CASE id = p.id
    <3>1. InProcess(id)' = InProcess(id) \cup {w} /\ Marking(id)' = Marking(id) \cup {w}
      BY <1>3, <1>4, <2>1 DEF InProcess, Marking
    <3>2. w \notin InProcess(id) /\ w \notin Marking(id)
      BY <1>2 DEF InProcess, Marking
    <3>3. Cardinality(InProcess(id) \cup {w}) = Cardinality(InProcess(id)) + 1
      BY <3>2, InProcessIs, FS_AddElement
    <3>4. Cardinality(Marking(id) \cup {w}) = Cardinality(Marking(id)) + 1
      BY <3>2, InProcessIs, FS_AddElement
    <3> DEFINE h == handled[id]
               c == Cardinality(InProcess(id))
               k == Cardinality(Marking(id))
               x == Cardinality(Workers) * forgotten[id]
    <3>5. h \in Nat /\ c \in Nat /\ k \in Nat /\ x \in Nat
      BY InProcessIs, Once DEF GossipInv, GossipTypes
    <3>6. (h + c) - k <= x
      BY <1>2, <2>0, <2>1 DEF LetIn
    <3> HIDE DEF h, c, k, x
    <3>7. (h + (c + 1)) - (k + 1) <= x
      BY <3>5, <3>6
    <3>8. (handled[id] + (Cardinality(InProcess(id)) + 1)) - (Cardinality(Marking(id)) + 1)
            <= Cardinality(Workers) * forgotten[id]
      BY <3>7 DEF h, c, k, x
    <3> QED BY <1>2, <2>1, <3>1, <3>3, <3>4, <3>8 DEF LetIn
  <2>2. CASE id # p.id
    <3>1. InProcess(id)' = InProcess(id) /\ Marking(id)' = Marking(id)
      BY <1>2, <1>3, <1>4, <2>2 DEF InProcess, Marking
    <3> QED BY <1>2, <2>0, <3>1 DEF LetIn
  <2> QED BY <2>1, <2>2
<1> QED BY <1>5, <1>6 DEF GossipInv

\* A worker moves on with its message, past the mark.
LEMMA MoveOn ==
  ASSUME GossipInv, NEW w \in Workers, NEW pc \in {"size", "clean", "handle"}, working[w].pc # "idle",
         working' = [working EXCEPT ![w].pc = pc]
  PROVE  /\ working' \in [Workers -> WorkRec]
         /\ \A x \in Workers : working'[x].pc # "idle" => working'[x].id \in IDs
         /\ \A id \in IDs : InProcess(id)' = InProcess(id) /\ Marking(id)' = Marking(id) \ {w}
<1>1. working \in [Workers -> WorkRec] /\ working[w] \in WorkRec
  BY DEF GossipInv, GossipTypes
<1>2. /\ working' \in [Workers -> WorkRec]
      /\ working'[w].pc = pc /\ working'[w].id = working[w].id
      /\ \A x \in Workers \ {w} : working'[x] = working[x]
  BY <1>1 DEF WorkRec
<1>3. \A x \in Workers : working'[x].pc # "idle" => working'[x].id \in IDs
  BY <1>2 DEF GossipInv, GossipTypes
<1>4. ASSUME NEW id \in IDs PROVE InProcess(id)' = InProcess(id)
  BY <1>2 DEF InProcess
<1>5. ASSUME NEW id \in IDs PROVE Marking(id)' = Marking(id) \ {w}
  BY <1>2 DEF Marking
<1> QED BY <1>2, <1>3, <1>4, <1>5

LEMMA MarkKeeps ==
  ASSUME GossipInv, NEW w \in Workers, Mark(w)
  PROVE  GossipInv'
<1> DEFINE m == working[w].id
<1>1. /\ working[w].pc = "mark" /\ messageSeen' = messageSeen \cup {m}
      /\ working' = [working EXCEPT ![w].pc = "size"]
      /\ UNCHANGED <<network, expired, pending, handled, forgotten>>
  BY DEF Mark
<1>2. m \in IDs
  BY <1>1 DEF GossipInv, GossipTypes
<1>3. /\ working' \in [Workers -> WorkRec]
      /\ \A x \in Workers : working'[x].pc # "idle" => working'[x].id \in IDs
      /\ \A id \in IDs : InProcess(id)' = InProcess(id) /\ Marking(id)' = Marking(id) \ {w}
  BY <1>1, MoveOn
<1>4. \A id \in IDs \ {m} : w \notin Marking(id)
  BY DEF Marking
<1> HIDE DEF m
<1>5. GossipTypes'
  BY <1>1, <1>2, <1>3 DEF GossipInv, GossipTypes
<1>6. ASSUME NEW id \in IDs
      PROVE  LetIn(handled[id], Cardinality(InProcess(id)), Cardinality(Marking(id)), forgotten[id], id \in messageSeen)'
  <2>1. CASE id = m
    <3>1. handled[id] + Cardinality(InProcess(id)) <= Cardinality(Workers) * (1 + forgotten[id])
      BY GossipInvBounded DEF DeliveriesBounded
    <3> QED BY <1>1, <1>3, <2>1, <3>1 DEF LetIn
  <2>2. CASE id # m
    <3>1. Marking(id)' = Marking(id) /\ InProcess(id)' = InProcess(id)
      BY <1>3, <1>4, <2>2
    <3>2. LetIn(handled[id], Cardinality(InProcess(id)), Cardinality(Marking(id)), forgotten[id], id \in messageSeen)
      BY DEF GossipInv
    <3>3. id \in messageSeen' <=> id \in messageSeen
      BY <1>1, <2>2
    <3> QED BY <1>1, <3>1, <3>2, <3>3 DEF LetIn
  <2> QED BY <2>1, <2>2
<1> QED BY <1>5, <1>6 DEF GossipInv

LEMMA SizeKeeps ==
  ASSUME GossipInv, NEW w \in Workers, Size(w)
  PROVE  GossipInv'
<1>1. PICK pc \in {"clean", "handle"} : working' = [working EXCEPT ![w].pc = pc]
  BY DEF Size
<1>2. working[w].pc = "size" /\ UNCHANGED <<network, expired, messageSeen, pending, handled, forgotten>>
  BY DEF Size
<1>3. /\ working' \in [Workers -> WorkRec]
      /\ \A x \in Workers : working'[x].pc # "idle" => working'[x].id \in IDs
      /\ \A id \in IDs : InProcess(id)' = InProcess(id) /\ Marking(id)' = Marking(id) \ {w}
  BY <1>1, <1>2, MoveOn
<1>4. GossipTypes'
  BY <1>2, <1>3 DEF GossipInv, GossipTypes
<1>5. ASSUME NEW id \in IDs
      PROVE  LetIn(handled[id], Cardinality(InProcess(id)), Cardinality(Marking(id)), forgotten[id], id \in messageSeen)'
  <2>1. w \notin Marking(id)
    BY <1>2 DEF Marking
  <2>2. Marking(id)' = Marking(id) /\ InProcess(id)' = InProcess(id)
    BY <1>3, <2>1
  <2>3. LetIn(handled[id], Cardinality(InProcess(id)), Cardinality(Marking(id)), forgotten[id], id \in messageSeen)
    BY DEF GossipInv
  <2> QED BY <1>2, <2>2, <2>3 DEF LetIn
<1> QED BY <1>4, <1>5 DEF GossipInv

\* What is forgotten may be let in again by every worker.
LEMMA CleanKeeps ==
  ASSUME GossipInv, NEW w \in Workers, cleanOldSeenMessages(w)
  PROVE  GossipInv'
<1>1. PICK dropped \in SUBSET IDs :
        /\ dropped \subseteq messageSeen /\ messageSeen' = messageSeen \ dropped
        /\ forgotten' = [id \in IDs |-> forgotten[id] + IF id \in dropped THEN 1 ELSE 0]
  <2>1. messageSeen \in SUBSET IDs
    BY DEF GossipInv, GossipTypes
  <2> QED BY <2>1 DEF cleanOldSeenMessages
<1>2. /\ working[w].pc = "clean" /\ working' = [working EXCEPT ![w].pc = "handle"]
      /\ UNCHANGED <<network, expired, pending, handled>>
  BY DEF cleanOldSeenMessages
<1>3. /\ working' \in [Workers -> WorkRec]
      /\ \A x \in Workers : working'[x].pc # "idle" => working'[x].id \in IDs
      /\ \A id \in IDs : InProcess(id)' = InProcess(id) /\ Marking(id)' = Marking(id) \ {w}
  BY <1>2, MoveOn
<1>4. forgotten \in [IDs -> Nat] /\ forgotten' \in [IDs -> Nat]
  BY <1>1 DEF GossipInv, GossipTypes
<1>5. GossipTypes'
  BY <1>1, <1>2, <1>3, <1>4 DEF GossipInv, GossipTypes
<1>6. ASSUME NEW id \in IDs
      PROVE  LetIn(handled[id], Cardinality(InProcess(id)), Cardinality(Marking(id)), forgotten[id], id \in messageSeen)'
  <2>1. w \notin Marking(id)
    BY <1>2 DEF Marking
  <2>2. Marking(id)' = Marking(id) /\ InProcess(id)' = InProcess(id)
    BY <1>3, <2>1
  <2>3. CASE id \in dropped
    <3>1. id \notin messageSeen' /\ forgotten'[id] = 1 + forgotten[id]
      BY <1>1, <1>4, <2>3
    <3> DEFINE h == handled[id]
               c == Cardinality(InProcess(id))
               k == Cardinality(Marking(id))
               x == Cardinality(Workers) * (1 + forgotten[id])
    <3>2. h \in Nat /\ c \in Nat /\ k \in Nat
      BY InProcessIs DEF GossipInv, GossipTypes
    <3>3. x \in Nat
      <4>1. 1 + forgotten[id] \in Nat
        BY <1>4
      <4> QED BY <4>1, Once
    <3>4. h + c <= x
      BY GossipInvBounded DEF DeliveriesBounded
    <3> HIDE DEF h, c, k, x
    <3>5. (h + c) - k <= x
      BY <3>2, <3>3, <3>4
    <3>6. (handled[id] + Cardinality(InProcess(id))) - Cardinality(Marking(id))
            <= Cardinality(Workers) * (1 + forgotten[id])
      BY <3>5 DEF h, c, k, x
    <3> QED BY <1>2, <2>2, <3>1, <3>6 DEF LetIn
  <2>4. CASE id \notin dropped
    <3>1. (id \in messageSeen' <=> id \in messageSeen) /\ forgotten'[id] = forgotten[id]
      BY <1>1, <1>4, <2>4
    <3>2. LetIn(handled[id], Cardinality(InProcess(id)), Cardinality(Marking(id)), forgotten[id], id \in messageSeen)
      BY DEF GossipInv
    <3> QED BY <1>2, <2>2, <3>1, <3>2 DEF LetIn
  <2> QED BY <2>3, <2>4
<1> QED BY <1>5, <1>6 DEF GossipInv

\* What was under way is handled.
LEMMA HandleKeeps ==
  ASSUME GossipInv, NEW w \in Workers, HandleMessage(w)
  PROVE  GossipInv'
<1> DEFINE m == working[w].id
<1>1. /\ working[w].pc = "handle" /\ handled' = [handled EXCEPT ![m] = handled[m] + 1]
      /\ working' = [working EXCEPT ![w] = Resting]
      /\ UNCHANGED <<network, expired, messageSeen, pending, forgotten>>
  BY DEF HandleMessage
<1>2. m \in IDs
  BY <1>1 DEF GossipInv, GossipTypes
<1>3. working \in [Workers -> WorkRec] /\ handled \in [IDs -> Nat]
  BY DEF GossipInv, GossipTypes
<1>4. /\ working' \in [Workers -> WorkRec] /\ working'[w].pc = "idle"
      /\ \A x \in Workers \ {w} : working'[x] = working[x]
  BY <1>1, <1>3, RestingIs
<1>5. /\ handled' \in [IDs -> Nat] /\ handled'[m] = handled[m] + 1
      /\ \A id \in IDs \ {m} : handled'[id] = handled[id]
  BY <1>1, <1>2, <1>3
<1>6. GossipTypes'
  BY <1>1, <1>4, <1>5 DEF GossipInv, GossipTypes
<1>7. ASSUME NEW id \in IDs
      PROVE  LetIn(handled[id], Cardinality(InProcess(id)), Cardinality(Marking(id)), forgotten[id], id \in messageSeen)'
  <2>0. LetIn(handled[id], Cardinality(InProcess(id)), Cardinality(Marking(id)), forgotten[id], id \in messageSeen)
    BY DEF GossipInv
  <2>1. Marking(id)' = Marking(id)
    BY <1>1, <1>4 DEF Marking
  <2>2. CASE id = m
    <3>1. InProcess(id)' = InProcess(id) \ {w} /\ w \in InProcess(id)
      BY <1>1, <1>4, <2>2 DEF InProcess
    <3>2. Cardinality(InProcess(id) \ {w}) = Cardinality(InProcess(id)) - 1
      BY <3>1, InProcessIs, FS_RemoveElement
    <3>3. (handled[id] + 1) + (Cardinality(InProcess(id)) - 1) = handled[id] + Cardinality(InProcess(id))
      <4>1. handled[id] \in Nat /\ Cardinality(InProcess(id)) \in Nat
        BY <1>3, InProcessIs
      <4> QED BY <4>1
    <3>4. handled'[id] + Cardinality(InProcess(id))' = handled[id] + Cardinality(InProcess(id))
      BY <1>5, <2>2, <3>1, <3>2, <3>3
    <3>5. (id \in messageSeen)' => (handled[id] + Cardinality(InProcess(id)) <= Cardinality(Workers) * (1 + forgotten[id]))'
      BY <1>1, <2>0, <3>4 DEF LetIn
    <3>6. ~ (id \in messageSeen)'
          => ((handled[id] + Cardinality(InProcess(id))) - Cardinality(Marking(id)) <= Cardinality(Workers) * forgotten[id])'
      BY <1>1, <2>0, <2>1, <3>4 DEF LetIn
    <3> QED BY <3>5, <3>6 DEF LetIn
  <2>3. CASE id # m
    <3>1. InProcess(id)' = InProcess(id)
      BY <1>4, <2>3 DEF InProcess
    <3>2. handled'[id] = handled[id]
      BY <1>5, <2>3
    <3> QED BY <1>1, <2>0, <2>1, <3>1, <3>2 DEF LetIn
  <2> QED BY <2>2, <2>3
<1> QED BY <1>6, <1>7 DEF GossipInv

LEMMA GossipNextOK == GossipInv /\ [GossipNext]_gossipVars => GossipInv'
<1> SUFFICES ASSUME GossipInv, [GossipNext]_gossipVars PROVE GossipInv'
  OBVIOUS
<1>0. /\ network \in SUBSET Packets /\ expired \in SUBSET Packets /\ pending \in 0 .. MaxPending
      /\ MaxPending \in Nat
  BY GossipAssumption DEF GossipInv, GossipTypes
<1>1. ASSUME NEW id \in IDs, NewMessage(id) PROVE GossipInv'
  <2>1. [id |-> id, ttl |-> NewTTL, hops |-> 0] \in Packets
    BY TTLFacts DEF Packets
  <2>2. network' \in SUBSET Packets /\ expired' = expired /\ pending' = pending /\ UNCHANGED processorVars
    BY <1>0, <1>1, <2>1 DEF NewMessage
  <2> QED BY <1>0, <2>2, ProcessorStays
<1>2. ASSUME NEW id \in IDs, NEW ttl \in ForeignTTLs, ForeignMessage(id, ttl) PROVE GossipInv'
  <2>1. [id |-> id, ttl |-> ttl, hops |-> 0] \in Packets
    BY GossipAssumption, TTLFacts DEF Packets
  <2>2. network' \in SUBSET Packets /\ expired' = expired /\ pending' = pending /\ UNCHANGED processorVars
    BY <1>0, <1>2, <2>1 DEF ForeignMessage
  <2> QED BY <1>0, <2>2, ProcessorStays
<1>3. ASSUME NEW p \in network \cup expired, ForwardMessage(p) PROVE GossipInv'
  BY <1>3, ForwardKeeps
<1>4. ASSUME NEW w \in Workers, NEW p \in network, Receive(w, p) PROVE GossipInv'
  BY <1>4, ReceiveKeeps
<1>5. ASSUME NEW w \in Workers, Mark(w) \/ Size(w) \/ cleanOldSeenMessages(w) \/ HandleMessage(w)
      PROVE  GossipInv'
  BY <1>5, MarkKeeps, SizeKeeps, CleanKeeps, HandleKeeps
<1>6. CASE AddBroadcast
  <2>1. pending' \in 0 .. MaxPending
    BY <1>0, <1>6 DEF AddBroadcast
  <2>2. network' = network /\ expired' = expired /\ UNCHANGED processorVars
    BY <1>6 DEF AddBroadcast
  <2> QED BY <1>0, <2>1, <2>2, ProcessorStays
<1>7. CASE ProcessBroadcasts
  <2>1. pending' \in 0 .. MaxPending
    BY <1>0, <1>7 DEF ProcessBroadcasts
  <2>2. network' = network /\ expired' = expired /\ UNCHANGED processorVars
    BY <1>7 DEF ProcessBroadcasts
  <2> QED BY <1>0, <2>1, <2>2, ProcessorStays
<1>8. CASE UNCHANGED gossipVars
  <2>1. network' = network /\ expired' = expired /\ pending' = pending /\ UNCHANGED processorVars
    BY <1>8 DEF gossipVars
  <2> QED BY <1>0, <2>1, ProcessorStays
<1> QED BY <1>1, <1>2, <1>3, <1>4, <1>5, <1>6, <1>7, <1>8 DEF GossipNext

\* However the calls of Process overlap and whatever the cleanings forget, a
\* message reaches the handler at most once for every worker and as often
\* again for every time that it was forgotten, for any number of workers,
\* messages, duplicates and delays (message.go:172-213).
THEOREM DeliveriesBoundedCorrect == GossipSpec => []DeliveriesBounded
  BY GossipInitOK, GossipNextOK, GossipInvBounded, PTL DEF GossipSpec

-----------------------------------------------------------------------------
(* The routing table.                                                      *)

\* The inductive invariant of the routing table: a bucket holds a record of a
\* peer, and the peers listed are finitely many, so that they can be counted.
TableInv ==
    /\ table \in [TablePeers -> Versions \cup {NoPeer}]
    /\ tableBuckets \in [{GetBucket[id] : id \in TablePeers} -> [id : TablePeers, version : Versions] \cup {NoPeer}]
    /\ IsFiniteSet(Listed) /\ Cardinality(Listed) <= TableMax
    /\ BucketsNamePeers

LEMMA TableInitOK == TableInit => TableInv
<1> SUFFICES ASSUME TableInit PROVE TableInv
  OBVIOUS
<1>1. Listed = {}
  BY DEF TableInit, Listed
<1>2. IsFiniteSet(Listed) /\ Cardinality(Listed) = 0
  BY <1>1, FS_EmptySet
<1>3. TableMax \in Nat
  BY TableAssumption
<1> QED BY <1>2, <1>3 DEF TableInit, TableInv, BucketsNamePeers

LEMMA TableNextOK == TableInv /\ [TableNext]_tableVars => TableInv'
<1> SUFFICES ASSUME TableInv, [TableNext]_tableVars PROVE TableInv'
  OBVIOUS
<1> DEFINE B == {GetBucket[id] : id \in TablePeers}
           R == [id : TablePeers, version : Versions]
<1>1. /\ table \in [TablePeers -> Versions \cup {NoPeer}] /\ tableBuckets \in [B -> R \cup {NoPeer}]
      /\ IsFiniteSet(Listed) /\ Cardinality(Listed) <= TableMax /\ BucketsNamePeers
  BY DEF TableInv
<1>2. TableMax \in Nat /\ NoPeer \notin Versions /\ NoPeer \notin R
  BY TableAssumption
<1>3. Cardinality(Listed) \in Nat
  BY <1>1, FS_CardinalityType
<1>4. ASSUME NEW id \in TablePeers, TableRemovePeer(id) PROVE TableInv'
  <2>1. table' = [table EXCEPT ![id] = NoPeer]
    BY <1>4 DEF TableRemovePeer
  <2>2. Listed' = Listed \ {id}
    BY <1>1, <2>1 DEF Listed
  <2>3. IsFiniteSet(Listed \ {id}) /\ Cardinality(Listed \ {id}) = IF id \in Listed THEN Cardinality(Listed) - 1 ELSE Cardinality(Listed)
    BY <1>1, FS_RemoveElement
  <2>4. IsFiniteSet(Listed') /\ Cardinality(Listed') <= TableMax
    BY <1>1, <1>2, <1>3, <2>2, <2>3
  <2>5. DOMAIN tableBuckets' = B /\ \A b \in B :
            tableBuckets'[b] = IF b = GetBucket[id] /\ tableBuckets[b] # NoPeer /\ tableBuckets[b].id = id
                               THEN NoPeer ELSE tableBuckets[b]
    BY <1>1, <1>4 DEF TableRemovePeer
  <2>6. tableBuckets' \in [B -> R \cup {NoPeer}]
    BY <1>1, <1>4, <2>5 DEF TableRemovePeer
  <2>7. ASSUME NEW b \in B, tableBuckets'[b] # NoPeer
        PROVE  tableBuckets'[b].id \in Listed \ {id} /\ GetBucket[tableBuckets'[b].id] = b
    <3>1. tableBuckets'[b] = tableBuckets[b] /\ tableBuckets[b] # NoPeer /\ ~ (b = GetBucket[id] /\ tableBuckets[b].id = id)
      BY <2>5, <2>7
    <3>2. tableBuckets[b].id \in Listed /\ GetBucket[tableBuckets[b].id] = b
      BY <1>1, <3>1 DEF BucketsNamePeers
    <3> QED BY <3>1, <3>2
  <2>8. BucketsNamePeers'
    BY <2>2, <2>5, <2>7 DEF BucketsNamePeers
  <2> QED BY <1>1, <2>1, <2>4, <2>6, <2>8 DEF TableInv
<1>5. ASSUME NEW id \in TablePeers, NEW v \in Versions, TableAddPeer(id, v) PROVE TableInv'
  <2> DEFINE rec == [id |-> id, version |-> v]
  <2>1. /\ table' = [table EXCEPT ![id] = v] /\ Cardinality(Listed) < TableMax
        /\ tableBuckets' = IF id \in Listed THEN tableBuckets ELSE [tableBuckets EXCEPT ![GetBucket[id]] = rec]
    BY <1>5 DEF TableAddPeer
  <2>2. Listed' = Listed \cup {id}
    BY <1>1, <1>2, <2>1 DEF Listed
  <2>3. IsFiniteSet(Listed \cup {id}) /\ Cardinality(Listed \cup {id}) = IF id \in Listed THEN Cardinality(Listed) ELSE Cardinality(Listed) + 1
    BY <1>1, FS_AddElement
  <2>4. IsFiniteSet(Listed') /\ Cardinality(Listed') <= TableMax
    BY <1>1, <1>2, <1>3, <2>1, <2>2, <2>3
  <2>5. rec \in R /\ rec.id = id /\ GetBucket[id] \in B
    OBVIOUS
  <2> HIDE DEF rec
  <2>6. tableBuckets' \in [B -> R \cup {NoPeer}]
    BY <1>1, <2>1, <2>5
  <2>7. ASSUME NEW b \in B, tableBuckets'[b] # NoPeer
        PROVE  tableBuckets'[b].id \in Listed \cup {id} /\ GetBucket[tableBuckets'[b].id] = b
    <3>1. CASE tableBuckets'[b] = tableBuckets[b]
      BY <1>1, <2>7, <3>1 DEF BucketsNamePeers
    <3>2. CASE tableBuckets'[b] # tableBuckets[b]
      <4>1. b = GetBucket[id] /\ tableBuckets'[b] = rec
        BY <1>1, <2>1, <3>2
      <4> QED BY <4>1, <2>5
    <3> QED BY <3>1, <3>2
  <2>8. BucketsNamePeers'
    BY <2>2, <2>6, <2>7 DEF BucketsNamePeers
  <2> QED BY <1>1, <2>1, <2>4, <2>6, <2>8 DEF TableInv
<1>6. CASE UNCHANGED tableVars
  BY <1>1, <1>6 DEF tableVars, TableInv, BucketsNamePeers, Listed
<1> QED BY <1>4, <1>5, <1>6 DEF TableNext

LEMMA TableInvSound == TableInv => BucketsNamePeers /\ TableTypeOK
  BY DEF TableInv, TableTypeOK

-----------------------------------------------------------------------------
(* Distances.                                                              *)

LEMMA XorIs ==
  ASSUME NEW a \in 0 .. 3, NEW b \in 0 .. 3
  PROVE  Xor(a, b) \in 0 .. 3
<1> DEFINE x == ((a \div 2) + (b \div 2)) % 2
           y == (a + b) % 2
<1>1. a \div 2 \in Int /\ b \div 2 \in Int
  OBVIOUS
<1>2. x \in 0 .. 1
  <2> DEFINE u == (a \div 2) + (b \div 2)
  <2>1. u \in Int
    BY <1>1
  <2> HIDE DEF u
  <2>2. u % 2 \in 0 .. 1
    BY <2>1
  <2> QED BY <2>2 DEF u
<1>3. y \in 0 .. 1
  OBVIOUS
<1>4. Xor(a, b) = 2 * x + y
  BY DEF Xor
<1> HIDE DEF x, y
<1> QED BY <1>2, <1>3, <1>4

\* The first of the positions that differ.
LEMMA MinOfTwo ==
  ASSUME NEW D \in SUBSET (1 .. 2), D # {}
  PROVE  Min(D) = (IF 1 \in D THEN 1 ELSE 2) /\ Min(D) \in D
<1> DEFINE m == IF 1 \in D THEN 1 ELSE 2
<1>1. m \in D
  <2>1. \A x \in D : x = 1 \/ x = 2
    OBVIOUS
  <2> QED BY <2>1
<1>2. \A x : (x \in D /\ \A y \in D : x <= y) <=> x = m
  <2>1. \A y \in D : m <= y
    OBVIOUS
  <2>2. ASSUME NEW x \in D, \A y \in D : x <= y PROVE x = m
    <3>1. x <= m /\ m <= x /\ x \in 1 .. 2 /\ m \in 1 .. 2
      BY <1>1, <2>1, <2>2
    <3> HIDE DEF m
    <3> QED BY <3>1
  <2> HIDE DEF m
  <2> QED BY <1>1, <2>1, <2>2
<1>3. Min(D) = m
  <2> HIDE DEF m
  <2> QED BY <1>2 DEF Min
<1> QED BY <1>1, <1>3

Magnitude(d) == 4 * d[1] + d[2]

LEMMA DistanceIs ==
  ASSUME NEW a \in DHTKeys, NEW b \in DHTKeys
  PROVE  /\ xorDistance(a, b) \in DHTKeys
         /\ xorDistance(a, b)[1] = Xor(a[1], b[1]) /\ xorDistance(a, b)[2] = Xor(a[2], b[2])
         /\ Magnitude(xorDistance(a, b)) \in Nat
<1> DEFINE d == xorDistance(a, b)
<1>1. DOMAIN a = 1 .. 2 /\ \A i \in 1 .. 2 : a[i] \in 0 .. 3 /\ b[i] \in 0 .. 3
  BY DEF DHTKeys
<1>2. \A i \in 1 .. 2 : Xor(a[i], b[i]) \in 0 .. 3
  BY <1>1, XorIs
<1>3. d = [i \in 1 .. 2 |-> Xor(a[i], b[i])]
  BY <1>1 DEF xorDistance
<1>4. d \in DHTKeys /\ d[1] = Xor(a[1], b[1]) /\ d[2] = Xor(a[2], b[2])
  BY <1>2, <1>3 DEF DHTKeys
<1> HIDE DEF d
<1>5. d[1] \in 0 .. 3 /\ d[2] \in 0 .. 3
  BY <1>4 DEF DHTKeys
<1>6. Magnitude(d) \in Nat
  BY <1>5 DEF Magnitude
<1> QED BY <1>4, <1>6 DEF d

\* The comparison of distances byte by byte is that of the numbers they stand for.
LEMMA CompareIs ==
  ASSUME NEW d \in DHTKeys, NEW e \in DHTKeys
  PROVE  compareDistance(d, e) > 0 <=> Magnitude(d) > Magnitude(e)
<1> DEFINE D == {i \in DOMAIN d : d[i] # e[i]}
           c == compareDistance(d, e)
<1>1. DOMAIN d = 1 .. 2 /\ d[1] \in 0 .. 3 /\ d[2] \in 0 .. 3 /\ e[1] \in 0 .. 3 /\ e[2] \in 0 .. 3
  BY DEF DHTKeys
<1>2. c = IF D = {} THEN 0 ELSE IF d[Min(D)] < e[Min(D)] THEN -1 ELSE 1
  BY DEF compareDistance
<1>3. D \in SUBSET (1 .. 2) /\ (1 \in D <=> d[1] # e[1]) /\ (2 \in D <=> d[2] # e[2])
  BY <1>1
<1> HIDE DEF D, c
<1>4. CASE d[1] # e[1]
  <2>1. D # {} /\ Min(D) = 1
    BY <1>3, <1>4, MinOfTwo
  <2>2. c = IF d[1] < e[1] THEN -1 ELSE 1
    BY <1>2, <2>1
  <2>3. c > 0 <=> Magnitude(d) > Magnitude(e)
    BY <1>1, <1>4, <2>2 DEF Magnitude
  <2> QED BY <2>3 DEF c
<1>5. CASE d[1] = e[1] /\ d[2] # e[2]
  <2>1. D # {} /\ Min(D) = 2
    BY <1>3, <1>5, MinOfTwo
  <2>2. c = IF d[2] < e[2] THEN -1 ELSE 1
    BY <1>2, <2>1
  <2>3. c > 0 <=> Magnitude(d) > Magnitude(e)
    BY <1>1, <1>5, <2>2 DEF Magnitude
  <2> QED BY <2>3 DEF c
<1>6. CASE d[1] = e[1] /\ d[2] = e[2]
  <2>1. D = {}
    <3>1. \A i \in 1 .. 2 : i = 1 \/ i = 2
      OBVIOUS
    <3> QED BY <1>3, <1>6, <3>1
  <2>2. c = 0
    BY <1>2, <2>1
  <2>3. c > 0 <=> Magnitude(d) > Magnitude(e)
    BY <1>1, <1>6, <2>2 DEF Magnitude
  <2> QED BY <2>3 DEF c
<1> QED BY <1>4, <1>5, <1>6

LEMMA DHTConstants ==
  /\ K \in Nat /\ K >= 1 /\ Self \in DHTNodes
  /\ \A n \in DHTNodes : n.key \in DHTKeys
  BY KademliaAssumption

LEMMA BucketIndexIs ==
  ASSUME NEW key \in DHTKeys
  PROVE  calculateBucketIndex(key) \in 0 .. 127
<1> DEFINE D == {i \in DOMAIN key : xorDistance(Self.key, key)[i] # 0}
           b == calculateBucketIndex(key)
<1>1. D \in SUBSET (1 .. 2)
  BY DEF DHTKeys
<1>2. b = IF D = {} THEN 0 ELSE 127 - (Min(D) - 1)
  BY DEF calculateBucketIndex
<1> HIDE DEF D, b
<1>3. CASE D = {}
  <2>1. b \in 0 .. 127
    BY <1>2, <1>3
  <2> QED BY <2>1 DEF b
<1>4. CASE D # {}
  <2>1. Min(D) \in 1 .. 2
    BY <1>1, <1>4, MinOfTwo
  <2>2. b \in 0 .. 127
    BY <1>2, <1>4, <2>1
  <2> QED BY <2>2 DEF b
<1> QED BY <1>3, <1>4

LEMMA BucketIndexesAre ==
  /\ IsFiniteSet(BucketIndexes) /\ BucketIndexes \subseteq Int
  /\ \A n \in DHTNodes : calculateBucketIndex(n.key) \in BucketIndexes
<1>1. BucketIndexes \subseteq 0 .. 127
  BY DHTConstants, BucketIndexIs DEF BucketIndexes
<1>2. IsFiniteSet(0 .. 127)
  <2>1. 0 \in Int /\ 127 \in Int
    OBVIOUS
  <2> QED BY <2>1, FS_Interval
<1>3. IsFiniteSet(BucketIndexes)
  BY <1>1, <1>2, FS_Subset
<1>4. BucketIndexes \subseteq Int
  BY <1>1
<1> QED BY <1>3, <1>4 DEF BucketIndexes

-----------------------------------------------------------------------------
(* The k-buckets.                                                          *)

\* A bucket that is sound, and buckets that all are.
BucketOK(b, i) ==
    /\ b \in Seq(DHTNodes) /\ Len(b) <= K /\ IsInjective(b)
    /\ \A n \in ToSet(b) : calculateBucketIndex(n.key) = i /\ n # Self

BucketsOK(bs) ==
    /\ bs \in [BucketIndexes -> Seq(DHTNodes)]
    /\ \A i \in BucketIndexes : BucketOK(bs[i], i)

\* The maps from keys to nodes with that key.
Routings == {r \in UNION {[D -> DHTNodes] : D \in SUBSET DHTKeys} : \A key \in DOMAIN r : r[key].key = key}

\* The inductive invariant of the DHT.
DHTInv == BucketsOK(buckets) /\ routing \in Routings

LEMMA EmptyBucketOK ==
  ASSUME NEW i
  PROVE  BucketOK(<<>>, i)
<1>1. <<>> \in Seq(DHTNodes) /\ Len(<<>>) = 0 /\ ToSet(<<>>) = {} /\ IsInjective(<<>>)
  BY DEF ToSet, IsInjective
<1> QED BY <1>1, DHTConstants DEF BucketOK

LEMMA NoRouting == <<>> \in Routings
<1>1. <<>> \in [{} -> DHTNodes] /\ DOMAIN <<>> = {}
  OBVIOUS
<1> QED BY <1>1 DEF Routings

LEMMA RecordedIs ==
  ASSUME NEW r \in Routings, NEW n \in DHTNodes
  PROVE  Recorded(r, n) \in Routings
<1> DEFINE D == DOMAIN r \cup {n.key}
           q == Recorded(r, n)
<1>1. DOMAIN r \in SUBSET DHTKeys /\ \A key \in DOMAIN r : r[key] \in DHTNodes /\ r[key].key = key
  BY DEF Routings
<1>2. n.key \in DHTKeys
  BY DHTConstants
<1>3. q = [key \in D |-> IF key = n.key THEN n ELSE r[key]]
  BY DEF Recorded
<1> HIDE DEF q
<1>4. q \in [D -> DHTNodes] /\ D \in SUBSET DHTKeys /\ DOMAIN q = D
  BY <1>1, <1>2, <1>3
<1>5. \A key \in D : q[key].key = key
  BY <1>1, <1>3
<1> HIDE DEF D
<1> QED BY <1>4, <1>5 DEF Routings, q

LEMMA StoredOK ==
  ASSUME NEW bs, BucketsOK(bs), NEW n \in DHTNodes, n # Self, ~ Known(bs, n), HasRoom(bs, n)
  PROVE  BucketsOK(Stored(bs, n))
<1> DEFINE i == calculateBucketIndex(n.key)
           b == bs[i]
           c == Append(b, n)
           cs == Stored(bs, n)
<1>1. i \in BucketIndexes /\ BucketOK(b, i) /\ bs \in [BucketIndexes -> Seq(DHTNodes)]
  BY BucketIndexesAre DEF BucketsOK
<1>2. ~ Contains(b, n) /\ Len(b) < K
  BY DEF Known, HasRoom
<1>3. cs = [bs EXCEPT ![i] = c]
  BY DEF Stored
<1>4. BucketOK(c, i)
  <2>1. b \in Seq(DHTNodes) /\ IsInjective(b) /\ \A x \in ToSet(b) : calculateBucketIndex(x.key) = i /\ x # Self
    BY <1>1 DEF BucketOK
  <2>2. Len(b) \in Nat /\ DOMAIN b = 1 .. Len(b)
    BY <2>1
  <2>3. n \notin ToSet(b)
    BY <1>2, <2>2 DEF Contains, ToSet
  <2>4. calculateBucketIndex(n.key) = i
    OBVIOUS
  <2> HIDE DEF b, i
  <2>5. c \in Seq(DHTNodes) /\ IsInjective(c) /\ ToSet(c) = ToSet(b) \cup {n}
    BY <2>1, <2>3, AppendIs
  <2>6. Len(c) = Len(b) + 1
    BY <2>1
  <2>7. Len(c) <= K
    BY <1>2, <2>2, <2>6, DHTConstants
  <2> QED BY <2>1, <2>4, <2>5, <2>7 DEF BucketOK
<1> HIDE DEF i, b, c
<1>5. c \in Seq(DHTNodes)
  BY <1>4 DEF BucketOK
<1>6. cs \in [BucketIndexes -> Seq(DHTNodes)]
  BY <1>1, <1>3, <1>5
<1>7. \A j \in BucketIndexes : cs[j] = IF j = i THEN c ELSE bs[j]
  BY <1>1, <1>3
<1> HIDE DEF cs
<1>8. BucketsOK(cs)
  BY <1>4, <1>6, <1>7 DEF BucketsOK
<1> QED BY <1>8 DEF cs

\* One place of a sequence removed.
LEMMA RemoveAtIs ==
  ASSUME NEW S, NEW s \in Seq(S), IsInjective(s), NEW p \in 1 .. Len(s)
  PROVE  /\ RemoveAt(s, p) \in Seq(S) /\ IsInjective(RemoveAt(s, p))
         /\ ToSet(RemoveAt(s, p)) \subseteq ToSet(s) /\ Len(RemoveAt(s, p)) = Len(s) - 1
<1> DEFINE r == RemoveAt(s, p)
           n == Len(s)
           a == SubSeq(s, 1, p - 1)
           b == SubSeq(s, p + 1, n)
<1>1. n \in Nat /\ DOMAIN s = 1 .. n /\ \A i \in 1 .. n : s[i] \in S
  OBVIOUS
<1>2. \A i, j \in 1 .. n : s[i] = s[j] => i = j
  BY <1>1 DEF IsInjective
<1>3. r = a \o b
  BY DEF RemoveAt
<1>4. /\ a \in Seq(S) /\ Len(a) = p - 1 /\ \A i \in 1 .. p - 1 : a[i] = s[i]
      /\ b \in Seq(S) /\ Len(b) = n - p /\ \A i \in 1 .. n - p : b[i] = s[i + p]
  <2>1. p \in 1 .. n /\ p \in Nat
    BY <1>1
  <2> HIDE DEF n
  <2>2. a \in Seq(S) /\ Len(a) = p - 1 /\ \A i \in 1 .. p - 1 : a[i] = s[i]
    BY <1>1, <2>1
  <2>3. b \in Seq(S) /\ Len(b) = n - p
    BY <1>1, <2>1
  <2>4. \A i \in 1 .. n - p : b[i] = s[i + p]
    BY <1>1, <2>1
  <2> QED BY <2>2, <2>3, <2>4
<1> HIDE DEF a, b, r
<1>5. r \in Seq(S) /\ Len(r) = Len(a) + Len(b) /\ DOMAIN r = 1 .. Len(a) + Len(b)
  <2>1. a \in Seq(S) /\ b \in Seq(S)
    BY <1>4
  <2>2. a \o b \in Seq(S) /\ Len(a \o b) = Len(a) + Len(b)
    BY <2>1, ConcatProperties
  <2>3. DOMAIN r = 1 .. Len(r)
    BY <1>3, <2>2
  <2> QED BY <1>3, <2>2, <2>3
<1>6. Len(a) + Len(b) = n - 1
  BY <1>1, <1>4
<1>7. \A i \in 1 .. Len(a) + Len(b) : r[i] = IF i <= Len(a) THEN a[i] ELSE b[i - Len(a)]
  BY <1>3, <1>4
<1>8. ASSUME NEW i \in 1 .. n - 1 PROVE r[i] = IF i < p THEN s[i] ELSE s[i + 1]
  <2>1. CASE i < p
    <3>1. i \in 1 .. p - 1 /\ i <= Len(a)
      BY <1>1, <1>4, <2>1
    <3> QED BY <1>4, <1>6, <1>7, <2>1, <3>1
  <2>2. CASE ~ (i < p)
    <3>1. i - Len(a) \in 1 .. n - p /\ ~ (i <= Len(a)) /\ i - Len(a) + p = i + 1
      BY <1>1, <1>4, <2>2
    <3> QED BY <1>4, <1>6, <1>7, <2>2, <3>1
  <2> QED BY <2>1, <2>2
<1>9. DOMAIN r = 1 .. n - 1 /\ Len(r) = n - 1
  BY <1>5, <1>6
<1>10. IsInjective(r)
  BY <1>1, <1>2, <1>8, <1>9 DEF IsInjective
<1>11. ToSet(r) \subseteq ToSet(s)
  <2>1. ASSUME NEW i \in 1 .. n - 1 PROVE \E j \in 1 .. n : r[i] = s[j]
    <3>1. i \in 1 .. n /\ i + 1 \in 1 .. n
      BY <1>1
    <3> QED BY <1>8, <3>1
  <2> QED BY <1>1, <1>9, <2>1 DEF ToSet
<1> QED BY <1>5, <1>9, <1>10, <1>11 DEF r

LEMMA RemovedNodeOK ==
  ASSUME NEW b, NEW i, BucketOK(b, i), NEW key, \E n \in ToSet(b) : n.key = key
  PROVE  BucketOK(RemoveAt(b, FirstWith(b, key)), i)
<1> DEFINE J == {j \in DOMAIN b : b[j].key = key}
           p == FirstWith(b, key)
           r == RemoveAt(b, p)
<1>1. b \in Seq(DHTNodes) /\ Len(b) \in Nat /\ DOMAIN b = 1 .. Len(b) /\ IsInjective(b) /\ Len(b) <= K
  BY DEF BucketOK
<1>2. J \in SUBSET Nat /\ J # {}
  BY <1>1 DEF ToSet
<1>3. PICK m \in J : \A j \in J : m <= j
  BY <1>2, LeastNatural
<1>4. p = Min(J)
  BY DEF FirstWith
<1>5. p \in J
  <2> HIDE DEF J, p
  <2> QED BY <1>3, <1>4 DEF Min
<1>6. p \in 1 .. Len(b)
  BY <1>1, <1>5
<1> HIDE DEF p
<1>7. r \in Seq(DHTNodes) /\ IsInjective(r) /\ ToSet(r) \subseteq ToSet(b) /\ Len(r) = Len(b) - 1
  BY <1>1, <1>6, RemoveAtIs
<1> HIDE DEF r
<1>8. Len(r) <= K
  BY <1>1, <1>7, DHTConstants
<1>9. BucketOK(r, i)
  BY <1>7, <1>8 DEF BucketOK
<1> QED BY <1>9 DEF r, p

LEMMA DHTInitOK == DHTInit => DHTInv
<1> SUFFICES ASSUME DHTInit PROVE DHTInv
  OBVIOUS
<1>1. buckets = [i \in BucketIndexes |-> <<>>] /\ routing = <<>>
  BY DEF DHTInit
<1>2. \A i \in BucketIndexes : buckets[i] = <<>>
  BY <1>1
<1>3. buckets \in [BucketIndexes -> Seq(DHTNodes)]
  BY <1>1
<1>4. BucketsOK(buckets)
  BY <1>2, <1>3, EmptyBucketOK DEF BucketsOK
<1> QED BY <1>1, <1>4, NoRouting DEF DHTInv

LEMMA DHTInvSound == DHTInv => BucketsSound /\ DHTTypeOK
  BY DEF DHTInv, BucketsOK, BucketOK, Routings, BucketsSound, DHTTypeOK

\* What the DHT knows, as the loop of Bootstrap passes it on.
Knowledge ==
    {k \in [buckets : [BucketIndexes -> Seq(DHTNodes)], routing : Routings] : BucketsOK(k.buckets)}

LEMMA BootstrapOneOK ==
  ASSUME NEW known \in Knowledge, NEW n \in DHTNodes
  PROVE  BootstrapOne(known, n) \in Knowledge
<1>1. BucketsOK(known.buckets) /\ known.routing \in Routings
  BY DEF Knowledge
<1>2. CASE Bootstraps(known.buckets, n)
  <2> DEFINE bs == Stored(known.buckets, n)
             r == Recorded(known.routing, n)
  <2>1. BootstrapOne(known, n) = [buckets |-> bs, routing |-> r]
    BY <1>2 DEF BootstrapOne
  <2>2. BucketsOK(bs)
    BY <1>1, <1>2, StoredOK DEF Bootstraps
  <2>3. r \in Routings
    BY <1>1, RecordedIs
  <2> HIDE DEF bs, r
  <2> QED BY <2>1, <2>2, <2>3 DEF Knowledge, BucketsOK
<1>3. CASE ~ Bootstraps(known.buckets, n)
  BY <1>3 DEF BootstrapOne
<1> QED BY <1>2, <1>3

BootstrapFcn(list) ==
    CHOOSE f : f = [t \in SUBSET DOMAIN list |-> IF t = {} THEN [buckets |-> buckets, routing |-> routing] ELSE
        BootstrapOne(f[t \ {Max(t)}], list[Max(t)])]

LEMMA BootstrappedDef ==
  ASSUME NEW list
  PROVE  Bootstrapped(list) = BootstrapFcn(list)[DOMAIN list]
  BY DEF Bootstrapped, FoldLeft, MapThenFoldSet, BootstrapFcn

LEMMA BootstrappedOK ==
  ASSUME DHTInv, NEW list \in Seq(DHTNodes)
  PROVE  Bootstrapped(list) \in Knowledge
<1> DEFINE n == Len(list)
           base == [buckets |-> buckets, routing |-> routing]
           step == [i \in 1 .. n |-> [d \in Knowledge |-> BootstrapOne(d, list[i])]]
           p == BootstrapFcn(list)
           Eq(f) == f = [t \in SUBSET (1 .. n) |-> IF t = {} THEN base ELSE
                            BootstrapOne(f[t \ {Max(t)}], list[Max(t)])]
<1>1. n \in Nat /\ DOMAIN list = 1 .. n /\ \A i \in 1 .. n : list[i] \in DHTNodes
  OBVIOUS
<1>2. base \in Knowledge
  BY DEF DHTInv, Knowledge, BucketsOK
<1>3. step \in [1 .. n -> [Knowledge -> Knowledge]]
  BY <1>1, BootstrapOneOK
<1>4. \A i \in 1 .. n : \A d \in Knowledge : step[i][d] = BootstrapOne(d, list[i])
  OBVIOUS
<1>5. \A t \in SUBSET (1 .. n) : t # {} => Max(t) \in 1 .. n
  <2> SUFFICES ASSUME NEW t \in SUBSET (1 .. n), t # {} PROVE Max(t) \in 1 .. n
    OBVIOUS
  <2>1. t \in SUBSET (0 .. n)
    BY <1>1
  <2> QED BY <1>1, <2>1, MaxBounded
<1>6. p = CHOOSE f : Eq(f)
  BY <1>1 DEF BootstrapFcn
<1> HIDE DEF step, base, n
<1>7. PICK f \in [SUBSET (1 .. n) -> Knowledge] : IsLoop(n, base, step, f)
  BY <1>1, <1>2, <1>3, LoopExists
<1>8. Eq(f)
  <2>1. ASSUME NEW t \in SUBSET (1 .. n)
        PROVE  f[t] = IF t = {} THEN base ELSE BootstrapOne(f[t \ {Max(t)}], list[Max(t)])
    <3>1. CASE t # {}
      <4>1. f[t \ {Max(t)}] \in Knowledge /\ f[t] = step[Max(t)][f[t \ {Max(t)}]]
        BY <1>7, <3>1 DEF IsLoop
      <4> QED BY <1>4, <1>5, <3>1, <4>1
    <3> QED BY <1>7, <3>1 DEF IsLoop
  <2> QED BY <1>7, <2>1
<1>9. Eq(p)
  BY <1>6, <1>8
<1>10. IsRounds(n, Knowledge, base, step, p)
  <2>1. \A t \in SUBSET (1 .. n) : p[t] = IF t = {} THEN base ELSE BootstrapOne(p[t \ {Max(t)}], list[Max(t)])
    BY <1>9
  <2> HIDE DEF p
  <2> QED BY <1>1, <1>2, <1>3, <1>4, <1>5, <2>1 DEF IsRounds
<1> HIDE DEF p
<1>11. \A i \in 0 .. n : p[1 .. i] \in Knowledge
  BY <1>10, LoopPrefixes
<1>12. p[1 .. n] \in Knowledge
  BY <1>1, <1>11
<1>13. Bootstrapped(list) = p[1 .. n]
  BY <1>1, BootstrappedDef DEF p
<1> QED BY <1>12, <1>13

LEMMA DHTNow ==
  ASSUME BucketsOK(buckets'), routing' \in Routings
  PROVE  DHTInv'
<1>1. BucketsOK(buckets)'
  BY DEF BucketsOK, BucketOK, BucketIndexes, calculateBucketIndex, ToSet, IsInjective
<1>2. Routings' = Routings
  BY DEF Routings, DHTKeys
<1> QED BY <1>1, <1>2 DEF DHTInv

LEMMA DHTNextOK == DHTInv /\ [DHTNext]_dhtVars => DHTInv'
<1> SUFFICES ASSUME DHTInv, [DHTNext]_dhtVars PROVE DHTInv'
  OBVIOUS
<1>1. BucketsOK(buckets) /\ routing \in Routings
  BY DEF DHTInv
<1>2. ASSUME NEW n \in DHTNodes, AddNode(n) PROVE DHTInv'
  <2>1. /\ n # Self /\ ~ Known(buckets, n) /\ routing' = Recorded(routing, n)
        /\ buckets' = IF HasRoom(buckets, n) THEN Stored(buckets, n) ELSE buckets
    BY <1>2 DEF AddNode
  <2>2. BucketsOK(buckets')
    BY <1>1, <2>1, StoredOK
  <2>3. routing' \in Routings
    BY <1>1, <2>1, RecordedIs
  <2> QED BY <2>2, <2>3, DHTNow
<1>3. ASSUME NEW n \in DHTNodes, RemoveNode(n.key) PROVE DHTInv'
  <2> DEFINE i == calculateBucketIndex(n.key)
             b == buckets[i]
             c == RemoveAt(b, FirstWith(b, n.key))
  <2>1. /\ \E m \in ToSet(b) : m.key = n.key
        /\ buckets' = [buckets EXCEPT ![i] = c]
        /\ routing' = Restrict(routing, DOMAIN routing \ {n.key})
    BY <1>3 DEF RemoveNode
  <2>2. i \in BucketIndexes /\ BucketOK(b, i) /\ buckets \in [BucketIndexes -> Seq(DHTNodes)]
    BY <1>1, BucketIndexesAre DEF BucketsOK
  <2> HIDE DEF i, b
  <2>3. BucketOK(c, i)
    BY <2>1, <2>2, RemovedNodeOK
  <2> HIDE DEF c
  <2>4. BucketsOK(buckets')
    <3>1. c \in Seq(DHTNodes)
      BY <2>3 DEF BucketOK
    <3>2. buckets' \in [BucketIndexes -> Seq(DHTNodes)]
      BY <2>1, <2>2, <3>1
    <3>3. \A j \in BucketIndexes : buckets'[j] = IF j = i THEN c ELSE buckets[j]
      BY <2>1, <2>2
    <3> QED BY <1>1, <2>3, <3>2, <3>3 DEF BucketsOK
  <2>5. routing' \in Routings
    <3> DEFINE D == DOMAIN routing \ {n.key}
    <3>1. DOMAIN routing \in SUBSET DHTKeys /\ \A key \in DOMAIN routing : routing[key] \in DHTNodes /\ routing[key].key = key
      BY <1>1 DEF Routings
    <3>2. routing' = [key \in D |-> routing[key]] /\ D \in SUBSET DHTKeys
      BY <2>1, <3>1 DEF Restrict
    <3>3. routing' \in [D -> DHTNodes] /\ DOMAIN routing' = D /\ \A key \in D : routing'[key].key = key
      BY <3>1, <3>2
    <3> HIDE DEF D
    <3> QED BY <3>2, <3>3 DEF Routings
  <2> QED BY <2>4, <2>5, DHTNow
<1>4. ASSUME NEW list \in BootstrapLists, Bootstrap(list) PROVE DHTInv'
  <2> DEFINE known == Bootstrapped(list)
  <2>1. buckets' = known.buckets /\ routing' = known.routing
    BY <1>4 DEF Bootstrap
  <2>2. list \in Seq(DHTNodes)
    BY KademliaAssumption
  <2>3. known \in Knowledge
    BY <2>2, BootstrappedOK
  <2> HIDE DEF known
  <2>4. BucketsOK(buckets') /\ routing' \in Routings
    BY <2>1, <2>3 DEF Knowledge
  <2> QED BY <2>4, DHTNow
<1>5. CASE ClearAll
  <2>1. buckets' = [i \in BucketIndexes |-> <<>>] /\ routing' = <<>>
    BY <1>5 DEF ClearAll
  <2>2. \A i \in BucketIndexes : buckets'[i] = <<>>
    BY <2>1
  <2>3. buckets' \in [BucketIndexes -> Seq(DHTNodes)]
    BY <2>1
  <2>4. BucketsOK(buckets')
    BY <2>2, <2>3, EmptyBucketOK DEF BucketsOK
  <2> QED BY <2>1, <2>4, NoRouting, DHTNow
<1>6. CASE UNCHANGED dhtVars
  BY <1>1, <1>6, DHTNow DEF dhtVars
<1> QED BY <1>2, <1>3, <1>4, <1>5, <1>6 DEF DHTNext

-----------------------------------------------------------------------------
(* The search for the closest nodes.                                       *)

AllFcn(order) ==
    CHOOSE f : f = [t \in SUBSET DOMAIN order |-> IF t = {} THEN <<>> ELSE
        f[t \ {Max(t)}] \o buckets[order[Max(t)]]]

LEMMA AllNodesDef == AllNodes = AllFcn(Ascending(BucketIndexes))[DOMAIN Ascending(BucketIndexes)]
  BY DEF AllNodes, FoldLeft, MapThenFoldSet, AllFcn

\* The nodes of the first i buckets, each once.
GatheredUpTo(s, order, i) ==
    /\ s \in Seq(DHTNodes) /\ IsInjective(s)
    /\ \A x \in ToSet(s) : \E j \in 1 .. i : calculateBucketIndex(x.key) = order[j]
    /\ \A j \in 1 .. i : ToSet(buckets[order[j]]) \subseteq ToSet(s)

\* Two sequences with no common element.
LEMMA JoinedIs ==
  ASSUME NEW S, NEW s \in Seq(S), NEW t \in Seq(S), IsInjective(s), IsInjective(t),
         \A x \in ToSet(s) : x \notin ToSet(t)
  PROVE  s \o t \in Seq(S) /\ IsInjective(s \o t) /\ ToSet(s \o t) = ToSet(s) \cup ToSet(t)
<1> DEFINE r == s \o t
           m == Len(s)
           n == Len(t)
<1>1. m \in Nat /\ n \in Nat /\ DOMAIN s = 1 .. m /\ DOMAIN t = 1 .. n
  OBVIOUS
<1>2. r \in Seq(S) /\ Len(r) = m + n /\ \A i \in 1 .. m + n : r[i] = IF i <= m THEN s[i] ELSE t[i - m]
  BY ConcatProperties
<1>3. DOMAIN r = 1 .. m + n
  BY <1>2
<1> HIDE DEF r, m, n
<1>4. ASSUME NEW i \in 1 .. m + n
      PROVE  \/ i \in 1 .. m /\ r[i] = s[i] /\ r[i] \in ToSet(s)
             \/ i - m \in 1 .. n /\ ~ (i <= m) /\ r[i] = t[i - m] /\ r[i] \in ToSet(t)
  <2>1. CASE i <= m
    <3>1. i \in 1 .. m
      BY <1>1, <2>1
    <3> QED BY <1>1, <1>2, <2>1, <3>1 DEF ToSet
  <2>2. CASE ~ (i <= m)
    <3>1. i - m \in 1 .. n
      BY <1>1, <2>2
    <3> QED BY <1>1, <1>2, <2>2, <3>1 DEF ToSet
  <2> QED BY <2>1, <2>2
<1>5. ASSUME NEW i \in 1 .. m + n, NEW j \in 1 .. m + n, r[i] = r[j] PROVE i = j
  <2>1. CASE i \in 1 .. m /\ j \in 1 .. m
    <3>1. r[i] = s[i] /\ r[j] = s[j]
      BY <1>1, <1>2, <2>1
    <3> QED BY <1>1, <1>5, <2>1, <3>1 DEF IsInjective
  <2>2. CASE i \notin 1 .. m /\ j \notin 1 .. m
    <3>1. r[i] = t[i - m] /\ r[j] = t[j - m] /\ i - m \in 1 .. n /\ j - m \in 1 .. n
      BY <1>4, <2>2
    <3>2. i - m = j - m
      BY <1>1, <1>5, <3>1 DEF IsInjective
    <3> QED BY <1>1, <3>2
  <2>3. CASE i \in 1 .. m /\ j \notin 1 .. m
    <3>1. r[i] = s[i] /\ r[i] \in ToSet(s)
      BY <1>1, <1>4, <2>3
    <3>2. r[j] \in ToSet(t)
      BY <1>4, <2>3
    <3> QED BY <1>5, <3>1, <3>2
  <2>4. CASE i \notin 1 .. m /\ j \in 1 .. m
    <3>1. r[j] = s[j] /\ r[j] \in ToSet(s)
      BY <1>1, <1>4, <2>4
    <3>2. r[i] \in ToSet(t)
      BY <1>4, <2>4
    <3> QED BY <1>5, <3>1, <3>2
  <2> QED BY <2>1, <2>2, <2>3, <2>4
<1>6. IsInjective(r)
  BY <1>3, <1>5 DEF IsInjective
<1>7. ToSet(r) \subseteq ToSet(s) \cup ToSet(t)
  BY <1>3, <1>4 DEF ToSet
<1>8. ASSUME NEW i \in 1 .. m PROVE i \in 1 .. m + n /\ r[i] = s[i]
  <2>1. i \in 1 .. m + n /\ i <= m
    BY <1>1
  <2> QED BY <1>2, <2>1
<1>9. ASSUME NEW i \in 1 .. n PROVE i + m \in 1 .. m + n /\ r[i + m] = t[i]
  <2>1. i + m \in 1 .. m + n /\ ~ (i + m <= m) /\ (i + m) - m = i
    BY <1>1
  <2> QED BY <1>2, <2>1
<1>10. ToSet(s) \subseteq ToSet(r) /\ ToSet(t) \subseteq ToSet(r)
  BY <1>1, <1>3, <1>8, <1>9 DEF ToSet
<1> QED BY <1>2, <1>6, <1>7, <1>10 DEF r

LEMMA AllNodesOK ==
  ASSUME DHTInv
  PROVE  /\ AllNodes \in Seq(DHTNodes) /\ IsInjective(AllNodes)
         /\ \A i \in BucketIndexes : ToSet(buckets[i]) \subseteq ToSet(AllNodes)
<1> DEFINE order == Ascending(BucketIndexes)
           n == Len(order)
           V == Seq(DHTNodes)
           base == <<>>
           step == [i \in 1 .. n |-> [s \in V |-> s \o buckets[order[i]]]]
           p == AllFcn(order)
           Eq(f) == f = [t \in SUBSET (1 .. n) |-> IF t = {} THEN base ELSE f[t \ {Max(t)}] \o buckets[order[Max(t)]]]
<1>1. /\ order \in Seq(BucketIndexes) /\ IsAscending(order)
      /\ \A x \in BucketIndexes : \E i \in DOMAIN order : order[i] = x
      /\ order \in Orders(BucketIndexes, Cardinality(BucketIndexes)) /\ n = Cardinality(BucketIndexes)
  BY BucketIndexesAre, AscendingIs
<1> HIDE DEF order
<1>2. n \in Nat /\ DOMAIN order = 1 .. n /\ \A i \in 1 .. n : order[i] \in BucketIndexes
  BY <1>1
<1>3. \A i, j \in 1 .. n : i # j => order[i] # order[j]
  BY <1>1 DEF Orders
<1>4. \A i \in 1 .. n : buckets[order[i]] \in Seq(DHTNodes) /\ BucketOK(buckets[order[i]], order[i])
  BY <1>2 DEF DHTInv, BucketsOK
<1> HIDE DEF n
<1>5. base \in V
  OBVIOUS
<1>6. ASSUME NEW i \in 1 .. n, NEW s \in V PROVE s \o buckets[order[i]] \in V
  <2> DEFINE b == buckets[order[i]]
  <2>1. b \in Seq(DHTNodes) /\ s \in Seq(DHTNodes)
    BY <1>4
  <2> HIDE DEF b
  <2>2. s \o b \in Seq(DHTNodes)
    BY <2>1, ConcatProperties
  <2> QED BY <2>2 DEF b
<1> HIDE DEF V
<1>7. step \in [1 .. n -> [V -> V]]
  BY <1>6
<1>8. \A i \in 1 .. n : \A d \in V : step[i][d] = d \o buckets[order[i]]
  OBVIOUS
<1>9. \A t \in SUBSET (1 .. n) : t # {} => Max(t) \in 1 .. n
  <2> SUFFICES ASSUME NEW t \in SUBSET (1 .. n), t # {} PROVE Max(t) \in 1 .. n
    OBVIOUS
  <2>1. t \in SUBSET (0 .. n)
    BY <1>2
  <2> QED BY <1>2, <2>1, MaxBounded
<1>10. p = CHOOSE f : Eq(f)
  BY <1>2 DEF AllFcn
<1> HIDE DEF step, base
<1>11. PICK f \in [SUBSET (1 .. n) -> V] : IsLoop(n, base, step, f)
  BY <1>2, <1>5, <1>7, LoopExists
<1>12. Eq(f)
  <2>1. ASSUME NEW t \in SUBSET (1 .. n)
        PROVE  f[t] = IF t = {} THEN base ELSE f[t \ {Max(t)}] \o buckets[order[Max(t)]]
    <3>1. CASE t # {}
      <4>1. f[t \ {Max(t)}] \in V /\ f[t] = step[Max(t)][f[t \ {Max(t)}]]
        BY <1>11, <3>1 DEF IsLoop
      <4> QED BY <1>8, <1>9, <3>1, <4>1
    <3> QED BY <1>11, <3>1 DEF IsLoop
  <2> QED BY <1>11, <2>1
<1>13. Eq(p)
  BY <1>10, <1>12
<1>14. IsRounds(n, V, base, step, p)
  <2>1. \A t \in SUBSET (1 .. n) : p[t] = IF t = {} THEN base ELSE p[t \ {Max(t)}] \o buckets[order[Max(t)]]
    BY <1>13
  <2> HIDE DEF p
  <2> QED BY <1>2, <1>5, <1>7, <1>8, <1>9, <2>1 DEF IsRounds
<1> HIDE DEF p
<1>15. /\ p[1 .. 0] = base
       /\ \A i \in 0 .. n : p[1 .. i] \in V
       /\ \A i \in 1 .. n : p[1 .. i] = step[i][p[1 .. (i - 1)]]
  BY <1>14, LoopPrefixes
<1>16. AllNodes = p[1 .. n]
  BY <1>2, AllNodesDef DEF p, order
<1> DEFINE Good == {i \in 0 .. n : GatheredUpTo(p[1 .. i], order, i)}
<1>17. 0 \in Good
  <2>1. <<>> \in Seq(DHTNodes) /\ IsInjective(<<>>) /\ ToSet(<<>>) = {}
    BY DEF IsInjective, ToSet
  <2>2. GatheredUpTo(base, order, 0)
    BY <2>1 DEF GatheredUpTo, base
  <2> QED BY <1>2, <1>15, <2>2
<1>18. ASSUME NEW i \in 1 .. n, i - 1 \in Good PROVE i \in Good
  <2> DEFINE s == p[1 .. (i - 1)]
             b == buckets[order[i]]
             r == p[1 .. i]
  <2>1. i - 1 \in 0 .. n /\ i \in 0 .. n
    BY <1>2
  <2>2. s \in V /\ r = s \o b /\ GatheredUpTo(s, order, i - 1)
    BY <1>8, <1>15, <1>18, <2>1
  <2>3. /\ s \in Seq(DHTNodes) /\ IsInjective(s)
        /\ \A x \in ToSet(s) : \E j \in 1 .. i - 1 : calculateBucketIndex(x.key) = order[j]
        /\ \A j \in 1 .. i - 1 : ToSet(buckets[order[j]]) \subseteq ToSet(s)
    BY <2>2 DEF GatheredUpTo
  <2>4. b \in Seq(DHTNodes) /\ IsInjective(b) /\ \A x \in ToSet(b) : calculateBucketIndex(x.key) = order[i]
    BY <1>4 DEF BucketOK
  <2>5. \A j \in 1 .. i - 1 : j \in 1 .. n /\ j # i /\ j \in 1 .. i
    BY <1>2
  <2>6. \A x \in ToSet(s) : x \notin ToSet(b)
    BY <1>3, <2>3, <2>4, <2>5
  <2> HIDE DEF s, b, r
  <2>7. r \in Seq(DHTNodes) /\ IsInjective(r) /\ ToSet(r) = ToSet(s) \cup ToSet(b)
    BY <2>2, <2>3, <2>4, <2>6, JoinedIs
  <2>8. \A j \in 1 .. i : j \in 1 .. i - 1 \/ j = i
    BY <1>2
  <2>9. i \in 1 .. i
    BY <1>2
  <2>10. \A x \in ToSet(r) : \E j \in 1 .. i : calculateBucketIndex(x.key) = order[j]
    BY <2>3, <2>4, <2>5, <2>7, <2>9
  <2>11. ASSUME NEW j \in 1 .. i PROVE ToSet(buckets[order[j]]) \subseteq ToSet(r)
    <3>1. CASE j = i
      BY <2>7, <3>1 DEF b
    <3>2. CASE j # i
      BY <2>3, <2>7, <2>8, <3>2
    <3> QED BY <3>1, <3>2
  <2>12. GatheredUpTo(r, order, i)
    BY <2>7, <2>10, <2>11 DEF GatheredUpTo
  <2> QED BY <2>1, <2>12 DEF r
<1>19. Good = 0 .. n
  <2>1. Good \in SUBSET (0 .. n)
    OBVIOUS
  <2> HIDE DEF Good
  <2> QED BY <1>2, <1>17, <1>18, <2>1, UpInduction
<1>20. GatheredUpTo(AllNodes, order, n)
  <2>1. n \in Good
    BY <1>2, <1>19
  <2> QED BY <1>16, <2>1
<1> HIDE DEF Good
<1>21. ASSUME NEW i \in BucketIndexes PROVE ToSet(buckets[i]) \subseteq ToSet(AllNodes)
  <2>1. PICK j \in 1 .. n : order[j] = i
    BY <1>1, <1>2
  <2> QED BY <1>20, <2>1 DEF GatheredUpTo
<1> QED BY <1>20, <1>21 DEF GatheredUpTo

\* The distance of a node as one number.
DistanceOf(goal, n) == Magnitude(xorDistance(goal, n.key))

\* Which nodes come first is their distances' order.
LEMMA CloserIs ==
  ASSUME NEW nodes \in Seq(DHTNodes), NEW goal \in DHTKeys,
         NEW x \in ToSet(nodes), NEW y \in ToSet(nodes)
  PROVE  /\ DistanceOf(goal, x) \in Nat /\ DistanceOf(goal, y) \in Nat
         /\ <<x, y>> \in Closer(nodes, goal) <=> DistanceOf(goal, x) < DistanceOf(goal, y)
<1> DEFINE d == xorDistance(goal, x.key)
           e == xorDistance(goal, y.key)
<1>1. x.key \in DHTKeys /\ y.key \in DHTKeys
  <2>1. x \in DHTNodes /\ y \in DHTNodes
    BY DEF ToSet
  <2> QED BY <2>1, DHTConstants
<1>2. d \in DHTKeys /\ e \in DHTKeys /\ Magnitude(d) \in Nat /\ Magnitude(e) \in Nat
  BY <1>1, DistanceIs
<1>3. <<x, y>> \in Closer(nodes, goal) <=> compareDistance(e, d) > 0
  BY DEF Closer
<1> HIDE DEF d, e
<1>4. compareDistance(e, d) > 0 <=> Magnitude(e) > Magnitude(d)
  BY <1>2, CompareIs
<1>5. Magnitude(e) > Magnitude(d) <=> Magnitude(d) < Magnitude(e)
  BY <1>2
<1> QED BY <1>2, <1>3, <1>4, <1>5 DEF DistanceOf, d, e

LEMMA CloserOrders ==
  ASSUME NEW nodes \in Seq(DHTNodes), NEW goal \in DHTKeys
  PROVE  StrictOrder(ToSet(nodes), Closer(nodes, goal))
<1> DEFINE S == ToSet(nodes)
           C == Closer(nodes, goal)
           f == [x \in S |-> DistanceOf(goal, x)]
<1>1. \A x \in S : f[x] \in Nat
  BY CloserIs
<1>2. \A x, y \in S : <<x, y>> \in C <=> f[x] < f[y]
  BY CloserIs
<1> HIDE DEF S, C, f
<1>3. ASSUME NEW x \in S, NEW y \in S, <<x, y>> \in C PROVE <<y, x>> \notin C
  <2>1. f[x] < f[y] /\ f[x] \in Nat /\ f[y] \in Nat
    BY <1>1, <1>2, <1>3
  <2>2. ~ (f[y] < f[x])
    BY <2>1
  <2> QED BY <1>2, <2>2
<1>4. ASSUME NEW x \in S, NEW y \in S, NEW z \in S, <<x, y>> \in C, <<y, z>> \in C PROVE <<x, z>> \in C
  <2>1. f[x] < f[y] /\ f[y] < f[z] /\ f[x] \in Nat /\ f[y] \in Nat /\ f[z] \in Nat
    BY <1>1, <1>2, <1>4
  <2>2. f[x] < f[z]
    BY <2>1
  <2> QED BY <1>2, <2>2
<1>5. StrictOrder(S, C)
  BY <1>3, <1>4 DEF StrictOrder
<1> QED BY <1>5 DEF S, C

\* The answer to a search, for any nodes, each given once.
LEMMA SearchIs ==
  ASSUME NEW nodes \in Seq(DHTNodes), IsInjective(nodes), NEW goal \in DHTKeys,
         NEW m \in 0 .. Len(nodes)
  PROVE  LET sorted == sortByDistance(nodes, goal)
             found  == SubSeq(sorted, 1, m)
         IN  /\ Len(sorted) = Len(nodes) /\ Len(found) = m /\ DOMAIN found = 1 .. m
             /\ \A i \in 1 .. m : found[i] \in DHTNodes
             /\ \A i, j \in 1 .. m : i < j => DistanceOf(goal, found[i]) <= DistanceOf(goal, found[j])
             /\ \A x \in ToSet(nodes) \ ToSet(found), i \in 1 .. m :
                    DistanceOf(goal, found[i]) <= DistanceOf(goal, x)
<1> DEFINE n == Len(nodes)
           S == ToSet(nodes)
           C == Closer(nodes, goal)
           sorted == sortByDistance(nodes, goal)
           found == SubSeq(sorted, 1, m)
           d(x) == DistanceOf(goal, x)
<1>1. n \in Nat /\ DOMAIN nodes = 1 .. n /\ S \subseteq DHTNodes /\ m \in 0 .. n /\ m \in Nat
  BY DEF ToSet
<1>2. nodes \in Orders(S, n)
  BY <1>1 DEF Orders, IsInjective, ToSet
<1>3. IsFiniteSet(S) /\ Cardinality(S) = n
  <2>1. nodes \in Surjection(1 .. n, S) /\ nodes \in Injection(1 .. n, S)
    BY <1>1, <1>2 DEF Surjection, Injection, IsInjective, ToSet, Orders
  <2>2. IsFiniteSet(1 .. n) /\ Cardinality(1 .. n) = n
    <3>1. 1 \in Int /\ n \in Int
      BY <1>1
    <3>2. IsFiniteSet(1 .. n) /\ Cardinality(1 .. n) = IF 1 > n THEN 0 ELSE n - 1 + 1
      BY <3>1, FS_Interval
    <3> QED BY <1>1, <3>2
  <2> HIDE DEF S, n
  <2>4. IsFiniteSet(S) /\ Cardinality(S) = Cardinality(1 .. n)
    BY <2>1, <2>2, FS_Surjection
  <2> QED BY <2>2, <2>4
<1>4. sorted = ExchangeSort(nodes, C) /\ StrictOrder(S, C)
  BY CloserOrders DEF sortByDistance
<1>5. \A x, y \in S : d(x) \in Nat /\ (<<x, y>> \in C <=> d(x) < d(y))
  BY CloserIs
<1> HIDE DEF n, S, C, sorted, d
<1>6. /\ sorted \in Orders(S, n)
      /\ \A x, y \in 1 .. n : x < y => <<sorted[y], sorted[x]>> \notin C
  BY <1>1, <1>2, <1>4, SortOK
<1>7. sorted \in Seq(S) /\ Len(sorted) = n /\ DOMAIN sorted = 1 .. n /\ \A i \in 1 .. n : sorted[i] \in S
  BY <1>1, <1>6, OrderIsSeq
<1>8. ASSUME NEW i \in 1 .. n, NEW j \in 1 .. n, i < j PROVE d(sorted[i]) <= d(sorted[j])
  <2>1. sorted[i] \in S /\ sorted[j] \in S /\ <<sorted[j], sorted[i]>> \notin C
    BY <1>6, <1>7, <1>8
  <2>2. ~ (d(sorted[j]) < d(sorted[i])) /\ d(sorted[i]) \in Nat /\ d(sorted[j]) \in Nat
    BY <1>5, <2>1
  <2> QED BY <2>2
<1>9. Len(found) = m /\ DOMAIN found = 1 .. m /\ \A i \in 1 .. m : found[i] = sorted[i] /\ i \in 1 .. n
  <2>1. 1 \in Int /\ m \in Int /\ \A i \in 1 .. m : sorted[i] \in S
    BY <1>1, <1>7
  <2>2. /\ found \in Seq(S) /\ Len(found) = (IF 1 <= m THEN m - 1 + 1 ELSE 0)
        /\ \A i \in 1 .. m - 1 + 1 : found[i] = sorted[1 + i - 1]
    BY <2>1, SubSeqProperties
  <2> HIDE DEF found
  <2>3. Len(found) = m
    BY <1>1, <2>2
  <2>4. DOMAIN found = 1 .. m
    BY <2>2, <2>3
  <2>5. ASSUME NEW i \in 1 .. m PROVE found[i] = sorted[i] /\ i \in 1 .. n
    <3>1. i \in 1 .. m - 1 + 1 /\ 1 + i - 1 = i /\ i \in 1 .. n
      BY <1>1
    <3> QED BY <2>2, <3>1
  <2> QED BY <2>3, <2>4, <2>5
<1> HIDE DEF found
<1>10. \A i, j \in 1 .. m : i < j => d(found[i]) <= d(found[j])
  BY <1>8, <1>9
<1>11. ASSUME NEW x \in S \ ToSet(found), NEW i \in 1 .. m PROVE d(found[i]) <= d(x)
  <2>1. PICK j \in 1 .. n : sorted[j] = x
    BY <1>3, <1>6, OrderHoldsAll
  <2>2. j \notin 1 .. m
    BY <1>9, <1>11, <2>1 DEF ToSet
  <2>3. i < j
    BY <1>1, <2>2
  <2> QED BY <1>8, <1>9, <2>1, <2>3
<1>12. \A i \in 1 .. m : found[i] \in DHTNodes
  BY <1>1, <1>7, <1>9
<1> QED BY <1>7, <1>9, <1>10, <1>11, <1>12 DEF n, S, found, sorted, d

LEMMA FindsClosestOK == DHTInv => FindsClosest
<1> SUFFICES ASSUME DHTInv, NEW goal \in Targets
             PROVE  LET answer0 == FindNode(goal)
                        dist(n) == 4 * Xor(goal[1], n.key[1]) + Xor(goal[2], n.key[2])
                    IN  /\ Len(answer0) = Min({K, Len(AllNodes)})
                        /\ \A i, j \in DOMAIN answer0 : i < j => dist(answer0[i]) <= dist(answer0[j])
                        /\ \A n \in ToSet(AllNodes) \ ToSet(answer0), i \in DOMAIN answer0 :
                                dist(answer0[i]) <= dist(n)
  BY DEF FindsClosest
<1> DEFINE sorted == sortByDistance(AllNodes, goal)
           m == Min({K, Len(AllNodes)})
           found == SubSeq(sorted, 1, m)
           dist(n) == 4 * Xor(goal[1], n.key[1]) + Xor(goal[2], n.key[2])
<1>1. AllNodes \in Seq(DHTNodes) /\ IsInjective(AllNodes) /\ Len(AllNodes) \in Nat /\ ToSet(AllNodes) \subseteq DHTNodes
  <2>1. AllNodes \in Seq(DHTNodes) /\ IsInjective(AllNodes)
    BY AllNodesOK
  <2> QED BY <2>1 DEF ToSet
<1>2. goal \in DHTKeys
  BY KademliaAssumption
<1>3. m \in 0 .. Len(AllNodes)
  <2> DEFINE n == Len(AllNodes)
  <2>1. n \in Int /\ K \in Int /\ n \in Nat /\ K \in Nat
    BY <1>1, DHTConstants
  <2> HIDE DEF n
  <2>2. Min({K, n}) = IF K <= n THEN K ELSE n
    BY <2>1, MinTwo
  <2> QED BY <2>1, <2>2 DEF n
<1> HIDE DEF m
<1>4. /\ Len(sorted) = Len(AllNodes) /\ Len(found) = m /\ DOMAIN found = 1 .. m
      /\ \A i \in 1 .. m : found[i] \in DHTNodes
      /\ \A i, j \in 1 .. m : i < j => DistanceOf(goal, found[i]) <= DistanceOf(goal, found[j])
      /\ \A x \in ToSet(AllNodes) \ ToSet(found), i \in 1 .. m :
             DistanceOf(goal, found[i]) <= DistanceOf(goal, x)
  BY <1>1, <1>2, <1>3, SearchIs
<1>5. FindNode(goal) = found
  BY <1>4 DEF FindNode, m
<1>6. ASSUME NEW n \in DHTNodes PROVE DistanceOf(goal, n) = dist(n)
  <2>1. n.key \in DHTKeys
    BY DHTConstants
  <2> QED BY <1>2, <2>1, DistanceIs DEF DistanceOf, Magnitude
<1> HIDE DEF found, dist
<1>7. \A i, j \in 1 .. m : i < j => dist(found[i]) <= dist(found[j])
  BY <1>4, <1>6
<1>8. \A n \in ToSet(AllNodes) \ ToSet(found), i \in 1 .. m : dist(found[i]) <= dist(n)
  BY <1>1, <1>4, <1>6
<1> QED BY <1>4, <1>5, <1>7, <1>8 DEF m, dist

\* However nodes are seen, evicted and found again in Bootstrap, a k-bucket of
\* discovery.go holds at most its limit of nodes, each once and in the bucket of
\* its distance; FindNode answers the closest of all the nodes, closest first;
\* and a bucket of the routing table of p2p.go names peers that are in it.
THEOREM TablesSoundCorrect == DHTSpec /\ TableSpec => []TablesSound
<1>1. DHTInv /\ TableInv => TablesSound
  BY DHTInvSound, FindsClosestOK, TableInvSound DEF TablesSound
<1> QED BY <1>1, DHTInitOK, DHTNextOK, TableInitOK, TableNextOK, PTL DEF DHTSpec, TableSpec

-----------------------------------------------------------------------------
(* The types of all parts.                                                 *)

\* Times are those of the bounded clock.
RateTypes ==
    /\ messages \in Seq(0 .. RateMaxTime) /\ rateNow \in 0 .. RateMaxTime
    /\ allowed \subseteq RateCallers

LEMMA SeqElements ==
  ASSUME NEW S, NEW s \in Seq(S)
  PROVE  \A i \in DOMAIN s : s[i] \in S
  OBVIOUS

LEMMA SeqWithin ==
  ASSUME NEW S, NEW T, NEW s \in Seq(S), \A i \in DOMAIN s : s[i] \in T
  PROVE  s \in Seq(T)
  OBVIOUS

LEMMA InWindowTyped ==
  ASSUME RateTypes
  PROVE  InWindow \in Seq(0 .. RateMaxTime)
<1>1. messages \in Seq(0 .. RateMaxTime) /\ rateNow \in Nat
  BY RateAssumption DEF RateTypes
<1>2. messages \in Seq(Nat)
  BY <1>1, RateAssumption
<1>3. InWindow \in Seq(Nat) /\ \A j \in DOMAIN InWindow : \E i \in DOMAIN messages : InWindow[j] = messages[i]
  BY <1>1, <1>2, InWindowIs
<1>4. \A i \in DOMAIN messages : messages[i] \in 0 .. RateMaxTime
  BY <1>1, SeqElements
<1>5. \A j \in DOMAIN InWindow : InWindow[j] \in 0 .. RateMaxTime
  BY <1>3, <1>4
<1> QED BY <1>3, <1>5, SeqWithin

LEMMA RateTypesInit == RateInit => RateTypes
  BY RateAssumption DEF RateInit, RateTypes

LEMMA RateTypesNext == RateTypes /\ [RateNext]_rateVars => RateTypes'
<1> SUFFICES ASSUME RateTypes, [RateNext]_rateVars PROVE RateTypes'
  OBVIOUS
<1>1. ASSUME NEW c \in RateCallers, Allow(c) PROVE RateTypes'
  BY <1>1, InWindowTyped DEF Allow, RateTypes
<1>2. ASSUME NEW c \in RateCallers, Record(c) PROVE RateTypes'
  BY <1>2 DEF Record, RateTypes
<1>3. CASE RateTick
  BY <1>3, RateAssumption DEF RateTick, RateTypes
<1>4. CASE UNCHANGED rateVars
  BY <1>4 DEF rateVars, RateTypes
<1> QED BY <1>1, <1>2, <1>3, <1>4 DEF RateNext

TimedPeer == [state : {"new", "connected", "offline"}, lastSeen : 0 .. PeerMaxTime]

PeerTypes ==
    /\ objects \in [PeerIDs -> TimedPeer] /\ peerNow \in 0 .. PeerMaxTime
    /\ peers \subseteq PeerIDs /\ connectedPeers \subseteq PeerIDs
    /\ \A id \in DOMAIN peerConnections : peerConnections[id] \in Conns

LEMMA PeerTypesInit == PeerInit => PeerTypes
<1> SUFFICES ASSUME PeerInit PROVE PeerTypes
  OBVIOUS
<1>1. objects \in [PeerIDs -> TimedPeer] /\ peerNow \in 0 .. PeerMaxTime
  BY PeerAssumption DEF PeerInit, TimedPeer
<1> QED BY <1>1 DEF PeerInit, PeerTypes

LEMMA PeerTypesNext == PeerTypes /\ [PeerNext]_peerVars => PeerTypes'
<1> SUFFICES ASSUME PeerTypes, [PeerNext]_peerVars PROVE PeerTypes'
  OBVIOUS
<1>1. ASSUME NEW id \in PeerIDs, NEW old \in BOOLEAN, AddPeer(id, old) PROVE PeerTypes'
  <2>1. objects' \in [PeerIDs -> TimedPeer]
    BY <1>1 DEF AddPeer, NewPeer, PeerTypes, TimedPeer
  <2> QED BY <1>1, <2>1 DEF AddPeer, PeerTypes
<1>2. ASSUME NEW id \in PeerIDs, RemovePeer(id) PROVE PeerTypes'
  BY <1>2 DEF RemovePeer, Forgotten, Restrict, PeerTypes
<1>3. ASSUME NEW id \in PeerIDs, MarkPeerDisconnected(id) PROVE PeerTypes'
  <2>1. objects' \in [PeerIDs -> TimedPeer]
    BY <1>3 DEF MarkPeerDisconnected, PeerTypes, TimedPeer
  <2> QED BY <1>3, <2>1 DEF MarkPeerDisconnected, Forgotten, Restrict, PeerTypes
<1>4. ASSUME NEW id \in PeerIDs, UpdatePeerLastSeen(id) PROVE PeerTypes'
  <2>1. objects' \in [PeerIDs -> TimedPeer]
    BY <1>4 DEF UpdatePeerLastSeen, PeerTypes, TimedPeer
  <2> QED BY <1>4, <2>1 DEF UpdatePeerLastSeen, PeerTypes
<1>5. ASSUME NEW id \in PeerIDs, NEW conn \in Conns, MarkPeerConnected(id, conn) PROVE PeerTypes'
  <2>1. objects' \in [PeerIDs -> TimedPeer]
    BY <1>5 DEF MarkPeerConnected, PeerTypes, TimedPeer
  <2> QED BY <1>5, <2>1 DEF MarkPeerConnected, PeerTypes
<1>6. CASE ClearStalePeers
  BY <1>6 DEF ClearStalePeers, PeerTypes
<1>7. CASE PeerTick
  BY <1>7, PeerAssumption DEF PeerTick, PeerTypes
<1>8. CASE UNCHANGED peerVars
  BY <1>8 DEF peerVars, PeerTypes
<1> QED BY <1>1, <1>2, <1>3, <1>4, <1>5, <1>6, <1>7, <1>8 DEF PeerNext

\* The stores and the p2p components, all running at once, keep their types: a
\* batch stays below its limit, the queue of broadcasts and the tables of peers
\* within theirs.
THEOREM InfraTypesOKCorrect ==
    /\ CacheSpec /\ DBSpec /\ IterSpec /\ BuilderSpec
    /\ GossipSpec /\ PeerSpec /\ RateSpec /\ DHTSpec /\ TableSpec
    => []InfraTypesOK
<1>1. CacheInv /\ DBInv => CacheTypeOK /\ DBTypeOK
  BY CacheInvSound, DBInvSound
<1>2. IterInv /\ BuilderInv => IterTypeOK /\ BuilderTypeOK
  BY IterInvSound, BuilderInvSound
<1>3. DHTInv /\ TableInv => DHTTypeOK /\ TableTypeOK
  BY DHTInvSound, TableInvSound
<1>4. GossipInv => GossipTypeOK
  BY DEF GossipInv, GossipTypes, WorkRec, GossipTypeOK
<1>5. PeerTypes => PeerTypeOK
  BY DEF PeerTypes, TimedPeer, PeerTypeOK, Range
<1>6. RateTypes => RateTypeOK
  BY DEF RateTypes, RateTypeOK
<1>7. CacheInv /\ DBInv /\ IterInv /\ BuilderInv /\ DHTInv /\ TableInv /\ GossipInv /\ PeerTypes /\ RateTypes
      => InfraTypesOK
  BY <1>1, <1>2, <1>3, <1>4, <1>5, <1>6 DEF InfraTypesOK
<1>8. CacheSpec /\ DBSpec => [](CacheInv /\ DBInv)
  BY CacheInitOK, CacheNextOK, DBInitOK, DBNextOK, PTL DEF CacheSpec, DBSpec
<1>9. IterSpec /\ BuilderSpec => [](IterInv /\ BuilderInv)
  BY IterInitOK, IterNextOK, BuilderInitOK, BuilderNextOK, PTL DEF IterSpec, BuilderSpec
<1>10. DHTSpec /\ TableSpec => [](DHTInv /\ TableInv)
  BY DHTInitOK, DHTNextOK, TableInitOK, TableNextOK, PTL DEF DHTSpec, TableSpec
<1>11. GossipSpec => []GossipInv
  BY GossipInitOK, GossipNextOK, PTL DEF GossipSpec
<1>12. PeerSpec /\ RateSpec => [](PeerTypes /\ RateTypes)
  BY PeerTypesInit, PeerTypesNext, RateTypesInit, RateTypesNext, PTL DEF PeerSpec, RateSpec
<1> QED BY <1>7, <1>8, <1>9, <1>10, <1>11, <1>12, PTL

=============================================================================

------------------------------- MODULE Gossip -------------------------------
(***************************************************************************)
(* pkg/p2p: messages on their way (router.go, network.go) and the message  *)
(* processor that receives them (message.go).                              *)
(*                                                                         *)
(* The network is a set of packets that only grows: a packet may be        *)
(* delivered twice, late or never.  Several workers run Process on one     *)
(* processor; its map of seen messages has a lock, each use of which is a  *)
(* step.  TTLs wrap like the uint8 they are, at TTLModulus.                *)
(***************************************************************************)
EXTENDS Integers, FiniteSets

CONSTANTS
    FreshIDs,        \* messages made by NewMessage
    ForeignIDs,      \* messages of other programs, with a TTL of their own
    EmptyIDs,        \* those without a payload: ping, pong, keep-alive
    Workers,
    NewTTL,          \* the TTL of NewMessage, 240 in the code
    ForeignTTLs,
    ValidatorTTL,    \* maxTTL of the validator, 30 in the code
    MaxHops,         \* GetMaxHops, 64 in the code
    TTLModulus,      \* 256 in the code
    SeenLimit,       \* the size of messageSeen that starts a cleaning
    CleanLimit,      \* the size at which it empties the map
    MaxPending,      \* maxPending of the broadcaster
    MaxHandled       \* bound: a message handled so often is not received again

ASSUME GossipAssumption ==
    /\ {NewTTL, ValidatorTTL, MaxHops, TTLModulus, SeenLimit, CleanLimit, MaxPending, MaxHandled} \subseteq Nat
    /\ ForeignTTLs \subseteq 0 .. TTLModulus - 1 /\ NewTTL < TTLModulus
    /\ FreshIDs \cap ForeignIDs = {} /\ EmptyIDs \subseteq FreshIDs \cup ForeignIDs
    /\ IsFiniteSet(Workers)

IDs == FreshIDs \cup ForeignIDs

VARIABLES
    network,     \* packets [id, ttl, hops]
    expired,     \* packets that ForwardMessage refused after it counted them down
    messageSeen,
    working,     \* each worker: [pc, id]
    pending,     \* the number of tasks in pendingBcast
    handled,     \* history: how often the handler got a message
    forgotten    \* history: how often a cleaning dropped a message from messageSeen

processorVars == <<messageSeen, working, handled, forgotten>>
gossipVars == <<network, expired, processorVars, pending>>

Resting == [pc |-> "idle", id |-> CHOOSE id \in IDs : TRUE]

GossipInit ==
    /\ network = {} /\ expired = {} /\ messageSeen = {}
    /\ working = [w \in Workers |-> Resting]
    /\ pending = 0
    /\ handled = [id \in IDs |-> 0]
    /\ forgotten = [id \in IDs |-> 0]

\* NewMessage and a broadcast of it.
NewMessage(id) ==
    /\ id \in FreshIDs
    /\ network' = network \cup {[id |-> id, ttl |-> NewTTL, hops |-> 0]}
    /\ UNCHANGED <<expired, processorVars, pending>>

ForeignMessage(id, ttl) ==
    /\ id \in ForeignIDs
    /\ \A p \in network : p.id # id
    /\ network' = network \cup {[id |-> id, ttl |-> ttl, hops |-> 0]}
    /\ UNCHANGED <<expired, processorVars, pending>>

\* ForwardMessage counts the hop in the message it was given before it looks at
\* the TTL: one of 0 wraps, and so does one that was refused and is tried again.
ForwardMessage(p) ==
    /\ p.hops < MaxHops
    /\ LET q == [p EXCEPT !.hops = @ + 1, !.ttl = (@ - 1) % TTLModulus]
       IN  \/ q.ttl = 0 /\ expired' = expired \cup {q} /\ UNCHANGED network
           \/ q.ttl # 0 /\ network' = network \cup {q} /\ UNCHANGED expired
    /\ UNCHANGED <<processorVars, pending>>

\* The fields of MessageToBytes, and a payload of one byte where there is one.
EncodedLength(id) == 2 + 1 + 16 + 16 + 8 + 16 + 1 + 1 + IF id \in EmptyIDs THEN 0 ELSE 1

\* BytesToMessage.
Decodes(id) == EncodedLength(id) >= 62

Validate(p) == p.ttl <= ValidatorTTL /\ p.hops <= MaxHops

\* Process up to the look into messageSeen: a message seen before is dropped.
Receive(w, p) ==
    /\ working[w].pc = "idle"
    /\ handled[p.id] < MaxHandled
    /\ Decodes(p.id) /\ Validate(p)
    /\ p.id \notin messageSeen
    /\ working' = [working EXCEPT ![w] = [pc |-> "mark", id |-> p.id]]
    /\ UNCHANGED <<network, expired, messageSeen, pending, handled, forgotten>>

\* Mutant: what is seen is not remembered.
MarkNot(w) ==
    /\ working[w].pc = "mark"
    /\ working' = [working EXCEPT ![w].pc = "size"]
    /\ UNCHANGED <<network, expired, messageSeen, pending, handled, forgotten>>

Mark(w) ==
    /\ working[w].pc = "mark"
    /\ messageSeen' = messageSeen \cup {working[w].id}
    /\ working' = [working EXCEPT ![w].pc = "size"]
    /\ UNCHANGED <<network, expired, pending, handled, forgotten>>

\* The size is read outside the lock that the cleaning takes.
Size(w) ==
    /\ working[w].pc = "size"
    /\ working' = [working EXCEPT ![w].pc = IF Cardinality(messageSeen) > SeenLimit THEN "clean" ELSE "handle"]
    /\ UNCHANGED <<network, expired, messageSeen, pending, handled, forgotten>>

\* A map above the limit is replaced by an empty one, this message included.
cleanOldSeenMessages(w) ==
    /\ working[w].pc = "clean"
    /\ LET dropped == IF Cardinality(messageSeen) > CleanLimit THEN messageSeen ELSE {}
       IN  /\ messageSeen' = messageSeen \ dropped
           /\ forgotten' = [id \in IDs |-> forgotten[id] + IF id \in dropped THEN 1 ELSE 0]
    /\ working' = [working EXCEPT ![w].pc = "handle"]
    /\ UNCHANGED <<network, expired, pending, handled>>

HandleMessage(w) ==
    /\ working[w].pc = "handle"
    /\ handled' = [handled EXCEPT ![working[w].id] = @ + 1]
    /\ working' = [working EXCEPT ![w] = Resting]
    /\ UNCHANGED <<network, expired, messageSeen, pending, forgotten>>

\* A task without TargetPeers.
AddBroadcast ==
    /\ pending < MaxPending
    /\ pending' = pending + 1
    /\ UNCHANGED <<network, expired, processorVars>>

\* Every task is sent to its TargetPeers, which are none, and dropped.
ProcessBroadcasts ==
    /\ pending > 0
    /\ pending' = 0
    /\ UNCHANGED <<network, expired, processorVars>>

GossipNext ==
    \/ \E id \in IDs : NewMessage(id) \/ \E ttl \in ForeignTTLs : ForeignMessage(id, ttl)
    \/ \E p \in network \cup expired : ForwardMessage(p)
    \/ \E w \in Workers : \/ \E p \in network : Receive(w, p)
                          \/ Mark(w) \/ Size(w) \/ cleanOldSeenMessages(w) \/ HandleMessage(w)
    \/ AddBroadcast \/ ProcessBroadcasts

GossipSpec == GossipInit /\ [][GossipNext]_gossipVars

-----------------------------------------------------------------------------

Packets == [id : IDs, ttl : 0 .. TTLModulus - 1, hops : 0 .. MaxHops]

GossipTypeOK ==
    /\ network \subseteq Packets /\ expired \subseteq Packets
    /\ messageSeen \subseteq IDs
    /\ \A w \in Workers : working[w].pc \in {"idle", "mark", "size", "clean", "handle"}
    /\ pending \in 0 .. MaxPending
    /\ handled \in [IDs -> Nat] /\ forgotten \in [IDs -> Nat]

\* The workers that are at a message, from the look into messageSeen on.
InProcess(id) == {w \in Workers : working[w].pc # "idle" /\ working[w].id = id}

\* The look into messageSeen and the mark are two uses of the lock
\* (message.go:181-191), and a cleaning forgets every message, those still
\* being handled included (message.go:193-194, 207-213).  Even so a message
\* reaches the handler at most once for every worker, and as often again for
\* every time that it was forgotten: overlapping calls let in no more, however
\* long one of them waits before its mark and however many copies arrive.
DeliveriesBounded ==
    \A id \in IDs :
        handled[id] + Cardinality(InProcess(id)) <= Cardinality(Workers) * (1 + forgotten[id])

=============================================================================

--------------------------------- MODULE Hub ---------------------------------
(***************************************************************************)
(* The WebSocket hub (server/internal/hub) of every API node, and the      *)
(* presence hash they share in Redis, for one workspace.  A node's hub is  *)
(* one goroutine that owns the registry of its connections; connections    *)
(* come and go on their own goroutines; workers publish notifications      *)
(* through Redis pub/sub, and each node's bridge forwards what it hears to *)
(* its hub.                                                                *)
(***************************************************************************)
EXTENDS Integers, Sequences, FiniteSets

CONSTANTS
    Nodes,       \* API nodes
    Clients,     \* connections; one that is closed does not come back
    Home,        \* the node each connects to
    SubOf,       \* the subscriber each belongs to
    Messages,    \* publications: a retried notification is another one
    To,          \* the subscriber each is for
    SendBuffer,  \* capacity of a client's send channel, 64 in the code
    HubBuffer,   \* capacity of the hub's send channel, 256 in the code
    Readers,     \* clients that keep reading their socket
    MaxFaults,   \* bound on node crashes, failed Redis commands and lost envelopes
    None

Subscribers == {SubOf[c] : c \in Clients}

ASSUME ClientsAssumption ==
    IsFiniteSet(Clients) /\ Home \in [Clients -> Nodes] /\ Readers \subseteq Clients
ASSUME BufferAssumption  == SendBuffer \in Nat \ {0} /\ HubBuffer \in Nat \ {0}
ASSUME FaultAssumption   == MaxFaults \in Nat
ASSUME NoneAssumption    == None \notin Subscribers

VARIABLES
    conn,      \* a client: "new", "registering", "open", "leaving" or "gone"
    rooms,     \* the registered clients of each node
    cleanup,   \* the subscriber a node's removeClient is about to HDEL
    present,   \* the fields of the presence hash in Redis
    count,     \* and their values
    inbox,     \* published envelopes a node's bridge has not taken
    hubq,      \* the hub's send channel
    buf,       \* a client's send channel
    closed,    \* the clients whose send channel was closed
    faults,    \* node crashes, failed Redis commands and lost envelopes so far
    published, \* history: the messages published, in order
    received,  \* history: what was written to each client's socket
    dropped    \* history: what trySend dropped for each client

presence == <<present, count>>
wires    == <<inbox, hubq, buf>>
seen     == <<published, received, dropped>>
hubVars     == <<conn, rooms, cleanup, presence, wires, closed, faults, seen>>

HubInit ==
    /\ conn = [c \in Clients |-> "new"]
    /\ rooms = [n \in Nodes |-> {}]
    /\ cleanup = [n \in Nodes |-> None]
    /\ present = {} /\ count = [s \in Subscribers |-> 0]
    /\ inbox = [n \in Nodes |-> <<>>]
    /\ hubq = [n \in Nodes |-> <<>>]
    /\ buf = [c \in Clients |-> <<>>]
    /\ closed = {} /\ faults = 0
    /\ published = <<>>
    /\ received = [c \in Clients |-> <<>>]
    /\ dropped = [c \in Clients |-> {}]

-----------------------------------------------------------------------------
(* Connections.                                                             *)

(* Start blocks until the hub takes the registration; the pumps start after. *)
Connect(c) ==
    /\ conn[c] = "new"
    /\ conn' = [conn EXCEPT ![c] = "registering"]
    /\ UNCHANGED <<rooms, cleanup, presence, wires, closed, faults, seen>>

(* The read pump ends: the peer closed, pongs stopped, or the write pump    *)
(* failed and closed the socket.  It waits for the hub to unregister it.    *)
Disconnect(c) ==
    /\ conn[c] = "open"
    /\ conn' = [conn EXCEPT ![c] = "leaving"]
    /\ UNCHANGED <<rooms, cleanup, presence, wires, closed, faults, seen>>

(* The write pump writes the next message; the socket is closed only after  *)
(* the hub has let go of the client.                                        *)
WriteMessage(c) ==
    /\ buf[c] # <<>>
    /\ received' = [received EXCEPT ![c] = Append(@, Head(buf[c]))]
    /\ buf' = [buf EXCEPT ![c] = Tail(@)]
    /\ UNCHANGED <<conn, rooms, cleanup, presence, inbox, hubq, closed, faults, published, dropped>>

(* It fails, or is cut off: what is left in the channel is not written.     *)
AbandonBuffer(c) ==
    /\ buf[c] # <<>> /\ conn[c] \in {"leaving", "gone"}
    /\ buf' = [buf EXCEPT ![c] = <<>>]
    /\ UNCHANGED <<conn, rooms, cleanup, presence, inbox, hubq, closed, faults, seen>>

-----------------------------------------------------------------------------
(* The hub's event loop.  While it is inside removeClient, between its two  *)
(* Redis commands, it takes nothing else.                                   *)

Free(n) == cleanup[n] = None

Fault == faults < MaxFaults /\ faults' = faults + 1

(* An error of the HINCRBY is ignored. *)
AddClient(c) ==
    LET n == Home[c]  s == SubOf[c] IN
    /\ conn[c] = "registering" /\ Free(n)
    /\ conn' = [conn EXCEPT ![c] = "open"]
    /\ rooms' = [rooms EXCEPT ![n] = @ \cup {c}]
    /\ \/ present' = present \cup {s} /\ count' = [count EXCEPT ![s] = @ + 1] /\ UNCHANGED faults
       \/ Fault /\ UNCHANGED presence
    /\ UNCHANGED <<cleanup, wires, closed, seen>>

(* Mutants of RemoveClient: no reference count; the field stays at zero;    *)
(* the client stays in the registry.                                        *)
RemoveClientUncounted(c) ==
    LET n == Home[c]  s == SubOf[c] IN
    /\ conn[c] = "leaving" /\ Free(n) /\ c \in rooms[n]
    /\ conn' = [conn EXCEPT ![c] = "gone"]
    /\ rooms' = [rooms EXCEPT ![n] = @ \ {c}]
    /\ closed' = closed \cup {c}
    /\ cleanup' = [cleanup EXCEPT ![n] = s]
    /\ UNCHANGED <<presence, wires, faults, seen>>
RemoveClientBelowZero(c) ==
    LET n == Home[c]  s == SubOf[c] IN
    /\ conn[c] = "leaving" /\ Free(n) /\ c \in rooms[n]
    /\ conn' = [conn EXCEPT ![c] = "gone"]
    /\ rooms' = [rooms EXCEPT ![n] = @ \ {c}]
    /\ closed' = closed \cup {c}
    /\ present' = present \cup {s}
    /\ count' = [count EXCEPT ![s] = @ - 1]
    /\ cleanup' = [cleanup EXCEPT ![n] = IF count[s] - 1 < 0 THEN s ELSE None]
    /\ UNCHANGED <<wires, faults, seen>>
RemoveClientKept(c) ==
    LET n == Home[c]  s == SubOf[c] IN
    /\ conn[c] = "leaving" /\ Free(n) /\ c \in rooms[n]
    /\ conn' = [conn EXCEPT ![c] = "gone"]
    /\ closed' = closed \cup {c}
    /\ present' = present \cup {s}
    /\ count' = [count EXCEPT ![s] = @ - 1]
    /\ UNCHANGED <<rooms, cleanup, wires, faults, seen>>

(* HINCRBY -1 creates a missing field; its answer decides about the HDEL,   *)
(* which is not sent when the HINCRBY fails or its answer is lost.          *)
RemoveClient(c) ==
    LET n == Home[c]  s == SubOf[c]
        Decrement == present' = present \cup {s} /\ count' = [count EXCEPT ![s] = @ - 1]
    IN
    /\ conn[c] = "leaving" /\ Free(n) /\ c \in rooms[n]
    /\ conn' = [conn EXCEPT ![c] = "gone"]
    /\ rooms' = [rooms EXCEPT ![n] = @ \ {c}]
    /\ closed' = closed \cup {c}
    /\ \/ /\ Decrement
          /\ cleanup' = [cleanup EXCEPT ![n] = IF count[s] - 1 <= 0 THEN s ELSE None]
          /\ UNCHANGED faults
       \/ Fault /\ (Decrement \/ UNCHANGED presence) /\ UNCHANGED cleanup
    /\ UNCHANGED <<wires, seen>>

DeletePresence(n) ==
    /\ ~Free(n)
    /\ \/ /\ present' = present \ {cleanup[n]}
          /\ count' = [count EXCEPT ![cleanup[n]] = 0]
          /\ UNCHANGED faults
       \/ Fault /\ UNCHANGED presence
    /\ cleanup' = [cleanup EXCEPT ![n] = None]
    /\ UNCHANGED <<conn, rooms, wires, closed, seen>>

Targets(n, m) == {c \in rooms[n] : SubOf[c] = To[m]}
Full(c)       == Len(buf[c]) >= SendBuffer

(* Mutant of Deliver: a blocking send to every client.                      *)
DeliverBlocking(n) ==
    /\ hubq[n] # <<>> /\ Free(n)
    /\ \A c \in Targets(n, Head(hubq[n])) : ~Full(c)
    /\ hubq' = [hubq EXCEPT ![n] = Tail(@)]
    /\ buf' = [c \in Clients |->
                 IF c \in Targets(n, Head(hubq[n])) THEN Append(buf[c], Head(hubq[n])) ELSE buf[c]]
    /\ UNCHANGED <<conn, rooms, cleanup, presence, inbox, closed, faults, seen>>

(* A message goes to every connection of its subscriber on this node; one   *)
(* whose channel is full is skipped.                                        *)
Deliver(n) ==
    /\ hubq[n] # <<>> /\ Free(n)
    /\ LET m == Head(hubq[n]) IN
         /\ buf' = [c \in Clients |->
                      IF c \in Targets(n, m) /\ ~Full(c) THEN Append(buf[c], m) ELSE buf[c]]
         /\ dropped' = [c \in Clients |->
                      IF c \in Targets(n, m) /\ Full(c) THEN dropped[c] \cup {m} ELSE dropped[c]]
    /\ hubq' = [hubq EXCEPT ![n] = Tail(@)]
    /\ UNCHANGED <<conn, rooms, cleanup, presence, inbox, closed, faults, published, received>>

-----------------------------------------------------------------------------
(* Workers and bridges.                                                     *)

(* PublishToSubscriber: an HEXISTS, which only answers, then the PUBLISH,   *)
(* which happens whatever the answer was and reaches every node's bridge.   *)
Publish(m) ==
    /\ \A i \in DOMAIN published : published[i] # m
    /\ published' = Append(published, m)
    /\ inbox' = [n \in Nodes |-> Append(inbox[n], m)]
    /\ UNCHANGED <<conn, rooms, cleanup, presence, hubq, buf, closed, faults, received, dropped>>

(* Mutant of Forward: a goroutine per message.                              *)
ForwardConcurrently(n) ==
    /\ \E i \in DOMAIN inbox[n] :
         /\ hubq' = [hubq EXCEPT ![n] = Append(@, inbox[n][i])]
         /\ inbox' = [inbox EXCEPT ![n] = SubSeq(@, 1, i - 1) \o SubSeq(@, i + 1, Len(@))]
    /\ Len(hubq[n]) < HubBuffer
    /\ UNCHANGED <<conn, rooms, cleanup, presence, buf, closed, faults, seen>>
(* RunBridge: the send to the hub waits while its channel is full.          *)
Forward(n) ==
    /\ inbox[n] # <<>> /\ Len(hubq[n]) < HubBuffer
    /\ hubq' = [hubq EXCEPT ![n] = Append(@, Head(inbox[n]))]
    /\ inbox' = [inbox EXCEPT ![n] = Tail(@)]
    /\ UNCHANGED <<conn, rooms, cleanup, presence, buf, closed, faults, seen>>

(* Redis pub/sub delivers at most once.                                     *)
LoseEnvelope(n) ==
    /\ inbox[n] # <<>> /\ Fault
    /\ inbox' = [inbox EXCEPT ![n] = Tail(@)]
    /\ UNCHANGED <<conn, rooms, cleanup, presence, hubq, buf, closed, seen>>

(* A node dies and is restarted: its connections and channels are gone, the *)
(* presence they were counted in is not.                                    *)
NodeCrash(n) ==
    /\ Fault
    /\ conn' = [c \in Clients |-> IF Home[c] = n /\ conn[c] # "new" THEN "gone" ELSE conn[c]]
    /\ buf' = [c \in Clients |-> IF Home[c] = n THEN <<>> ELSE buf[c]]
    /\ rooms' = [rooms EXCEPT ![n] = {}]
    /\ cleanup' = [cleanup EXCEPT ![n] = None]
    /\ inbox' = [inbox EXCEPT ![n] = <<>>]
    /\ hubq' = [hubq EXCEPT ![n] = <<>>]
    /\ UNCHANGED <<presence, closed, seen>>
-----------------------------------------------------------------------------
ClientStep(c) == Connect(c) \/ Disconnect(c) \/ WriteMessage(c) \/ AbandonBuffer(c)
HubStep(n) ==
    \/ \E c \in Clients : Home[c] = n /\ (AddClient(c) \/ RemoveClient(c))
    \/ DeletePresence(n) \/ Deliver(n)

HubNext ==
    \/ \E c \in Clients : ClientStep(c)
    \/ \E n \in Nodes : HubStep(n) \/ Forward(n) \/ LoseEnvelope(n) \/ NodeCrash(n)
    \/ \E m \in Messages : Publish(m)

HubSpec == HubInit /\ [][HubNext]_hubVars

-----------------------------------------------------------------------------
Connected(s) == \E n \in Nodes : \E c \in rooms[n] : SubOf[c] = s

(* A client in a registry has an open send channel, is in the registry of   *)
(* its own node, and has not gone: the hub never sends on a closed channel, *)
(* which would end the process.                                             *)
NoSendAfterClose ==
    \A n \in Nodes : \A c \in rooms[n] :
        c \notin closed /\ Home[c] = n /\ conn[c] \in {"open", "leaving"}

(* Every connection sees messages in the order they were published, none    *)
(* twice, with gaps where a channel was full or a node was away.            *)
Position(m) == CHOOSE i \in DOMAIN published : published[i] = m
InPublishOrder ==
    \A c \in Clients : \A i, k \in DOMAIN received[c] :
        i < k => Position(received[c][i]) < Position(received[c][k])

(* A subscriber with several connections stays online until the last one    *)
(* disconnects: true of one node, whose hub is one goroutine.               *)
OnlineWhileConnected == \A s \in Subscribers : Connected(s) => s \in present

(* Until the first fault, when the last connection is gone and every hub    *)
(* has finished its cleanup, the subscriber is offline, on any number of    *)
(* nodes and however their commands interleave.                             *)
OfflineWhenAllGone ==
    faults = 0 => \A s \in Subscribers :
        ~Connected(s) /\ (\A n \in Nodes : cleanup[n] # s) => s \notin present

(* A message that reaches the node of a connected client is written to its  *)
(* socket, unless its channel is full or it disconnects: other clients that *)
(* do not read stall neither the bridge nor the hub.                        *)
ReadersReceive ==
    \A c \in Readers, m \in Messages :
        /\ To[m] = SubOf[c] /\ c \in rooms[Home[c]]
        /\ \E i \in DOMAIN inbox[Home[c]] : inbox[Home[c]][i] = m
        ~> \/ conn[c] # "open" \/ m \in dropped[c]
           \/ \E i \in DOMAIN received[c] : received[c][i] = m
=============================================================================

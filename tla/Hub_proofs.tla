----------------------------- MODULE Hub_proofs -----------------------------
(***************************************************************************)
(* The hub never sends on a closed channel, messages keep the order of     *)
(* publication, and presence is what the counting makes of it, for any     *)
(* number of nodes, connections, messages and faults.                      *)
(***************************************************************************)
EXTENDS Hub, FiniteSetTheorems, TLAPS

States == {"new", "registering", "open", "leaving", "gone"}

(* NoSendAfterClose with what it rests on: a channel is closed when its     *)
(* client goes, and a client that is gone does not register again.          *)
RegistryInv ==
    /\ conn \in [Clients -> States]
    /\ rooms \in [Nodes -> SUBSET Clients]
    /\ \A c \in closed : c \in Clients => conn[c] = "gone"
    /\ NoSendAfterClose

LEMMA RegistryStart == HubInit => RegistryInv
BY DEF HubInit, RegistryInv, NoSendAfterClose, States

(* A step that touches neither registry, nor channels, nor connections.     *)
LEMMA RegistryKept ==
    ASSUME RegistryInv, UNCHANGED <<conn, rooms, closed>>
    PROVE  RegistryInv'
BY DEF RegistryInv, NoSendAfterClose

(* Registration: the client's channel is new.                               *)
LEMMA AddClientStep ==
    ASSUME RegistryInv, NEW c \in Clients, AddClient(c)
    PROVE  RegistryInv'
<1> USE ClientsAssumption DEF RegistryInv, States
<1>1. /\ Home[c] \in Nodes /\ conn[c] = "registering" /\ c \notin closed
      /\ conn' = [conn EXCEPT ![c] = "open"]
      /\ rooms' = [rooms EXCEPT ![Home[c]] = @ \cup {c}] /\ closed' = closed
  BY DEF AddClient
<1>2. conn' \in [Clients -> States] /\ rooms' \in [Nodes -> SUBSET Clients]
  BY <1>1
<1>3. \A d \in closed' : d \in Clients => conn'[d] = "gone"
  BY <1>1
<1>4. NoSendAfterClose'
  <2> SUFFICES ASSUME NEW n \in Nodes, NEW d \in rooms'[n]
               PROVE  d \notin closed' /\ Home[d] = n /\ conn'[d] \in {"open", "leaving"}
    BY DEF NoSendAfterClose
  <2>1. CASE d = c /\ n = Home[c]
    BY <1>1, <2>1
  <2>2. CASE d \in rooms[n]
    <3>1. d \in Clients /\ d \notin closed /\ Home[d] = n /\ conn[d] \in {"open", "leaving"}
      BY <2>2 DEF NoSendAfterClose
    <3> QED BY <1>1, <3>1
  <2> QED BY <1>1, <2>1, <2>2
<1> QED BY <1>2, <1>3, <1>4

(* removeClient: registry and channel in one step of the hub's goroutine.   *)
LEMMA RemoveClientStep ==
    ASSUME RegistryInv, NEW c \in Clients, RemoveClient(c)
    PROVE  RegistryInv'
<1> USE ClientsAssumption DEF RegistryInv, States
<1>1. /\ Home[c] \in Nodes /\ conn' = [conn EXCEPT ![c] = "gone"]
      /\ rooms' = [rooms EXCEPT ![Home[c]] = @ \ {c}] /\ closed' = closed \cup {c}
  BY DEF RemoveClient
<1>2. conn' \in [Clients -> States] /\ rooms' \in [Nodes -> SUBSET Clients]
  BY <1>1
<1>3. \A d \in closed' : d \in Clients => conn'[d] = "gone"
  BY <1>1
<1>4. NoSendAfterClose'
  <2> SUFFICES ASSUME NEW n \in Nodes, NEW d \in rooms'[n]
               PROVE  d \notin closed' /\ Home[d] = n /\ conn'[d] \in {"open", "leaving"}
    BY DEF NoSendAfterClose
  <2>1. d \in rooms[n] /\ d \in Clients /\ d \notin closed /\ Home[d] = n /\ conn[d] \in {"open", "leaving"}
    BY <1>1 DEF NoSendAfterClose
  <2>2. d # c
    BY <1>1, <2>1
  <2> QED BY <1>1, <2>1, <2>2
<1> QED BY <1>2, <1>3, <1>4

(* A crash takes the node's registry and all of its connections.            *)
LEMMA NodeCrashStep ==
    ASSUME RegistryInv, NEW n \in Nodes, NodeCrash(n)
    PROVE  RegistryInv'
<1> USE ClientsAssumption DEF RegistryInv, States
<1>1. /\ conn' = [c \in Clients |-> IF Home[c] = n /\ conn[c] # "new" THEN "gone" ELSE conn[c]]
      /\ rooms' = [rooms EXCEPT ![n] = {}] /\ closed' = closed
  BY DEF NodeCrash
<1>2. conn' \in [Clients -> States] /\ rooms' \in [Nodes -> SUBSET Clients]
  BY <1>1
<1>3. \A d \in closed' : d \in Clients => conn'[d] = "gone"
  BY <1>1
<1>4. NoSendAfterClose'
  <2> SUFFICES ASSUME NEW k \in Nodes, NEW d \in rooms'[k]
               PROVE  d \notin closed' /\ Home[d] = k /\ conn'[d] \in {"open", "leaving"}
    BY DEF NoSendAfterClose
  <2>1. /\ k # n /\ d \in Clients
        /\ d \notin closed /\ Home[d] = k /\ conn[d] \in {"open", "leaving"}
    BY <1>1 DEF NoSendAfterClose
  <2> QED BY <1>1, <2>1
<1> QED BY <1>2, <1>3, <1>4

(* A client that registers or disconnects is in no registry, or stays in it.*)
LEMMA ClientMoves ==
    ASSUME RegistryInv, NEW c \in Clients, Connect(c) \/ Disconnect(c)
    PROVE  RegistryInv'
<1> USE DEF RegistryInv, States
<1>1. /\ rooms' = rooms /\ closed' = closed
      /\ \/ conn[c] = "new" /\ conn' = [conn EXCEPT ![c] = "registering"]
         \/ conn[c] = "open" /\ conn' = [conn EXCEPT ![c] = "leaving"]
  BY DEF Connect, Disconnect
<1>2. conn' \in [Clients -> States] /\ rooms' \in [Nodes -> SUBSET Clients]
  BY <1>1
<1>3. \A d \in closed' : d \in Clients => conn'[d] = "gone"
  BY <1>1
<1>4. NoSendAfterClose'
  <2> SUFFICES ASSUME NEW n \in Nodes, NEW d \in rooms'[n]
               PROVE  d \notin closed' /\ Home[d] = n /\ conn'[d] \in {"open", "leaving"}
    BY DEF NoSendAfterClose
  <2>1. d \in Clients /\ d \notin closed /\ Home[d] = n /\ conn[d] \in {"open", "leaving"}
    BY <1>1 DEF NoSendAfterClose
  <2> QED BY <1>1, <2>1
<1> QED BY <1>2, <1>3, <1>4

LEMMA RegistryStep == RegistryInv /\ [HubNext]_hubVars => RegistryInv'
<1> SUFFICES ASSUME RegistryInv, [HubNext]_hubVars PROVE RegistryInv'
  OBVIOUS
<1>1. CASE UNCHANGED hubVars
  BY <1>1, RegistryKept DEF hubVars
<1>2. ASSUME NEW c \in Clients, ClientStep(c) PROVE RegistryInv'
  <2>1. CASE WriteMessage(c) \/ AbandonBuffer(c)
    BY <2>1, RegistryKept DEF WriteMessage, AbandonBuffer
  <2> QED BY <1>2, <2>1, ClientMoves DEF ClientStep
<1>3. ASSUME NEW n \in Nodes, HubStep(n) PROVE RegistryInv'
  <2>1. CASE DeletePresence(n) \/ Deliver(n)
    BY <2>1, RegistryKept DEF DeletePresence, Deliver
  <2> QED BY <1>3, <2>1, AddClientStep, RemoveClientStep DEF HubStep
<1>4. ASSUME NEW n \in Nodes, Forward(n) \/ LoseEnvelope(n) PROVE RegistryInv'
  BY <1>4, RegistryKept DEF Forward, LoseEnvelope
<1>5. ASSUME NEW m \in Messages, Publish(m) PROVE RegistryInv'
  BY <1>5, RegistryKept DEF Publish
<1> QED BY <1>1, <1>2, <1>3, <1>4, <1>5, NodeCrashStep DEF HubNext

(* THEOREM: the hub never sends on a closed channel, on any number of nodes *)
(* and through crashes and failing Redis commands.                          *)
THEOREM ChannelsStayOpen == HubSpec => []NoSendAfterClose
<1>1. RegistryInv => NoSendAfterClose
  BY DEF RegistryInv
<1> QED BY <1>1, RegistryStart, RegistryStep, PTL DEF HubSpec

-----------------------------------------------------------------------------
(* Order.  A message passes four queues on its way: its node's inbox, the   *)
(* hub's channel, the client's channel and the socket.  Whatever is further *)
(* on its way was published before what is behind it.                       *)

Elems(q)       == {q[i] : i \in DOMAIN q}
Sent           == Elems(published)
Rank           == [m \in Messages |-> IF m \in Sent THEN Position(m) ELSE 0]
SortedBy(r, q) == \A i, k \in DOMAIN q : i < k => r[q[i]] < r[q[k]]
Before(r, p, q) == \A x \in Elems(p), y \in Elems(q) : r[x] < r[y]

Flow(r, S, sock, chan, hub, in) ==
    /\ sock \in Seq(Messages) /\ chan \in Seq(Messages)
    /\ hub \in Seq(Messages) /\ in \in Seq(Messages)
    /\ Elems(sock) \cup Elems(chan) \cup Elems(hub) \cup Elems(in) \subseteq S
    /\ SortedBy(r, sock) /\ SortedBy(r, chan) /\ SortedBy(r, hub) /\ SortedBy(r, in)
    /\ Before(r, sock, chan) /\ Before(r, sock, hub) /\ Before(r, sock, in)
    /\ Before(r, chan, hub) /\ Before(r, chan, in) /\ Before(r, hub, in)

FlowInv ==
    /\ published \in Seq(Messages)
    /\ \A i, k \in DOMAIN published : published[i] = published[k] => i = k
    /\ inbox \in [Nodes -> Seq(Messages)] /\ hubq \in [Nodes -> Seq(Messages)]
    /\ buf \in [Clients -> Seq(Messages)] /\ received \in [Clients -> Seq(Messages)]
    /\ \A c \in Clients :
         Flow(Rank, Sent, received[c], buf[c], hubq[Home[c]], inbox[Home[c]])

LEMMA TakeHead ==
    ASSUME NEW r \in [Messages -> Nat], NEW q \in Seq(Messages), q # <<>>, SortedBy(r, q)
    PROVE  /\ Head(q) \in Messages /\ Head(q) \in Elems(q)
           /\ Tail(q) \in Seq(Messages) /\ Elems(Tail(q)) \subseteq Elems(q)
           /\ SortedBy(r, Tail(q)) /\ \A y \in Elems(Tail(q)) : r[Head(q)] < r[y]
<1>1. /\ Head(q) = q[1] /\ 1 \in DOMAIN q /\ Tail(q) \in Seq(Messages)
      /\ \A i \in DOMAIN Tail(q) : i + 1 \in DOMAIN q /\ Tail(q)[i] = q[i + 1] /\ i \in Nat /\ 1 < i + 1
  OBVIOUS
<1>2. Head(q) \in Messages
  OBVIOUS
<1> QED BY <1>1, <1>2 DEF Elems, SortedBy

LEMMA PutLast ==
    ASSUME NEW r \in [Messages -> Nat], NEW q \in Seq(Messages), NEW m \in Messages, SortedBy(r, q),
           \A x \in Elems(q) : r[x] < r[m]
    PROVE  /\ Append(q, m) \in Seq(Messages) /\ Elems(Append(q, m)) = Elems(q) \cup {m}
           /\ SortedBy(r, Append(q, m))
<1>1. /\ Append(q, m) \in Seq(Messages) /\ DOMAIN Append(q, m) = DOMAIN q \cup {Len(q) + 1}
      /\ Append(q, m)[Len(q) + 1] = m
      /\ \A i \in DOMAIN q : Append(q, m)[i] = q[i] /\ i \in Nat /\ i < Len(q) + 1
  OBVIOUS
<1> QED BY <1>1 DEF Elems, SortedBy

(* A message that moves on by one queue, or is lost, keeps the order.       *)
LEMMA FlowWrite ==
    ASSUME NEW r \in [Messages -> Nat], NEW S, NEW sock, NEW chan, NEW hub, NEW in,
           Flow(r, S, sock, chan, hub, in), chan # <<>>
    PROVE  Flow(r, S, Append(sock, Head(chan)), Tail(chan), hub, in)
<1> DEFINE m == Head(chan)
<1>1. /\ m \in Messages /\ m \in Elems(chan) /\ Tail(chan) \in Seq(Messages)
      /\ Elems(Tail(chan)) \subseteq Elems(chan) /\ SortedBy(r, Tail(chan))
      /\ \A y \in Elems(Tail(chan)) : r[m] < r[y]
  BY TakeHead DEF Flow
<1>2. /\ Append(sock, m) \in Seq(Messages) /\ Elems(Append(sock, m)) = Elems(sock) \cup {m}
      /\ SortedBy(r, Append(sock, m))
  BY <1>1, PutLast DEF Flow, Before
<1> HIDE DEF m
<1> QED BY <1>1, <1>2 DEF Flow, Before, m

LEMMA FlowDeliver ==
    ASSUME NEW r \in [Messages -> Nat], NEW S, NEW sock, NEW chan, NEW hub, NEW in,
           Flow(r, S, sock, chan, hub, in), hub # <<>>
    PROVE  /\ Flow(r, S, sock, Append(chan, Head(hub)), Tail(hub), in)
           /\ Flow(r, S, sock, chan, Tail(hub), in)
<1> DEFINE m == Head(hub)
<1>1. /\ m \in Messages /\ m \in Elems(hub) /\ Tail(hub) \in Seq(Messages)
      /\ Elems(Tail(hub)) \subseteq Elems(hub) /\ SortedBy(r, Tail(hub))
      /\ \A y \in Elems(Tail(hub)) : r[m] < r[y]
  BY TakeHead DEF Flow
<1>2. /\ Append(chan, m) \in Seq(Messages) /\ Elems(Append(chan, m)) = Elems(chan) \cup {m}
      /\ SortedBy(r, Append(chan, m))
  BY <1>1, PutLast DEF Flow, Before
<1> HIDE DEF m
<1> QED BY <1>1, <1>2 DEF Flow, Before, m

LEMMA FlowForward ==
    ASSUME NEW r \in [Messages -> Nat], NEW S, NEW sock, NEW chan, NEW hub, NEW in,
           Flow(r, S, sock, chan, hub, in), in # <<>>
    PROVE  /\ Flow(r, S, sock, chan, Append(hub, Head(in)), Tail(in))
           /\ Flow(r, S, sock, chan, hub, Tail(in))
<1> DEFINE m == Head(in)
<1>1. /\ m \in Messages /\ m \in Elems(in) /\ Tail(in) \in Seq(Messages)
      /\ Elems(Tail(in)) \subseteq Elems(in) /\ SortedBy(r, Tail(in))
      /\ \A y \in Elems(Tail(in)) : r[m] < r[y]
  BY TakeHead DEF Flow
<1>2. /\ Append(hub, m) \in Seq(Messages) /\ Elems(Append(hub, m)) = Elems(hub) \cup {m}
      /\ SortedBy(r, Append(hub, m))
  BY <1>1, PutLast DEF Flow, Before
<1> HIDE DEF m
<1> QED BY <1>1, <1>2 DEF Flow, Before, m

LEMMA FlowCut ==
    ASSUME NEW r \in [Messages -> Nat], NEW S, NEW sock, NEW chan, NEW hub, NEW in,
           Flow(r, S, sock, chan, hub, in)
    PROVE  Flow(r, S, sock, <<>>, hub, in) /\ Flow(r, S, sock, <<>>, <<>>, <<>>)
BY DEF Flow, Before, SortedBy, Elems

(* The rank of a message is its place among those published.                *)
LEMMA RankFacts ==
    ASSUME FlowInv
    PROVE  /\ Rank \in [Messages -> Nat] /\ Sent \subseteq Messages
           /\ \A i \in DOMAIN published : Rank[published[i]] = i
           /\ \A m \in Sent : Rank[m] = Position(m)
<1>1. \A i \in DOMAIN published : published[i] \in Messages /\ i \in Nat
  BY DEF FlowInv
<1>2. \A i \in DOMAIN published : Position(published[i]) = i
  BY DEF FlowInv, Position
<1> QED BY <1>1, <1>2 DEF Rank, Sent, Elems

LEMMA FlowStart == HubInit => FlowInv
BY ClientsAssumption DEF HubInit, FlowInv, Flow, Elems, SortedBy, Before

(* A new message is behind every other one.                                 *)
LEMMA PublishStep ==
    ASSUME FlowInv, NEW m \in Messages, Publish(m)
    PROVE  FlowInv'
<1>1. /\ m \notin Sent /\ published' = Append(published, m) /\ UNCHANGED <<hubq, buf, received>>
      /\ inbox' = [n \in Nodes |-> Append(inbox[n], m)]
  BY DEF Publish, Sent, Elems
<1>2. /\ published' \in Seq(Messages) /\ DOMAIN published' = DOMAIN published \cup {Len(published) + 1}
      /\ published'[Len(published) + 1] = m /\ Len(published) \in Nat
      /\ \A i \in DOMAIN published : published'[i] = published[i] /\ i \in Nat /\ i < Len(published) + 1
  BY <1>1 DEF FlowInv
<1>3. \A i, k \in DOMAIN published' : published'[i] = published'[k] => i = k
  BY <1>1, <1>2 DEF FlowInv, Sent, Elems
<1>4. Sent' = Sent \cup {m}
  BY <1>2 DEF Sent, Elems
<1>5. \A i \in DOMAIN published' :
        (CHOOSE k \in DOMAIN published' : published'[k] = published'[i]) = i
  BY <1>3
<1>6. /\ Rank' \in [Messages -> Nat]
      /\ \A x \in Sent : Rank'[x] = Rank[x] /\ Rank[x] < Rank'[m]
  <2>1. \A i \in DOMAIN published' : i \in Nat /\ published'[i] \in Messages
    BY <1>2
  <2>2. Rank' \in [Messages -> Nat] /\ \A i \in DOMAIN published' : Rank'[published'[i]] = i
    BY <1>5, <2>1 DEF Rank, Sent, Elems, Position
  <2> QED BY <1>2, <2>2, RankFacts DEF Sent, Elems
<1>7. ASSUME NEW c \in Clients
      PROVE  Flow(Rank', Sent', received[c], buf[c], hubq[Home[c]], Append(inbox[Home[c]], m))
  <2>1. Flow(Rank', Sent', received[c], buf[c], hubq[Home[c]], inbox[Home[c]])
    <3> DEFINE sock == received[c] chan == buf[c] hub == hubq[Home[c]] in == inbox[Home[c]]
    <3>1. Flow(Rank, Sent, sock, chan, hub, in)
      BY DEF FlowInv
    <3> HIDE DEF sock, chan, hub, in
    <3>2. \A q \in Seq(Messages) : Elems(q) \subseteq Sent /\ SortedBy(Rank, q) => SortedBy(Rank', q)
      BY <1>6 DEF SortedBy, Elems
    <3>3. \A p, q \in Seq(Messages) :
            Elems(p) \cup Elems(q) \subseteq Sent /\ Before(Rank, p, q) => Before(Rank', p, q)
      BY <1>6 DEF Before
    <3>4. Flow(Rank', Sent', sock, chan, hub, in)
      BY <1>4, <3>1, <3>2, <3>3 DEF Flow
    <3> QED BY <3>4 DEF sock, chan, hub, in
  <2>2. \A x \in Sent : Rank'[x] < Rank'[m]
    BY <1>6
  <2> DEFINE sock == received[c] chan == buf[c] hub == hubq[Home[c]] in == inbox[Home[c]]
  <2>3. Elems(sock) \cup Elems(chan) \cup Elems(hub) \cup Elems(in) \subseteq Sent
    BY DEF FlowInv, Flow
  <2> HIDE DEF sock, chan, hub, in
  <2>4. Flow(Rank', Sent', sock, chan, hub, in)
    BY <2>1 DEF sock, chan, hub, in
  <2>5. /\ Append(in, m) \in Seq(Messages) /\ Elems(Append(in, m)) = Elems(in) \cup {m}
        /\ SortedBy(Rank', Append(in, m))
    BY <1>6, <2>2, <2>3, <2>4, PutLast DEF Flow
  <2>6. Flow(Rank', Sent', sock, chan, hub, Append(in, m))
    BY <1>4, <2>2, <2>3, <2>4, <2>5 DEF Flow, Before
  <2> QED BY <2>6 DEF sock, chan, hub, in
<1>8. inbox' \in [Nodes -> Seq(Messages)] /\ \A c \in Clients : inbox'[Home[c]] = Append(inbox[Home[c]], m)
  BY <1>1, ClientsAssumption DEF FlowInv
<1> QED BY <1>1, <1>2, <1>3, <1>7, <1>8 DEF FlowInv

LEMMA FlowStep == RegistryInv /\ FlowInv /\ [HubNext]_hubVars => FlowInv'
<1> SUFFICES ASSUME RegistryInv, FlowInv, [HubNext]_hubVars PROVE FlowInv'
  OBVIOUS
<1>r. Rank \in [Messages -> Nat] /\ \A c \in Clients : Home[c] \in Nodes
  BY RankFacts, ClientsAssumption
<1>t. /\ inbox \in [Nodes -> Seq(Messages)] /\ hubq \in [Nodes -> Seq(Messages)]
      /\ buf \in [Clients -> Seq(Messages)] /\ received \in [Clients -> Seq(Messages)]
  BY DEF FlowInv
<1>f. \A c \in Clients : Flow(Rank, Sent, received[c], buf[c], hubq[Home[c]], inbox[Home[c]])
  BY DEF FlowInv
(* Enough to show of a step that publishes nothing.                         *)
<1>k. ASSUME UNCHANGED published,
             inbox' \in [Nodes -> Seq(Messages)], hubq' \in [Nodes -> Seq(Messages)],
             buf' \in [Clients -> Seq(Messages)], received' \in [Clients -> Seq(Messages)],
             \A c \in Clients : Flow(Rank, Sent, received'[c], buf'[c], hubq'[Home[c]], inbox'[Home[c]])
      PROVE  FlowInv'
  <2>1. Rank' = Rank /\ Sent' = Sent
    BY <1>k DEF Rank, Sent, Position
  <2> QED BY <1>k, <2>1 DEF FlowInv
<1>1. CASE UNCHANGED <<published, inbox, hubq, buf, received>>
  BY <1>1, <1>t, <1>f, <1>k
<1>2. ASSUME NEW c \in Clients, WriteMessage(c) PROVE FlowInv'
  <2>1. /\ buf[c] # <<>> /\ UNCHANGED <<published, inbox, hubq>>
        /\ received' = [received EXCEPT ![c] = Append(@, Head(buf[c]))]
        /\ buf' = [buf EXCEPT ![c] = Tail(@)]
    BY <1>2 DEF WriteMessage
  <2>2. Flow(Rank, Sent, received'[c], buf'[c], hubq[Home[c]], inbox[Home[c]])
    BY <1>r, <1>t, <1>f, <2>1, FlowWrite
  <2>3. received'[c] \in Seq(Messages) /\ buf'[c] \in Seq(Messages)
    BY <2>2 DEF Flow
  <2> QED BY <1>t, <1>f, <1>k, <2>1, <2>2, <2>3
<1>3. ASSUME NEW c \in Clients, AbandonBuffer(c) PROVE FlowInv'
  <2>1. UNCHANGED <<published, inbox, hubq, received>> /\ buf' = [buf EXCEPT ![c] = <<>>]
    BY <1>3 DEF AbandonBuffer, seen
  <2>2. Flow(Rank, Sent, received[c], buf'[c], hubq[Home[c]], inbox[Home[c]])
    BY <1>r, <1>t, <1>f, <2>1, FlowCut
  <2> QED BY <1>t, <1>f, <1>k, <2>1, <2>2
<1>4. ASSUME NEW n \in Nodes, Deliver(n) PROVE FlowInv'
  <2> DEFINE m == Head(hubq[n])
  <2>1. /\ hubq[n] # <<>> /\ UNCHANGED <<published, inbox, received>>
        /\ hubq' = [hubq EXCEPT ![n] = Tail(@)]
        /\ buf' = [c \in Clients |->
                     IF c \in Targets(n, m) /\ ~Full(c) THEN Append(buf[c], m) ELSE buf[c]]
    BY <1>4 DEF Deliver
  <2>2. m \in Messages /\ Tail(hubq[n]) \in Seq(Messages)
    BY <1>t, <2>1
  <2>3. \A c \in Targets(n, m) : Home[c] = n
    BY DEF Targets, RegistryInv, NoSendAfterClose
  <2>4. ASSUME NEW c \in Clients
        PROVE  Flow(Rank, Sent, received[c], buf'[c], hubq'[Home[c]], inbox[Home[c]])
    <3>1. CASE Home[c] = n
      <4>1. buf'[c] = Append(buf[c], m) \/ buf'[c] = buf[c]
        BY <2>1
      <4>2. hubq'[Home[c]] = Tail(hubq[n])
        BY <1>t, <2>1, <3>1
      <4> QED BY <1>r, <1>f, <2>1, <3>1, <4>1, <4>2, FlowDeliver
    <3>2. CASE Home[c] # n
      BY <1>t, <1>f, <1>r, <2>1, <2>3, <3>2
    <3> QED BY <3>1, <3>2
  <2> QED BY <1>t, <1>k, <2>1, <2>2, <2>4
<1>5. ASSUME NEW n \in Nodes, Forward(n) \/ LoseEnvelope(n) PROVE FlowInv'
  <2>1. /\ inbox[n] # <<>> /\ UNCHANGED <<published, buf, received>>
        /\ inbox' = [inbox EXCEPT ![n] = Tail(@)]
        /\ hubq' = [hubq EXCEPT ![n] = Append(@, Head(inbox[n]))] \/ hubq' = hubq
    BY <1>5 DEF Forward, LoseEnvelope, seen
  <2>2. /\ inbox' \in [Nodes -> Seq(Messages)] /\ hubq' \in [Nodes -> Seq(Messages)]
        /\ inbox'[n] = Tail(inbox[n])
        /\ hubq'[n] = Append(hubq[n], Head(inbox[n])) \/ hubq'[n] = hubq[n]
        /\ \A k \in Nodes \ {n} : inbox'[k] = inbox[k] /\ hubq'[k] = hubq[k]
    <3>1. Head(inbox[n]) \in Messages /\ Tail(inbox[n]) \in Seq(Messages)
      BY <1>t, <2>1
    <3>2. hubq[n] \in Seq(Messages) /\ Append(hubq[n], Head(inbox[n])) \in Seq(Messages)
      BY <1>t, <3>1
    <3>3. CASE hubq' = hubq
      BY <1>t, <2>1, <3>1, <3>3
    <3>4. CASE hubq' = [hubq EXCEPT ![n] = Append(@, Head(inbox[n]))]
      BY <1>t, <2>1, <3>1, <3>2, <3>4
    <3> QED BY <2>1, <3>3, <3>4
  <2>3. ASSUME NEW c \in Clients
        PROVE  Flow(Rank, Sent, received[c], buf[c], hubq'[Home[c]], inbox'[Home[c]])
    <3>1. CASE Home[c] = n
      <4>1. Flow(Rank, Sent, received[c], buf[c], hubq[n], inbox[n])
        BY <1>f, <3>1
      <4>2. /\ Flow(Rank, Sent, received[c], buf[c], Append(hubq[n], Head(inbox[n])), Tail(inbox[n]))
            /\ Flow(Rank, Sent, received[c], buf[c], hubq[n], Tail(inbox[n]))
        BY <1>r, <2>1, <4>1, FlowForward
      <4> QED BY <2>2, <3>1, <4>2
    <3>2. CASE Home[c] # n
      BY <1>r, <1>f, <2>2, <3>2
    <3> QED BY <3>1, <3>2
  <2> QED BY <1>t, <1>k, <2>1, <2>2, <2>3
<1>6. ASSUME NEW n \in Nodes, NodeCrash(n) PROVE FlowInv'
  <2>1. /\ UNCHANGED <<published, received>>
        /\ buf' = [c \in Clients |-> IF Home[c] = n THEN <<>> ELSE buf[c]]
        /\ inbox' = [inbox EXCEPT ![n] = <<>>] /\ hubq' = [hubq EXCEPT ![n] = <<>>]
    BY <1>6 DEF NodeCrash, seen
  <2>2. /\ inbox' \in [Nodes -> Seq(Messages)] /\ hubq' \in [Nodes -> Seq(Messages)]
        /\ buf' \in [Clients -> Seq(Messages)]
    BY <1>t, <2>1
  <2>3. ASSUME NEW c \in Clients
        PROVE  Flow(Rank, Sent, received[c], buf'[c], hubq'[Home[c]], inbox'[Home[c]])
    <3>1. CASE Home[c] = n
      BY <1>r, <1>t, <1>f, <2>1, <3>1, FlowCut
    <3>2. CASE Home[c] # n
      BY <1>r, <1>t, <1>f, <2>1, <3>2
    <3> QED BY <3>1, <3>2
  <2> QED BY <1>t, <1>k, <2>1, <2>2, <2>3
<1> QED BY <1>1, <1>2, <1>3, <1>4, <1>5, <1>6, PublishStep
        DEF HubNext, hubVars, wires, seen, ClientStep, HubStep, Connect, Disconnect, AddClient,
            RemoveClient, DeletePresence

(* THEOREM: every connection sees messages in the order they were           *)
(* published, none twice, through full channels, lost envelopes and crashes.*)
THEOREM MessagesInOrder == HubSpec => []InPublishOrder
<1>1. FlowInv => InPublishOrder
  <2> SUFFICES ASSUME FlowInv, NEW c \in Clients, NEW i \in DOMAIN received[c],
                      NEW k \in DOMAIN received[c], i < k
               PROVE  Position(received[c][i]) < Position(received[c][k])
    BY DEF InPublishOrder
  <2>1. received[c][i] \in Sent /\ received[c][k] \in Sent
    BY DEF FlowInv, Flow, Elems
  <2>2. Rank[received[c][i]] < Rank[received[c][k]]
    BY DEF FlowInv, Flow, SortedBy
  <2> QED BY <2>1, <2>2, RankFacts
<1> QED BY <1>1, RegistryStart, RegistryStep, FlowStart, FlowStep, PTL DEF HubSpec

-----------------------------------------------------------------------------
(* Presence.  The counter in Redis follows the registered connections of a  *)
(* subscriber on all nodes together.                                        *)

Online(s) == {c \in Clients : c \in rooms[Home[c]] /\ SubOf[c] = s}
Count(s)  == Cardinality(Online(s))

PresenceTypes ==
    /\ present \in SUBSET Subscribers /\ count \in [Subscribers -> Int]
    /\ cleanup \in [Nodes -> Subscribers \cup {None}]
    /\ faults \in Nat

(* Until the first fault: the counter may be too low, because one node's    *)
(* HDEL takes another's increment with it, but never too high, so the last  *)
(* removal sees it at zero or below and deletes the field.                  *)
OfflineInv ==
    faults = 0 => \A s \in Subscribers :
        /\ count[s] <= Count(s)
        /\ Count(s) = 0 /\ (\A n \in Nodes : cleanup[n] # s) => s \notin present

(* On one node, without faults, it is exact, and nobody registers between   *)
(* the two commands of a removal.                                           *)
OnlineInv ==
    \A s \in Subscribers :
        /\ count[s] = Count(s)
        /\ Count(s) > 0 => s \in present
        /\ \A n \in Nodes : cleanup[n] = s => Count(s) = 0

LEMMA CountFacts ==
    \A s \in Subscribers : Count(s) \in Nat /\ IsFiniteSet(Online(s)) /\ (Count(s) = 0 <=> Online(s) = {})
BY ClientsAssumption, FS_Subset, FS_CardinalityType, FS_EmptySet DEF Online, Count

LEMMA ConnectedIsCounted ==
    ASSUME RegistryInv, NEW s \in Subscribers
    PROVE  Connected(s) <=> Count(s) > 0
<1>1. Connected(s) <=> Online(s) # {}
  BY ClientsAssumption DEF Connected, Online, RegistryInv, NoSendAfterClose
<1> QED BY <1>1, CountFacts

(* What a step of the registry does to the counts.                          *)
LEMMA AddCounts ==
    ASSUME RegistryInv, NEW c \in Clients, AddClient(c)
    PROVE  /\ SubOf[c] \in Subscribers /\ Home[c] \in Nodes /\ Count(SubOf[c])' = Count(SubOf[c]) + 1
           /\ \A s \in Subscribers \ {SubOf[c]} : Count(s)' = Count(s)
<1> DEFINE t == SubOf[c]
<1>1. /\ t \in Subscribers /\ Home[c] \in Nodes /\ c \notin rooms[Home[c]]
      /\ rooms' = [rooms EXCEPT ![Home[c]] = @ \cup {c}] /\ rooms \in [Nodes -> SUBSET Clients]
  BY ClientsAssumption DEF AddClient, Subscribers, RegistryInv, NoSendAfterClose
<1>2. Online(t)' = Online(t) \cup {c} /\ c \notin Online(t)
  BY <1>1, ClientsAssumption DEF Online
<1>3. Count(t)' = Count(t) + 1
  BY <1>1, <1>2, CountFacts, FS_AddElement DEF Count
<1>4. ASSUME NEW s \in Subscribers \ {t} PROVE Count(s)' = Count(s)
  <2>1. Online(s)' = Online(s)
    BY <1>1, ClientsAssumption DEF Online
  <2> QED BY <2>1 DEF Count
<1> QED BY <1>1, <1>3, <1>4

LEMMA RemoveCounts ==
    ASSUME RegistryInv, NEW c \in Clients, RemoveClient(c)
    PROVE  /\ SubOf[c] \in Subscribers /\ Home[c] \in Nodes /\ Count(SubOf[c])' = Count(SubOf[c]) - 1
           /\ \A s \in Subscribers \ {SubOf[c]} : Count(s)' = Count(s)
<1> DEFINE t == SubOf[c]
<1>1. /\ t \in Subscribers /\ Home[c] \in Nodes /\ c \in rooms[Home[c]]
      /\ rooms' = [rooms EXCEPT ![Home[c]] = @ \ {c}] /\ rooms \in [Nodes -> SUBSET Clients]
  BY ClientsAssumption DEF RemoveClient, Subscribers, RegistryInv
<1>2. Online(t)' = Online(t) \ {c} /\ c \in Online(t)
  BY <1>1, ClientsAssumption DEF Online
<1>3. Count(t)' = Count(t) - 1
  <2>1. Cardinality(Online(t) \ {c}) = Cardinality(Online(t)) - 1
    BY <1>1, <1>2, CountFacts, FS_RemoveElement
  <2> QED BY <1>2, <2>1 DEF Count
<1>4. ASSUME NEW s \in Subscribers \ {t} PROVE Count(s)' = Count(s)
  <2>1. Online(s)' = Online(s)
    BY <1>1, ClientsAssumption DEF Online
  <2> QED BY <2>1 DEF Count
<1> QED BY <1>1, <1>3, <1>4

LEMMA PresenceStart == HubInit => PresenceTypes /\ OfflineInv /\ OnlineInv
<1> SUFFICES ASSUME HubInit PROVE PresenceTypes /\ OfflineInv /\ OnlineInv
  OBVIOUS
<1>1. \A s \in Subscribers : Count(s) = 0
  <2>1. \A s \in Subscribers : Online(s) = {}
    BY ClientsAssumption DEF HubInit, Online
  <2> QED BY <2>1, CountFacts
<1> QED BY <1>1, NoneAssumption DEF HubInit, PresenceTypes, OfflineInv, OnlineInv

LEMMA PresenceStep ==
    ASSUME RegistryInv, PresenceTypes, [HubNext]_hubVars
    PROVE  /\ PresenceTypes' /\ (OfflineInv => OfflineInv')
           /\ MaxFaults = 0 /\ (\A m, n \in Nodes : m = n) /\ OnlineInv => OnlineInv'
<1> USE NoneAssumption, FaultAssumption DEF PresenceTypes, presence
<1> DEFINE Goal ==
      /\ PresenceTypes' /\ (OfflineInv => OfflineInv')
      /\ MaxFaults = 0 /\ (\A m, n \in Nodes : m = n) /\ OnlineInv => OnlineInv'
<1>f. Fault => faults' \in Nat /\ faults' # 0 /\ MaxFaults # 0
  BY DEF Fault
<1>k. ASSUME UNCHANGED rooms PROVE \A s \in Subscribers : Count(s)' = Count(s)
  BY <1>k DEF Count, Online
<1>q. ASSUME UNCHANGED <<rooms, cleanup, presence>>, UNCHANGED faults \/ Fault PROVE Goal
  BY <1>f, <1>k, <1>q DEF OfflineInv, OnlineInv
<1>1. ASSUME NEW c \in Clients, AddClient(c) PROVE Goal
  <2> DEFINE t == SubOf[c]
  <2>1. /\ t \in Subscribers /\ Home[c] \in Nodes /\ cleanup[Home[c]] = None /\ UNCHANGED cleanup
        /\ Count(t)' = Count(t) + 1 /\ \A s \in Subscribers \ {t} : Count(s)' = Count(s)
    BY <1>1, AddCounts DEF AddClient, Free
  <2>c. \A s \in Subscribers : Count(s) \in Nat
    BY CountFacts
  <2> HIDE DEF t
  <2>2. CASE /\ present' = present \cup {t} /\ count' = [count EXCEPT ![t] = @ + 1] /\ UNCHANGED faults
    <3>1. PresenceTypes'
      BY <2>1, <2>2
    <3>2. OfflineInv => OfflineInv'
      BY <2>1, <2>2, <2>c DEF OfflineInv
    <3>3. (\A m, n \in Nodes : m = n) /\ OnlineInv => OnlineInv'
      BY <2>1, <2>2, <2>c DEF OnlineInv
    <3> QED BY <3>1, <3>2, <3>3
  <2>3. CASE Fault /\ UNCHANGED presence
    BY <1>f, <2>1, <2>3 DEF OfflineInv
  <2> QED BY <1>1, <2>2, <2>3 DEF AddClient, t
<1>2. ASSUME NEW c \in Clients, RemoveClient(c) PROVE Goal
  <2> DEFINE t == SubOf[c]
             h == Home[c]
  <2>1. /\ t \in Subscribers /\ h \in Nodes /\ cleanup[h] = None
        /\ Count(t)' = Count(t) - 1 /\ \A s \in Subscribers \ {t} : Count(s)' = Count(s)
    BY <1>2, RemoveCounts DEF RemoveClient, Free
  <2>c. \A s \in Subscribers : Count(s) \in Nat /\ Count(s)' \in Nat
    <3>1. \A s \in Subscribers : Count(s) \in Nat
      BY CountFacts
    <3>2. \A s \in Subscribers : Count(s)' \in Nat
      BY ClientsAssumption, FS_Subset, FS_CardinalityType DEF Count, Online
    <3> QED BY <3>1, <3>2
  <2> HIDE DEF t, h
  <2>2. CASE /\ present' = present \cup {t} /\ count' = [count EXCEPT ![t] = @ - 1] /\ UNCHANGED faults
             /\ cleanup' = [cleanup EXCEPT ![h] = IF count[t] - 1 <= 0 THEN t ELSE None]
    <3>1. PresenceTypes'
      BY <2>1, <2>2
    <3>2. OfflineInv => OfflineInv'
      BY <2>1, <2>2, <2>c DEF OfflineInv
    <3>3. (\A m, n \in Nodes : m = n) /\ OnlineInv => OnlineInv'
      BY <2>1, <2>2, <2>c DEF OnlineInv
    <3> QED BY <3>1, <3>2, <3>3
  <2>3. CASE Fault /\ UNCHANGED cleanup
             /\ ((present' = present \cup {t} /\ count' = [count EXCEPT ![t] = @ - 1]) \/ UNCHANGED presence)
    BY <1>f, <2>1, <2>3 DEF OfflineInv
  <2> QED BY <1>2, <2>2, <2>3 DEF RemoveClient, t, h
<1>3. ASSUME NEW n \in Nodes, DeletePresence(n) PROVE Goal
  <2> DEFINE t == cleanup[n]
  <2>1. t \in Subscribers /\ cleanup' = [cleanup EXCEPT ![n] = None] /\ UNCHANGED rooms
    BY <1>3 DEF DeletePresence, Free
  <2>c. \A s \in Subscribers : Count(s) \in Nat /\ Count(s)' = Count(s)
    BY <1>k, <2>1, CountFacts
  <2> HIDE DEF t
  <2>2. CASE present' = present \ {t} /\ count' = [count EXCEPT ![t] = 0] /\ UNCHANGED faults
    <3>1. PresenceTypes'
      BY <2>1, <2>2
    <3>2. OfflineInv => OfflineInv'
      BY <2>1, <2>2, <2>c DEF OfflineInv, t
    <3>3. OnlineInv => OnlineInv'
      BY <2>1, <2>2, <2>c DEF OnlineInv, t
    <3> QED BY <3>1, <3>2, <3>3
  <2>3. CASE Fault /\ UNCHANGED presence
    BY <1>f, <2>1, <2>3 DEF OfflineInv
  <2> QED BY <1>3, <2>2, <2>3 DEF DeletePresence, t
<1>4. ASSUME NEW n \in Nodes, NodeCrash(n) PROVE Goal
  BY <1>f, <1>4 DEF NodeCrash, OfflineInv
<1> QED BY <1>q, <1>1, <1>2, <1>3, <1>4
        DEF HubNext, hubVars, ClientStep, HubStep, Connect, Disconnect, WriteMessage, AbandonBuffer,
            Deliver, Publish, Forward, LoseEnvelope

(* THEOREM: until the first fault, a subscriber whose last connection is    *)
(* gone is offline, on any number of nodes.                                 *)
THEOREM LastOneTurnsOff == HubSpec => []OfflineWhenAllGone
<1>1. RegistryInv /\ OfflineInv => OfflineWhenAllGone
  BY ConnectedIsCounted, CountFacts DEF OfflineInv, OfflineWhenAllGone
<1> QED BY <1>1, RegistryStart, RegistryStep, PresenceStart, PresenceStep, PTL DEF HubSpec

(* THEOREM: on one node and without faults, a connected subscriber is       *)
(* online.  On two nodes it is not: the run hub_presence_race shows why.    *)
THEOREM ConnectedIsOnline ==
    ASSUME MaxFaults = 0, \A m, n \in Nodes : m = n
    PROVE  HubSpec => []OnlineWhileConnected
<1>1. RegistryInv /\ OnlineInv => OnlineWhileConnected
  BY ConnectedIsCounted DEF OnlineInv, OnlineWhileConnected
<1>2. RegistryInv /\ PresenceTypes /\ OfflineInv /\ OnlineInv /\ [HubNext]_hubVars
        => PresenceTypes' /\ OfflineInv' /\ OnlineInv'
  BY PresenceStep
<1> QED BY <1>1, <1>2, RegistryStart, RegistryStep, PresenceStart, PTL DEF HubSpec
=============================================================================

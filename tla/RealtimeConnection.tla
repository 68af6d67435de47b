------------------------- MODULE RealtimeConnection -------------------------
(***************************************************************************)
(* The client's WebSocket (src/sdk/src/websocket.ts): reconnection with     *)
(* timers and an explicit close.  The events of its sockets and its timers  *)
(* run one at a time, in any order.  "Safe to call once": open is called    *)
(* once here.                                                               *)
(***************************************************************************)
EXTENDS Integers, FiniteSets

CONSTANT MaxSockets  \* bound on the sockets it makes

ASSUME SocketsAssumption == MaxSockets \in Nat \ {0}

Sockets == 1..MaxSockets

VARIABLES
    socket,      \* the state of each socket
    ws,          \* the number of the last one, 0 before open
    timers,      \* reconnect timers that have not fired
    closedByUser

realtimeVars == <<socket, ws, timers, closedByUser>>

RealtimeInit ==
    /\ socket = [i \in Sockets |-> "none"] /\ ws = 0
    /\ timers = 0 /\ closedByUser = FALSE

connect ==
    /\ ws < MaxSockets /\ ws' = ws + 1
    /\ socket' = [socket EXCEPT ![ws + 1] = "connecting"]

OpenOnce == ws = 0 /\ ~closedByUser /\ connect /\ UNCHANGED <<timers, closedByUser>>

onopen(i) ==
    /\ socket[i] = "connecting" /\ socket' = [socket EXCEPT ![i] = "open"]
    /\ UNCHANGED <<ws, timers, closedByUser>>

scheduleReconnect(i) == timers' = timers + 1

(* The socket ended: the server refused it, the network broke, or close().  *)
onclose(i) ==
    /\ socket[i] \in {"connecting", "open", "closing"}
    /\ socket' = [socket EXCEPT ![i] = "closed"]
    /\ IF closedByUser THEN UNCHANGED timers ELSE scheduleReconnect(i)
    /\ UNCHANGED <<ws, closedByUser>>

(* Mutant of TimerFires: closedByUser is not looked at again.               *)
TimerReconnects ==
    /\ timers > 0 /\ timers' = timers - 1 /\ connect
    /\ UNCHANGED closedByUser

TimerFires ==
    /\ timers > 0 /\ timers' = timers - 1
    /\ IF closedByUser THEN UNCHANGED <<socket, ws>> ELSE connect
    /\ UNCHANGED closedByUser

(* close(): the close event of the socket comes later.                      *)
Close ==
    /\ ws > 0 /\ closedByUser' = TRUE
    /\ socket' = [i \in Sockets |->
                    IF i = ws /\ socket[i] \in {"connecting", "open"} THEN "closing" ELSE socket[i]]
    /\ UNCHANGED <<ws, timers>>

RealtimeNext ==
    \/ OpenOnce \/ TimerFires \/ Close
    \/ \E i \in Sockets : onopen(i) \/ onclose(i)

RealtimeSpec == RealtimeInit /\ [][RealtimeNext]_realtimeVars

-----------------------------------------------------------------------------
Live == {i \in Sockets : socket[i] \in {"connecting", "open"}}

(* However often the connection breaks there is one socket, or one timer    *)
(* that will make it, and never two of them; and after close() nothing is   *)
(* left that works, and no timer set before brings the connection back.     *)
OneSocketOrTimer ==
    /\ Cardinality(Live) + timers <= 1
    /\ closedByUser => Live = {}
=============================================================================

---------------------------- MODULE Client_proofs ----------------------------
(***************************************************************************)
(* The TypeScript client: its repeated requests and its reconnecting       *)
(* socket, for every number of calls, retries and sockets.                 *)
(***************************************************************************)
EXTENDS SdkRequest, RealtimeConnection, FiniteSetTheorems, TLAPS

-----------------------------------------------------------------------------
(* Requests.                                                                *)

SdkTypeOK ==
    /\ call \in [Calls -> {"idle", "waiting", "sleeping", "resolved", "rejected"}]
    /\ attempt \in [Calls -> Nat] /\ wire \in [Calls -> Nat]
    /\ carried \in [Calls -> Nat] /\ errors5xx \in [Calls -> Nat]

(* What was or may still be carried out is covered by the 5xx received; a   *)
(* call that is about to be repeated has one of them to its credit.         *)
Covered(c) ==
    /\ carried[c] + wire[c] <= errors5xx[c] + 1
    /\ call[c] = "idle" => carried[c] + wire[c] = 0
    /\ call[c] = "sleeping" => carried[c] + wire[c] <= errors5xx[c]
    /\ call[c] = "resolved" => carried[c] >= 1

SdkInv == SdkTypeOK /\ \A c \in Calls : Covered(c)

(* Only a 5xx leads to another request, and it adds one to what is covered. *)
LEMMA SdkStep == SdkInv /\ [SdkNext]_sdkVars => SdkInv'
<1> SUFFICES ASSUME SdkInv, [SdkNext]_sdkVars PROVE SdkInv'
  OBVIOUS
<1> USE DEF SdkInv, SdkTypeOK
<1>1. CASE UNCHANGED sdkVars
  BY <1>1 DEF sdkVars, Covered
<1>2. ASSUME NEW c \in Calls, Fetch(c) PROVE SdkInv'
  <2>1. SdkTypeOK'
    BY <1>2 DEF Fetch, Becomes, Bump
  <2>2. \A d \in Calls : Covered(d)'
    BY <1>2 DEF Fetch, Becomes, Bump, Covered
  <2> QED BY <2>1, <2>2
<1>3. ASSUME NEW c \in Calls, ServerAnswers(c) PROVE SdkInv'
  <2>1. CASE Becomes(c, "resolved") /\ carried' = Bump(carried, c) /\ UNCHANGED <<attempt, errors5xx>>
    BY <1>3, <2>1 DEF ServerAnswers, Becomes, Bump, Covered
  <2>2. CASE Fails(c, "4xx") /\ UNCHANGED <<carried, errors5xx>>
    BY <1>3, <2>2 DEF ServerAnswers, Fails, Retryable, Becomes, Bump, Covered
  <2>3. CASE /\ Fails(c, "5xx") /\ errors5xx' = Bump(errors5xx, c)
             /\ carried' \in {carried, Bump(carried, c)}
    <3>1. SdkTypeOK'
      BY <1>3, <2>3 DEF ServerAnswers, Fails, Becomes, Bump
    <3>2. \A d \in Calls : Covered(d)'
      BY <1>3, <2>3, <3>1 DEF ServerAnswers, Fails, Becomes, Bump, Covered
    <3> QED BY <3>1, <3>2
  <2> QED BY <1>3, <2>1, <2>2, <2>3 DEF ServerAnswers
<1>4. ASSUME NEW c \in Calls, TimesOut(c) PROVE SdkInv'
  BY <1>4 DEF TimesOut, Fails, Retryable, Becomes, Bump, Covered
<1>5. ASSUME NEW c \in Calls, ServerLate(c) PROVE SdkInv'
  BY <1>5 DEF ServerLate, Bump, Covered
<1> QED BY <1>1, <1>2, <1>3, <1>4, <1>5 DEF SdkNext

(* THEOREM: a call is carried out twice only for a 5xx that was received,   *)
(* however slow the server is and whatever answers are lost.                *)
THEOREM RepeatsAreAnswered == SdkSpec => []DuplicatesComeFrom5xx
<1>1. SdkInit => SdkInv
  BY DEF SdkInit, SdkInv, SdkTypeOK, Covered
<1>2. SdkInv => DuplicatesComeFrom5xx
  BY DEF SdkInv, Covered, DuplicatesComeFrom5xx
<1> QED BY <1>1, <1>2, SdkStep, PTL DEF SdkSpec

-----------------------------------------------------------------------------
(* The connection.                                                          *)

(* Every socket but the last is done with; a timer runs only when that one  *)
(* is, too, and close() leaves it on its way out.                           *)
SocketInv ==
    /\ ws \in 0..MaxSockets /\ timers \in {0, 1} /\ closedByUser \in BOOLEAN
    /\ socket \in [Sockets -> {"none", "connecting", "open", "closing", "closed"}]
    /\ \A i \in Sockets : (i < ws => socket[i] = "closed") /\ (i > ws => socket[i] = "none")
    /\ timers = 1 => ws > 0 /\ socket[ws] = "closed"
    /\ closedByUser /\ ws > 0 => socket[ws] \notin {"connecting", "open"}
    /\ ~closedByUser /\ ws > 0 => socket[ws] # "closing"

(* The close event of a socket comes once, and only the last one's can.     *)
LEMMA SocketStep == SocketInv /\ [RealtimeNext]_realtimeVars => SocketInv'
<1> SUFFICES ASSUME SocketInv, [RealtimeNext]_realtimeVars PROVE SocketInv'
  OBVIOUS
<1> USE SocketsAssumption DEF SocketInv, Sockets
<1>1. CASE UNCHANGED realtimeVars
  BY <1>1 DEF realtimeVars
<1>2. CASE OpenOnce
  BY <1>2 DEF OpenOnce, connect
<1>3. CASE TimerFires
  BY <1>3 DEF TimerFires, connect
<1>4. CASE Close
  BY <1>4 DEF Close
<1>5. ASSUME NEW i \in Sockets, onopen(i) PROVE SocketInv'
  BY <1>5 DEF onopen
<1>6. ASSUME NEW i \in Sockets, onclose(i) PROVE SocketInv'
  <2>1. i = ws /\ timers = 0
    BY <1>6 DEF onclose
  <2> QED BY <1>6, <2>1 DEF onclose, scheduleReconnect
<1> QED BY <1>1, <1>2, <1>3, <1>4, <1>5, <1>6 DEF RealtimeNext

LEMMA SocketStart == RealtimeInit => SocketInv
<1> SUFFICES ASSUME RealtimeInit PROVE SocketInv
  OBVIOUS
<1> USE SocketsAssumption DEF RealtimeInit, Sockets
<1>1. ws \in 0..MaxSockets /\ ~(ws > 0) /\ timers \in {0, 1} /\ ~(timers = 1)
  OBVIOUS
<1>2. closedByUser \in BOOLEAN
  BY ZenonT(10)
<1>3. socket \in [Sockets -> {"none", "connecting", "open", "closing", "closed"}]
  OBVIOUS
<1>4. \A i \in Sockets : ~(i < ws) /\ socket[i] = "none"
  OBVIOUS
<1> QED BY <1>1, <1>2, <1>3, <1>4 DEF SocketInv

(* Only the last socket can be live, and none is while a timer runs.        *)
LEMMA LiveIsLast == SocketInv => OneSocketOrTimer
<1> SUFFICES ASSUME SocketInv PROVE OneSocketOrTimer
  OBVIOUS
<1>1. Live = {} \/ (Live = {ws} /\ timers = 0 /\ ~closedByUser)
  BY SocketsAssumption DEF SocketInv, Sockets, Live
<1>2. Cardinality({}) = 0 /\ Cardinality({ws}) = 1
  BY FS_EmptySet, FS_Singleton
<1>3. timers \in {0, 1}
  BY DEF SocketInv
<1> QED BY <1>1, <1>2, <1>3 DEF OneSocketOrTimer

(* THEOREM: there is one socket or one timer, never two of them, and after  *)
(* close() no socket works and no timer brings one back.                    *)
THEOREM AtMostOneSocket == RealtimeSpec => []OneSocketOrTimer
BY SocketStart, SocketStep, LiveIsLast, PTL DEF RealtimeSpec
=============================================================================

---------------------- MODULE NotificationService_proofs ----------------------
(***************************************************************************)
(* Proofs about NotificationService for any requests, any limit, any       *)
(* number of attempts and of handlers at the same time.  The first part    *)
(* assumes nothing of the store and the workers: any statement may fail,   *)
(* any process may die.  The parts after it say what each assumes.         *)
(***************************************************************************)
EXTENDS NotificationService, FiniteSetTheorems, TLAPS

(* A delivery is a notification and a position in its request.              *)
LEMMA DeliveryFacts ==
    /\ \A d \in Deliveries :
         d = <<d[1], d[2]>> /\ d[1] \in Notifs /\ d[2] \in DOMAIN Requested[d[1]] /\ d[2] \in Nat \ {0}
    /\ \A n \in Notifs : \A i \in DOMAIN Requested[n] : <<n, i>> \in Deliveries
BY RequestedAssumption DEF Deliveries

LEMMA OfFacts == \A n \in Notifs, d \in Deliveries : d \in Of(n) <=> d[1] = n
BY DEF Of

-----------------------------------------------------------------------------
(* The inductive invariant behind AcceptedOnce, AcceptedMeansQueued and     *)
(* DeliveredIsFinal.                                                        *)

Types ==
    /\ send \in [Notifs -> {"new", "insert", "row", "job", "accepted", "rejected"}]
    /\ next \in [Notifs -> Nat \ {0}]
    /\ usage \in Nat
    /\ status \in [Notifs -> {"none", "queued", "sent", "delivered", "failed", "partial"}]
    /\ row \in [Deliveries -> {"none", "pending", "delivered", "failed"}]
    /\ phase \in [Deliveries ->
         {"new", "ready", "waiting", "promoting", "running", "done", "dead", "lost"}]
    /\ calls \in [Deliveries -> Nat]
    /\ handler \in [Deliveries ->
         {"idle", "load", "call", "mark", "list", "write", "hook", "return"}]
    /\ outcome \in [Deliveries ->
         {"none", "unread", "nosub", "success", "soft", "gone", "error"}]
    /\ seen \in [Deliveries -> {"none", "sent", "delivered", "failed", "partial"}]
    /\ accepted \in [Deliveries -> Nat]

(* A job is running exactly while a handler has it.                         *)
HandlerRunsJob(d) == handler[d] # "idle" <=> phase[d] = "running"

(* A job is in the queue only when its row is in the store, and a row is    *)
(* there only for a channel the service knows.                              *)
RowBeforeJob(d) == phase[d] # "new" => row[d] # "none"
RowIsKnown(d)   == row[d] # "none" => Requested[d[1]][d[2]] \in KnownChannels

(* An acceptance is known to the one handler that has the job until the job *)
(* has left the queue for good, ...                                         *)
AcceptanceKept(d) ==
    \/ accepted[d] = 0
    \/ /\ accepted[d] = 1
       /\ \/ phase[d] \in {"done", "lost"}
          \/ /\ handler[d] \in {"mark", "list", "write", "hook", "return"}
             /\ outcome[d] = "success"

(* ... and a handler and a row say so only after one.                       *)
DeliveredWasAccepted(d) ==
    outcome[d] = "success" \/ row[d] = "delivered" => accepted[d] = 1

(* The loop of Send has written nothing for the channels ahead of it, and   *)
(* row and job for every known one behind it.                               *)
LoopAhead(d) ==
    send[d[1]] \in {"new", "insert", "row", "job"} /\ d[2] >= next[d[1]] =>
        /\ phase[d] = "new"
        /\ row[d] = "none" \/ (send[d[1]] = "job" /\ d[2] = next[d[1]])
LoopBehind(d) ==
    d[2] < next[d[1]] /\ Requested[d[1]][d[2]] \in KnownChannels =>
        row[d] # "none" /\ phase[d] # "new"

LoopHere(n) ==
    /\ send[n] \in {"new", "insert"} => next[n] = 1
    /\ send[n] = "job" => Here(n) \in Deliveries /\ row[Here(n)] # "none"
    /\ send[n] = "accepted" => next[n] \notin DOMAIN Requested[n]

DeliveryInv(d) ==
    /\ HandlerRunsJob(d) /\ RowBeforeJob(d) /\ RowIsKnown(d)
    /\ AcceptanceKept(d) /\ DeliveredWasAccepted(d)
    /\ LoopAhead(d) /\ LoopBehind(d)

Inductive ==
    /\ Types
    /\ \A d \in Deliveries : DeliveryInv(d)
    /\ \A n \in Notifs : LoopHere(n)

LEMMA Start == Init => Inductive
<1> SUFFICES ASSUME Init PROVE Inductive
  OBVIOUS
<1> USE DEF Init, Queue!Init
<1>1. Types
  BY DEF Types
<1>2. \A d \in Deliveries : DeliveryInv(d)
  BY DeliveryFacts
     DEF DeliveryInv, HandlerRunsJob, RowBeforeJob, RowIsKnown, AcceptanceKept, DeliveredWasAccepted,
         LoopAhead, LoopBehind
<1>3. \A n \in Notifs : LoopHere(n)
  BY DEF LoopHere
<1> QED BY <1>1, <1>2, <1>3 DEF Inductive

(* What the status of a notification is computed to is a status.            *)
LEMMA AggregateType ==
    ASSUME Types, NEW d \in Deliveries, row[d] # "none"
    PROVE  Aggregate(d[1]) \in {"sent", "delivered", "failed", "partial"}
<1>1. row[d] \in Statuses(d[1])
  BY OfFacts, DeliveryFacts DEF Statuses
<1>2. Statuses(d[1]) \subseteq {"pending", "delivered", "failed"}
  BY DEF Statuses, Of, Types
<1>3. \/ "pending" \in Statuses(d[1]) \/ Statuses(d[1]) = {"delivered"}
      \/ Statuses(d[1]) = {"failed"} \/ Statuses(d[1]) = {"delivered", "failed"}
  BY <1>1, <1>2
<1> QED BY <1>3 DEF Aggregate

(* The steps of Send.                                                       *)
LEMMA SendKeeps ==
    ASSUME Inductive, NEW n \in Notifs, SendStep(n)
    PROVE  Inductive'
<1> USE DEF Inductive
<1>f. Here(n) = <<n, next[n]>> /\ Here(n)[1] = n /\ Here(n)[2] = next[n]
  BY DEF Here
<1> USE DEF DeliveryInv, HandlerRunsJob, RowBeforeJob, RowIsKnown, AcceptanceKept, DeliveredWasAccepted,
         LoopAhead, LoopBehind, LoopHere, Goto, store, queue, local, outside
<1>1. CASE CheckLimit(n)
  <2>1. Types'
    BY <1>1 DEF CheckLimit, Types
  <2>2. ASSUME NEW d \in Deliveries PROVE DeliveryInv(d)'
    BY <1>1, DeliveryFacts DEF CheckLimit, Types
  <2>3. ASSUME NEW m \in Notifs PROVE LoopHere(m)'
    BY <1>1 DEF CheckLimit, Types, Here
  <2> QED BY <2>1, <2>2, <2>3
<1>2. CASE Invalid(n)
  <2>1. Types'
    BY <1>2 DEF Invalid, Types
  <2>2. ASSUME NEW d \in Deliveries PROVE DeliveryInv(d)'
    BY <1>2, DeliveryFacts DEF Invalid, Types
  <2>3. ASSUME NEW m \in Notifs PROVE LoopHere(m)'
    BY <1>2 DEF Invalid, Types, Here
  <2> QED BY <2>1, <2>2, <2>3
<1>3. CASE CreateNotification(n)
  <2>1. Types'
    BY <1>3 DEF CreateNotification, Types
  <2>2. ASSUME NEW d \in Deliveries PROVE DeliveryInv(d)'
    BY <1>3, DeliveryFacts DEF CreateNotification, Types
  <2>3. ASSUME NEW m \in Notifs PROVE LoopHere(m)'
    BY <1>3 DEF CreateNotification, Types, Here
  <2> QED BY <2>1, <2>2, <2>3
<1>4. CASE SkipChannel(n)
  <2>1. Types'
    BY <1>4 DEF SkipChannel, Types
  <2>2. ASSUME NEW d \in Deliveries PROVE DeliveryInv(d)'
    <3>1. UNCHANGED <<send, row, phase, handler, outcome, accepted>>
      BY <1>4 DEF SkipChannel
    <3>2. next'[d[1]] = next[d[1]] \/ (d[1] = n /\ next'[n] = next[n] + 1)
      BY <1>4 DEF SkipChannel, Types
    <3>3. LoopAhead(d)'
      BY <1>4, <3>1, <3>2, DeliveryFacts DEF SkipChannel, Types
    <3>4. LoopBehind(d)'
      <4> SUFFICES ASSUME d[2] < next'[d[1]], Requested[d[1]][d[2]] \in KnownChannels
                   PROVE  d[2] < next[d[1]]
        BY <3>1
      <4>1. d[1] = n => d[2] # next[n]
        BY <1>4 DEF SkipChannel
      <4>2. d[2] \in Nat /\ next[d[1]] \in Nat
        BY DeliveryFacts DEF Types
      <4> QED BY <3>2, <4>1, <4>2
    <3> QED BY <3>1, <3>3, <3>4
  <2>3. ASSUME NEW m \in Notifs PROVE LoopHere(m)'
    BY <1>4 DEF SkipChannel, Types, Here
  <2> QED BY <2>1, <2>2, <2>3
<1>5. CASE CreateDelivery(n)
  <2>0. Here(n) \in Deliveries
    BY <1>5, DeliveryFacts DEF CreateDelivery, Here
  <2>n. row[Here(n)] = "none" /\ phase[Here(n)] = "new"
    BY <1>5, <1>f, <2>0 DEF CreateDelivery, Types
  <2>1. Types'
    BY <1>5 DEF CreateDelivery, Types
  <2>2. ASSUME NEW d \in Deliveries PROVE DeliveryInv(d)'
    <3>1. CASE d = Here(n)
      BY <1>5, <1>f, <2>0, <2>n, <3>1, DeliveryFacts DEF CreateDelivery, Types
    <3>2. CASE d # Here(n)
      <4>1. row'[d] = row[d] /\ phase'[d] = phase[d]
        BY <1>5, <3>2 DEF CreateDelivery, Types
      <4>2. ~(d[1] = n /\ d[2] = next[n])
        BY <1>f, <3>2, DeliveryFacts DEF Here
      <4>3. UNCHANGED <<handler, outcome, accepted>>
        BY <1>5 DEF CreateDelivery
      <4>4. LoopAhead(d)' /\ LoopBehind(d)'
        BY <1>5, <4>1, <4>2, DeliveryFacts DEF CreateDelivery, Types
      <4> QED BY <4>1, <4>3, <4>4
    <3> QED BY <3>1, <3>2
  <2>3. ASSUME NEW m \in Notifs PROVE LoopHere(m)'
    <3>1. CASE m = n
      BY <1>5, <1>f, <2>0, <3>1 DEF CreateDelivery, Types, Here
    <3>2. CASE m # n
      <4>1. Here(m)' = Here(m) /\ Here(m)[1] = m /\ Here(n)[1] = n
        BY <1>5 DEF CreateDelivery, Here
      <4>2. send'[m] = send[m] /\ next'[m] = next[m]
        BY <1>5, <3>2 DEF CreateDelivery, Types
      <4>3. Here(m) \in Deliveries => row'[Here(m)] = row[Here(m)]
        BY <1>5, <3>2, <4>1 DEF CreateDelivery, Types
      <4> QED BY <4>1, <4>2, <4>3
    <3> QED BY <3>1, <3>2
  <2> QED BY <2>1, <2>2, <2>3
<1>6. CASE EnqueueJob(n)
  <2> USE DEF Queue!Send, Queue!Move
  <2>0. Here(n) \in Deliveries /\ row[Here(n)] # "none" /\ phase[Here(n)] = "new"
    BY <1>6, <1>f DEF EnqueueJob, Types
  <2>1. Types'
    BY <1>6 DEF EnqueueJob, Types
  <2>2. ASSUME NEW d \in Deliveries PROVE DeliveryInv(d)'
    <3>1. CASE d = Here(n)
      <4>1. UNCHANGED <<row, handler, outcome, accepted>>
        BY <1>6 DEF EnqueueJob
      <4>2. /\ phase'[d] \in {"new", "ready", "waiting"}
            /\ send'[n] = "row" => phase'[d] # "new" /\ next'[n] = next[n] + 1
            /\ send'[n] = "row" \/ send'[n] = "rejected"
        BY <1>6, <2>0, <3>1 DEF EnqueueJob, Types
      <4>3. LoopAhead(d)' /\ LoopBehind(d)'
        BY <1>6, <1>f, <2>0, <3>1, <4>2, DeliveryFacts DEF EnqueueJob, Types
      <4> QED BY <2>0, <3>1, <4>1, <4>2, <4>3
    <3>2. CASE d # Here(n)
      <4>1. row'[d] = row[d] /\ phase'[d] = phase[d]
        BY <1>6, <3>2 DEF EnqueueJob, Types
      <4>2. ~(d[1] = n /\ d[2] = next[n])
        BY <1>f, <3>2, DeliveryFacts DEF Here
      <4>3. UNCHANGED <<handler, outcome, accepted>>
        BY <1>6 DEF EnqueueJob
      <4>4. LoopAhead(d)' /\ LoopBehind(d)'
        <5>1. CASE d[1] = n
          <6>1. \/ send'[n] = "row" /\ next'[n] = next[n] + 1
                \/ send'[n] = "rejected" /\ next'[n] = next[n]
            BY <1>6 DEF EnqueueJob, Types
          <6>2. send[n] = "job" /\ next[n] \in Nat /\ d[2] \in Nat /\ d[2] # next[n]
            BY <1>6, <4>2, <5>1, DeliveryFacts DEF EnqueueJob, Types
          <6> QED BY <4>1, <5>1, <6>1, <6>2
        <5>2. CASE d[1] # n
          <6>1. send'[d[1]] = send[d[1]] /\ next'[d[1]] = next[d[1]]
            BY <1>6, <5>2, DeliveryFacts DEF EnqueueJob, Types
          <6> QED BY <4>1, <5>2, <6>1
        <5> QED BY <5>1, <5>2
      <4> QED BY <4>1, <4>3, <4>4
    <3> QED BY <3>1, <3>2
  <2>3. ASSUME NEW m \in Notifs PROVE LoopHere(m)'
    BY <1>6, <2>0 DEF EnqueueJob, Types, Here
  <2> QED BY <2>1, <2>2, <2>3
<1>7. CASE CountUsage(n)
  <2>1. Types'
    BY <1>7 DEF CountUsage, Types
  <2>2. ASSUME NEW d \in Deliveries PROVE DeliveryInv(d)'
    BY <1>7, DeliveryFacts DEF CountUsage, Types
  <2>3. ASSUME NEW m \in Notifs PROVE LoopHere(m)'
    BY <1>7 DEF CountUsage, Types, Here
  <2> QED BY <2>1, <2>2, <2>3
<1>8. CASE Abandon(n)
  <2>1. Types'
    BY <1>8 DEF Abandon, Types
  <2>2. ASSUME NEW d \in Deliveries PROVE DeliveryInv(d)'
    BY <1>8, DeliveryFacts DEF Abandon, Types
  <2>3. ASSUME NEW m \in Notifs PROVE LoopHere(m)'
    BY <1>8 DEF Abandon, Types, Here
  <2> QED BY <2>1, <2>2, <2>3
<1> QED BY <1>1, <1>2, <1>3, <1>4, <1>5, <1>6, <1>7, <1>8 DEF SendStep

(* A step on a job in the queue need only be looked at for that job.        *)
LEMMA JobStep ==
    ASSUME Inductive, NEW d \in Deliveries, phase[d] # "new",
           Types', UNCHANGED <<send, next>>,
           \A e \in Deliveries \ {d} :
             /\ row'[e] = row[e] /\ phase'[e] = phase[e] /\ handler'[e] = handler[e]
             /\ outcome'[e] = outcome[e] /\ accepted'[e] = accepted[e],
           phase'[d] # "new", row'[d] # "none",
           HandlerRunsJob(d)', AcceptanceKept(d)', DeliveredWasAccepted(d)'
    PROVE  Inductive'
<1>1. ASSUME NEW e \in Deliveries PROVE DeliveryInv(e)'
  <2>1. CASE e = d
    BY <2>1 DEF Inductive, DeliveryInv, RowBeforeJob, RowIsKnown, LoopAhead, LoopBehind
  <2>2. CASE e # d
    BY <2>2 DEF Inductive, DeliveryInv, HandlerRunsJob, RowBeforeJob, RowIsKnown, AcceptanceKept,
                DeliveredWasAccepted, LoopAhead, LoopBehind
  <2> QED BY <2>1, <2>2
<1>2. ASSUME NEW m \in Notifs PROVE LoopHere(m)'
  <2>1. Here(m)' = Here(m)
    BY DEF Here
  <2> QED BY <2>1 DEF Inductive, LoopHere
<1> QED BY <1>1, <1>2 DEF Inductive

(* The steps of the queue and of HandleDelivery.                            *)
LEMMA HandlerKeeps ==
    ASSUME Inductive, NEW d \in Deliveries, QueueStep(d) \/ HandlerStep(d)
    PROVE  Inductive'
<1> USE DEF HandlerRunsJob, AcceptanceKept, DeliveredWasAccepted, Step,
            api, store, queue, local, outside, Queue!Move
<1>0. /\ Types /\ HandlerRunsJob(d) /\ AcceptanceKept(d) /\ DeliveredWasAccepted(d)
      /\ phase[d] # "new" => row[d] # "none"
  BY DEF Inductive, DeliveryInv, RowBeforeJob
<1>1. CASE Queue!Claim(d) /\ QueueStep(d)
  <2>1. Types'
    BY <1>0, <1>1 DEF QueueStep, Queue!Claim, Types
  <2> QED BY <1>0, <1>1, <2>1, JobStep DEF QueueStep, Queue!Claim, Types
<1>2. CASE Queue!Promote(d) /\ QueueStep(d)
  <2>1. Types'
    BY <1>0, <1>2 DEF QueueStep, Queue!Promote, Types
  <2> QED BY <1>0, <1>2, <2>1, JobStep DEF QueueStep, Queue!Promote, Types
<1>3. CASE TakeJob(d)
  <2>1. Types'
    BY <1>0, <1>3 DEF TakeJob, Queue!Begin, Types
  <2> QED BY <1>0, <1>3, <2>1, JobStep DEF TakeJob, Queue!Begin, Types
<1>4. CASE Load(d)
  <2>1. Types'
    BY <1>0, <1>4 DEF Load, Types
  <2> QED BY <1>0, <1>4, <2>1, JobStep DEF Load, Types
<1>5. CASE CallProvider(d)
  <2>1. Types'
    BY <1>0, <1>5 DEF CallProvider, Types
  <2> QED BY <1>0, <1>5, <2>1, JobStep DEF CallProvider, Types
<1>6. CASE MarkDeliveryResult(d)
  <2>1. Types'
    BY <1>0, <1>6 DEF MarkDeliveryResult, Types
  <2> QED BY <1>0, <1>6, <2>1, JobStep DEF MarkDeliveryResult, Types
<1>7. CASE ListDeliveries(d)
  <2>1. row[d] # "none"
    BY <1>0, <1>7 DEF ListDeliveries
  <2>2. Types'
    BY <1>0, <1>7, <2>1, AggregateType DEF ListDeliveries, Types
  <2> QED BY <1>0, <1>7, <2>2, JobStep DEF ListDeliveries, Types
<1>8. CASE UpdateNotificationStatus(d)
  <2>2. Types'
    BY <1>0, <1>8 DEF UpdateNotificationStatus, Types
  <2> QED BY <1>0, <1>8, <2>2, JobStep DEF UpdateNotificationStatus, Types
<1>9. CASE FireWebhook(d)
  <2>1. Types'
    BY <1>0, <1>9 DEF FireWebhook, Types
  <2>2. /\ UNCHANGED <<send, next, row, phase, outcome, accepted>>
        /\ handler[d] = "hook" /\ handler' = [handler EXCEPT ![d] = "return"]
    BY <1>9 DEF FireWebhook
  <2> QED BY <1>0, <2>1, <2>2, JobStep DEF Types
<1>10. CASE ReturnToQueue(d)
  <2>1. phase[d] = "running" /\ \E to \in {"waiting", "dead", "done"} :
           /\ phase' = [phase EXCEPT ![d] = to]
           /\ to = "done" \/ Retryable(d)
    BY <1>0, <1>10 DEF ReturnToQueue, Queue!Retry, Queue!GiveUp, Queue!Succeed
  <2>2. UNCHANGED calls
    BY <1>10 DEF ReturnToQueue, Queue!Retry, Queue!GiveUp, Queue!Succeed
  <2>3. Types'
    BY <1>0, <1>10, <2>1, <2>2 DEF ReturnToQueue, Types
  <2> QED BY <1>0, <1>10, <2>1, <2>3, JobStep DEF ReturnToQueue, Retryable, Types
<1> QED BY <1>1, <1>2, <1>3, <1>4, <1>5, <1>6, <1>7, <1>8, <1>9, <1>10 DEF QueueStep, HandlerStep

(* The death of a worker process.                                           *)
LEMMA CrashKeeps ==
    ASSUME Inductive, NEW S \in SUBSET Deliveries, WorkerCrash(S)
    PROVE  Inductive'
<1> USE DEF WorkerCrash, Queue!Lose, api, store, outside
<1>1. Types'
  BY DEF Inductive, Types
<1>2. ASSUME NEW e \in Deliveries PROVE DeliveryInv(e)'
  BY DEF Inductive, Types, DeliveryInv, HandlerRunsJob, RowBeforeJob, RowIsKnown, AcceptanceKept,
         DeliveredWasAccepted, LoopAhead, LoopBehind
<1>3. ASSUME NEW m \in Notifs PROVE LoopHere(m)'
  BY DEF Inductive, LoopHere, Here
<1> QED BY <1>1, <1>2, <1>3 DEF Inductive

LEMMA StepKeeps == Inductive /\ [Next]_vars => Inductive'
<1> SUFFICES ASSUME Inductive, [Next]_vars PROVE Inductive'
  OBVIOUS
<1>1. CASE UNCHANGED vars
  BY <1>1 DEF vars, api, store, queue, local, outside, Inductive, Types, DeliveryInv,
     HandlerRunsJob, RowBeforeJob, RowIsKnown, AcceptanceKept, DeliveredWasAccepted, LoopAhead, LoopBehind,
     LoopHere, Here
<1>2. CASE Next
  BY <1>2, SendKeeps, HandlerKeeps, CrashKeeps DEF Next
<1> QED BY <1>1, <1>2

LEMMA Inv == Spec => []Inductive
BY Start, StepKeeps, PTL DEF Spec

(* THEOREM: whatever fails or crashes, a delivery whose acceptance reached  *)
(* a handler is never handed to its provider again.                         *)
THEOREM NeverAcceptedTwice == Spec => []AcceptedOnce
<1>1. Inductive => AcceptedOnce
  BY DEF Inductive, DeliveryInv, HandlerRunsJob, AcceptanceKept, AcceptedOnce
<1> QED BY <1>1, Inv, PTL

(* THEOREM: a request answered with success has its row and its job for     *)
(* every known channel, whatever failed on the way.                         *)
THEOREM SuccessMeansQueued == Spec => []AcceptedMeansQueued
<1>1. Inductive => AcceptedMeansQueued
  <2> SUFFICES ASSUME Inductive, NEW n \in Notifs, send[n] = "accepted", NEW d \in Of(n),
                      Requested[n][d[2]] \in KnownChannels
               PROVE  row[d] # "none" /\ phase[d] # "new"
    BY DEF AcceptedMeansQueued
  <2>1. d \in Deliveries /\ d[1] = n
    BY DEF Of
  <2>2. d[2] < next[n]
    BY <2>1, DeliveryFacts, RequestedAssumption DEF Inductive, LoopHere, Types
  <2> QED BY <2>1, <2>2 DEF Inductive, DeliveryInv, LoopBehind
<1> QED BY <1>1, Inv, PTL

(* THEOREM: no step takes back the record that a delivery was delivered.    *)
THEOREM DeliveredStays == Spec => DeliveredIsFinal
<1>1. ASSUME Inductive, Inductive', [Next]_vars, NEW d \in Deliveries, row[d] = "delivered"
      PROVE  row'[d] = "delivered"
  <2>1. CASE UNCHANGED vars
    BY <1>1, <2>1 DEF vars, store
  <2>2. ASSUME NEW n \in Notifs, SendStep(n) PROVE row'[d] = "delivered"
    <3>1. CASE CreateDelivery(n)
      <4>1. row[<<n, next[n]>>] = "none"
        <5>1. <<n, next[n]>> \in Deliveries
          BY <3>1, DeliveryFacts DEF CreateDelivery
        <5> QED BY <1>1, <3>1, <5>1 DEF CreateDelivery, Inductive, DeliveryInv, LoopAhead, Types
      <4>2. d # <<n, next[n]>>
        BY <1>1, <4>1
      <4>3. row' = row \/ row' = [row EXCEPT ![<<n, next[n]>>] = "pending"]
        BY <3>1 DEF CreateDelivery, Here
      <4>4. DOMAIN row = Deliveries
        BY <1>1 DEF Inductive, Types
      <4> QED BY <1>1, <4>2, <4>3, <4>4
    <3> QED BY <1>1, <2>2, <3>1 DEF SendStep, CheckLimit, Invalid, CreateNotification, SkipChannel,
               EnqueueJob, CountUsage, Abandon, store
  <2>3. ASSUME NEW e \in Deliveries, QueueStep(e) \/ HandlerStep(e) PROVE row'[d] = "delivered"
    <3>1. CASE MarkDeliveryResult(e)
      <4>1. e = d => outcome[d] = "success"
        BY <1>1, <3>1 DEF MarkDeliveryResult, Step, Inductive, DeliveryInv, DeliveredWasAccepted,
                          AcceptanceKept, HandlerRunsJob
      <4> QED BY <1>1, <3>1, <4>1 DEF MarkDeliveryResult, Inductive, Types
    <3> QED BY <1>1, <2>3, <3>1 DEF QueueStep, HandlerStep, TakeJob, Load, CallProvider,
               ListDeliveries, UpdateNotificationStatus, FireWebhook, ReturnToQueue, store
  <2>4. ASSUME NEW S \in SUBSET Deliveries, WorkerCrash(S) PROVE row'[d] = "delivered"
    BY <1>1, <2>4 DEF WorkerCrash, store
  <2> QED BY <1>1, <2>1, <2>2, <2>3, <2>4 DEF Next
<1>2. Inductive /\ Inductive' /\ [Next]_vars
        => [\A d \in Deliveries : row[d] = "delivered" => row'[d] = "delivered"]_vars
  BY <1>1
<1> QED BY <1>2, Inv, PTL DEF Spec, DeliveredIsFinal

-----------------------------------------------------------------------------
(* While no store statement fails: what a handler saw of its attempt is     *)
(* what it records, what the queue sees and what the webhook tells.         *)

(* What the row says once the attempt is recorded, and when the job is out  *)
(* of the queue.                                                            *)
RowRecords(d) ==
    /\ handler[d] \in {"mark", "list", "write", "hook", "return"} =>
         outcome[d] \in {"success", "soft", "gone", "error"}
    /\ handler[d] \in {"list", "write", "hook", "return"} =>
         row[d] = IF outcome[d] = "success" THEN "delivered" ELSE "failed"
    /\ phase[d] = "done" => row[d] \in {"delivered", "failed"}
    /\ phase[d] = "dead" => row[d] = "failed"

(* An event `delivered' is the last one, tells of the row as it is, and is  *)
(* fired by a handler that then only returns.                               *)
HooksTell(d) ==
    /\ hooks[d] \in Seq({"delivered", "failed"})
    /\ \A i \in DOMAIN hooks[d] : hooks[d][i] = "delivered" =>
         i = Len(hooks[d]) /\ row[d] = "delivered" /\ handler[d] \in {"idle", "return"}
    /\ handler[d] = "return" /\ outcome[d] \in {"success", "soft", "error"} =>
         hooks[d] # <<>> /\ hooks[d][Len(hooks[d])] = row[d]

RecordInv == \A d \in Deliveries : RowRecords(d) /\ HooksTell(d)
RecordType == hooks \in [Deliveries -> Seq({"delivered", "failed"})]

LEMMA RecordStart == Init => RecordType /\ RecordInv
BY DEF Init, Queue!Init, RecordInv, RecordType, RowRecords, HooksTell

(* Steps that leave rows of known jobs, handlers and events alone.          *)
LEMMA RecordFrame ==
    ASSUME RecordType, RecordInv, Inductive, UNCHANGED <<handler, outcome, hooks>>,
           \A d \in Deliveries : phase[d] # "new" => row'[d] = row[d],
           \A d \in Deliveries : phase'[d] = phase[d] \/ phase'[d] \notin {"done", "dead"}
    PROVE  RecordType' /\ RecordInv'
<1>1. ASSUME NEW d \in Deliveries PROVE RowRecords(d)' /\ HooksTell(d)'
  <2>1. CASE phase[d] = "new"
    <3>1. handler[d] = "idle" /\ row[d] # "delivered"
      BY <2>1 DEF Inductive, DeliveryInv, HandlerRunsJob, DeliveredWasAccepted, AcceptanceKept, Types
    <3> QED BY <2>1, <3>1 DEF RecordInv, RowRecords, HooksTell
  <2>2. CASE phase[d] # "new"
    BY <2>2 DEF RecordInv, RowRecords, HooksTell
  <2> QED BY <2>1, <2>2
<1> QED BY <1>1 DEF RecordInv, RecordType

LEMMA RecordStep ==
    ASSUME StoreFails = FALSE, Inductive, RecordType, RecordInv, [Next]_vars
    PROVE  RecordType' /\ RecordInv'
<1>t. Types /\ \A d \in Deliveries : DeliveryInv(d) /\ RowRecords(d) /\ HooksTell(d)
  BY DEF Inductive, RecordInv
<1> USE DEF api, store, queue, local, outside
<1>1. CASE UNCHANGED vars
  BY <1>1, RecordFrame DEF vars
<1>2. ASSUME NEW n \in Notifs, SendStep(n) PROVE RecordType' /\ RecordInv'
  <2>1. CASE CreateDelivery(n)
    <3>1. <<n, next[n]>> \in Deliveries /\ phase[<<n, next[n]>>] = "new"
      BY <1>t, <2>1, DeliveryFacts DEF CreateDelivery, DeliveryInv, LoopAhead, Types
    <3> QED BY <1>t, <2>1, <3>1, RecordFrame DEF CreateDelivery, Here, Types
  <2>2. CASE EnqueueJob(n)
    BY <1>t, <2>2, RecordFrame DEF EnqueueJob, Queue!Send, Queue!Move, Types
  <2> QED
    BY <1>2, <2>1, <2>2, RecordFrame
       DEF SendStep, CheckLimit, Invalid, CreateNotification, SkipChannel, CountUsage, Abandon
<1>3. ASSUME NEW d \in Deliveries, QueueStep(d)
      PROVE  RecordType' /\ RecordInv'
  BY <1>t, <1>3, RecordFrame DEF QueueStep, Queue!Claim, Queue!Promote, Queue!Move, Types
<1>4. ASSUME NEW d \in Deliveries, HandlerStep(d)
      PROVE  RecordType' /\ RecordInv'
  <2> USE DEF Step
  <2>1. \A e \in Deliveries \ {d} :
          /\ row'[e] = row[e] /\ phase'[e] = phase[e] /\ handler'[e] = handler[e]
          /\ outcome'[e] = outcome[e] /\ hooks'[e] = hooks[e]
    BY <1>t, <1>4 DEF HandlerStep, TakeJob, Load, CallProvider, MarkDeliveryResult, ListDeliveries,
       UpdateNotificationStatus, FireWebhook, ReturnToQueue, Queue!Begin, Queue!Retry, Queue!GiveUp,
       Queue!Succeed, Queue!Move, Types, RecordType
  <2>2. RecordType' /\ RowRecords(d)' /\ HooksTell(d)'
    <3>1. CASE TakeJob(d)
      <4>1. row[d] # "delivered"
        BY <1>t, <3>1 DEF TakeJob, Queue!Begin, Queue!Move, Types, DeliveryInv, DeliveredWasAccepted,
           AcceptanceKept
      <4>2. /\ UNCHANGED <<row, outcome, hooks>>
            /\ handler' = [handler EXCEPT ![d] = "load"] /\ phase' = [phase EXCEPT ![d] = "running"]
        BY <3>1 DEF TakeJob, Queue!Begin, Queue!Move
      <4>3. RowRecords(d)'
        BY <1>t, <4>2 DEF Types, RowRecords
      <4>4. HooksTell(d)'
        BY <1>t, <4>1, <4>2 DEF Types, HooksTell
      <4> QED BY <4>2, <4>3, <4>4 DEF RecordType
    <3>2. CASE Load(d)
      BY <1>t, <3>2 DEF Load, Types, RecordType, RowRecords, HooksTell
    <3>3. CASE CallProvider(d)
      BY <1>t, <3>3 DEF CallProvider, Types, RecordType, RowRecords, HooksTell
    <3>4. CASE MarkDeliveryResult(d)
      <4>1. /\ UNCHANGED <<outcome, hooks, phase>> /\ handler[d] = "mark"
            /\ handler' = [handler EXCEPT ![d] = "list"]
            /\ row' = [row EXCEPT ![d] = IF outcome[d] = "success" THEN "delivered" ELSE "failed"]
        BY <3>4 DEF MarkDeliveryResult
      <4>2. \A i \in DOMAIN hooks[d] : hooks[d][i] # "delivered"
        BY <1>t, <4>1 DEF HooksTell
      <4>3. RowRecords(d)'
        BY <1>t, <4>1 DEF Types, RowRecords, DeliveryInv, HandlerRunsJob
      <4>4. HooksTell(d)'
        BY <1>t, <4>1, <4>2 DEF Types, HooksTell
      <4> QED BY <4>1, <4>3, <4>4 DEF RecordType
    <3>5. CASE ListDeliveries(d)
      BY <1>t, <3>5 DEF ListDeliveries, Types, RecordType, RowRecords, HooksTell
    <3>6. CASE UpdateNotificationStatus(d)
      BY <1>t, <3>6 DEF UpdateNotificationStatus, Types, RecordType, RowRecords, HooksTell
    <3>7. CASE FireWebhook(d)
      <4>1. /\ UNCHANGED <<outcome, row, phase>> /\ handler[d] = "hook"
            /\ handler' = [handler EXCEPT ![d] = "return"]
        BY <3>7 DEF FireWebhook
      <4>2. \A i \in DOMAIN hooks[d] : hooks[d][i] # "delivered"
        BY <1>t, <4>1 DEF HooksTell
      <4>3. RowRecords(d)'
        BY <1>t, <4>1 DEF Types, RowRecords
      <4>4. row[d] = IF outcome[d] = "success" THEN "delivered" ELSE "failed"
        BY <1>t, <4>1 DEF RowRecords
      <4>5. CASE outcome[d] \in {"success", "soft", "error"}
        <5>1. PICK e \in {"delivered", "failed"} :
                e = row[d] /\ hooks' = [hooks EXCEPT ![d] = Append(@, e)]
          BY <3>7, <4>4, <4>5 DEF FireWebhook
        <5>2. /\ hooks' \in [Deliveries -> Seq({"delivered", "failed"})]
              /\ hooks'[d] = Append(hooks[d], e)
          BY <5>1 DEF RecordType
        <5>3. HooksTell(d)'
          <6> DEFINE h == hooks[d]
          <6>1. h \in Seq({"delivered", "failed"})
            BY DEF RecordType
          <6>2. /\ Append(h, e) \in Seq({"delivered", "failed"})
                /\ Len(Append(h, e)) = Len(h) + 1 /\ Append(h, e)[Len(h) + 1] = e
                /\ Append(h, e) # <<>>
                /\ \A i \in DOMAIN Append(h, e) : i = Len(h) + 1 \/ (i \in DOMAIN h /\ Append(h, e)[i] = h[i])
            BY <6>1
          <6>3. handler'[d] = "return" /\ row'[d] = e
            BY <1>t, <4>1, <5>1 DEF Types
          <6> HIDE DEF h
          <6>4. \A i \in DOMAIN h : h[i] # "delivered"
            BY <4>2 DEF h
          <6>5. hooks'[d] = Append(h, e)
            BY <5>2 DEF h
          <6> QED BY <6>2, <6>3, <6>4, <6>5 DEF HooksTell
        <5> QED BY <4>3, <5>2, <5>3 DEF RecordType
      <4>6. CASE outcome[d] \notin {"success", "soft", "error"}
        <5>1. hooks' = hooks
          BY <3>7, <4>6 DEF FireWebhook
        <5>2. HooksTell(d)'
          BY <1>t, <4>1, <4>6, <5>1 DEF Types, HooksTell
        <5> QED BY <4>3, <5>1, <5>2 DEF RecordType
      <4> QED BY <4>5, <4>6
    <3>8. CASE ReturnToQueue(d)
      BY <1>t, <3>8 DEF ReturnToQueue, Retryable, Queue!Retry, Queue!GiveUp, Queue!Succeed, Queue!Move,
         Types, RecordType, RowRecords, HooksTell
    <3> QED BY <1>4, <3>1, <3>2, <3>3, <3>4, <3>5, <3>6, <3>7, <3>8 DEF HandlerStep
  <2>3. ASSUME NEW e \in Deliveries PROVE RowRecords(e)' /\ HooksTell(e)'
    BY <1>t, <2>1, <2>2 DEF RowRecords, HooksTell
  <2> QED BY <2>2, <2>3 DEF RecordInv
<1>5. ASSUME NEW S \in SUBSET Deliveries, WorkerCrash(S)
      PROVE  RecordType' /\ RecordInv'
  BY <1>t, <1>5 DEF WorkerCrash, Queue!Lose, Types, RecordType, RecordInv, RowRecords, HooksTell
<1> QED BY <1>1, <1>2, <1>3, <1>4, <1>5 DEF Next

LEMMA RecordAlways ==
    ASSUME StoreFails = FALSE
    PROVE  Spec => [](Inductive /\ RecordInv)
<1>1. (Inductive /\ RecordType /\ RecordInv) /\ [Next]_vars
        => (Inductive /\ RecordType /\ RecordInv)'
  BY StepKeeps, RecordStep
<1> QED BY <1>1, Start, RecordStart, PTL DEF Spec

(* THEOREM: while the store works, a job that left the queue has left the   *)
(* record the queue's verdict calls for, however workers die.               *)
THEOREM SettledRecorded ==
    ASSUME StoreFails = FALSE
    PROVE  Spec => []SettledIsRecorded
<1>1. RecordInv => SettledIsRecorded
  BY DEF RecordInv, RowRecords, SettledIsRecorded
<1> QED BY <1>1, RecordAlways, PTL

(* THEOREM: while the store works, a webhook tells what the API shows, and  *)
(* `delivered' is the last word.                                            *)
THEOREM HooksAgree ==
    ASSUME StoreFails = FALSE
    PROVE  Spec => []HooksTellTheRow
<1>1. RecordInv => HooksTellTheRow
  BY DEF RecordInv, HooksTell, HooksTellTheRow
<1> QED BY <1>1, RecordAlways, PTL

-----------------------------------------------------------------------------
(* The requests of the API as the slots of SendQuota.                       *)

Stage == [n \in Notifs |-> IF send[n] \in {"insert", "row", "job"} THEN "sending" ELSE "idle"]

(* A step that moves one request is what that request's slot sees.          *)
LEMMA StageMoves ==
    ASSUME Types, NEW n \in Notifs, NEW at, Goto(n, at)
    PROVE  Stage' = [Stage EXCEPT ![n] = IF at \in {"insert", "row", "job"} THEN "sending" ELSE "idle"]
BY DEF Types, Goto, Stage

LEMMA QuotaSimulated ==
    ASSUME Types, [Next]_vars
    PROVE  [Quota!QuotaNext]_(Quota!quotaVars)
<1> USE DEF Quota!quotaVars, api, store, queue, local, outside
<1>s. Stage \in [Notifs -> {"idle", "sending"}]
  BY DEF Stage
<1>1. ASSUME UNCHANGED <<send, usage>> PROVE [Quota!QuotaNext]_(Quota!quotaVars)
  BY <1>1
<1>2. ASSUME NEW n \in Notifs, SendStep(n)
      PROVE  [Quota!QuotaNext]_(Quota!quotaVars)
  <2>1. CASE CheckLimit(n)
    <3>1. CASE usage >= Limit
      <4>1. Stage' = Stage /\ usage' = usage
        <5>1. Goto(n, "rejected") /\ Stage[n] = "idle" /\ usage' = usage
          BY <2>1, <3>1 DEF CheckLimit, Stage
        <5>2. Stage' = [Stage EXCEPT ![n] = "idle"]
          BY <5>1, StageMoves
        <5> QED BY <1>s, <5>1, <5>2
      <4> QED BY <4>1 DEF Stage
    <3>2. CASE ~(usage >= Limit)
      <4>1. /\ Stage[n] = "idle" /\ usage < Limit /\ usage' = usage
            /\ Stage' = [Stage EXCEPT ![n] = "sending"]
        BY <2>1, <3>2, StageMoves, LimitAssumption DEF CheckLimit, Stage, Types
      <4>2. Quota!Admit(n)
        BY <4>1 DEF Quota!Admit, Stage
      <4> QED BY <4>2 DEF Quota!QuotaNext
    <3> QED BY <3>1, <3>2
  <2>2. CASE \/ Invalid(n) \/ (CreateNotification(n) /\ Goto(n, "rejected"))
             \/ (CreateDelivery(n) /\ Goto(n, "rejected")) \/ (EnqueueJob(n) /\ Goto(n, "rejected"))
             \/ CountUsage(n) \/ Abandon(n)
    <3>1. /\ send[n] \in {"insert", "row", "job"} /\ usage' \in {usage, usage + 1}
          /\ Goto(n, "rejected") \/ Goto(n, "accepted")
      BY <2>2 DEF Invalid, CreateNotification, CreateDelivery, EnqueueJob, CountUsage, Abandon
    <3>2. Stage[n] = "sending" /\ Stage' = [Stage EXCEPT ![n] = "idle"]
      BY <3>1, StageMoves DEF Stage
    <3>3. Quota!Finish(n)
      BY <3>1, <3>2 DEF Quota!Finish, Stage
    <3> QED BY <3>3 DEF Quota!QuotaNext
  <2>3. CASE \/ SkipChannel(n) \/ (CreateNotification(n) /\ Goto(n, "row"))
             \/ (CreateDelivery(n) /\ Goto(n, "job")) \/ (EnqueueJob(n) /\ Goto(n, "row"))
    <3>1. /\ send[n] \in {"insert", "row", "job"} /\ usage' = usage
          /\ send' = send \/ Goto(n, "row") \/ Goto(n, "job")
      BY <2>3 DEF SkipChannel, CreateNotification, CreateDelivery, EnqueueJob
    <3>2. Stage' = Stage
      BY <1>s, <3>1, StageMoves DEF Stage
    <3> QED BY <3>1, <3>2 DEF Stage
  <2> QED BY <1>2, <2>1, <2>2, <2>3 DEF SendStep, CreateNotification, CreateDelivery, EnqueueJob
<1>3. ASSUME NEW d \in Deliveries, QueueStep(d) \/ HandlerStep(d)
      PROVE  UNCHANGED <<send, usage>>
  BY <1>3 DEF QueueStep, HandlerStep, TakeJob, Load, CallProvider, MarkDeliveryResult,
     ListDeliveries, UpdateNotificationStatus, FireWebhook, ReturnToQueue
<1> QED BY <1>1, <1>2, <1>3 DEF Next, vars, WorkerCrash

(* THEOREM: the requests of the API, with everything they and the workers   *)
(* do in between, only do to the usage counter what SendQuota allows.       *)
THEOREM RequestsKeepQuota == Spec => ImplementsQuota
<1>1. Init => Quota!QuotaInit
  BY DEF Init, Quota!QuotaInit
<1>2. Inductive /\ [Next]_vars => [Quota!QuotaNext]_(Quota!quotaVars)
  BY QuotaSimulated DEF Inductive
<1> QED BY <1>1, <1>2, Inv, PTL DEF Spec, ImplementsQuota, Quota!QuotaSpec

(* The requests that are between their check and their end.                 *)
Serving == {n \in Notifs : send[n] \in {"insert", "row", "job"}}

LEMMA ServingFinite == IsFiniteSet(Serving) /\ Cardinality(Serving) \in Nat
BY NotifsAssumption, FS_Subset, FS_CardinalityType DEF Serving

(* A request that is let through saw usage below the limit; one that ends   *)
(* gives up its place for its increment.                                    *)
LEMMA ServingStep ==
    ASSUME Types, Inductive', [Next]_vars, NEW K \in Nat, Cardinality(Serving') <= K,
           usage + Cardinality(Serving) <= Limit + K - 1
    PROVE  usage' + Cardinality(Serving') <= Limit + K - 1
<1>s. Serving = {n \in Notifs : Stage[n] = "sending"} /\ Serving' = {n \in Notifs : Stage'[n] = "sending"}
  BY DEF Serving, Stage
<1>f. /\ IsFiniteSet(Serving) /\ Cardinality(Serving) \in Nat
      /\ IsFiniteSet(Serving') /\ Cardinality(Serving') \in Nat
  <2>1. Serving \subseteq Notifs /\ Serving' \subseteq Notifs
    BY DEF Serving
  <2> QED BY <2>1, NotifsAssumption, FS_Subset, FS_CardinalityType
<1>u. usage \in Nat /\ usage' \in Nat /\ Limit \in Nat /\ Stage \in [Notifs -> {"idle", "sending"}]
  BY LimitAssumption DEF Types, Inductive, Stage
<1>1. CASE UNCHANGED Quota!quotaVars
  <2>1. usage' = usage /\ Stage' = Stage
    BY <1>1 DEF Quota!quotaVars, Stage
  <2> QED BY <2>1, <1>s
<1>2. ASSUME NEW n \in Notifs, Quota!Admit(n)
      PROVE  usage' + Cardinality(Serving') <= Limit + K - 1
  <2>1. usage' = usage /\ usage < Limit
    BY <1>2 DEF Quota!Admit
  <2> QED BY <2>1, <1>f, <1>u
<1>3. ASSUME NEW n \in Notifs, Quota!Finish(n)
      PROVE  usage' + Cardinality(Serving') <= Limit + K - 1
  <2>1. Stage[n] = "sending" /\ Stage' = [Stage EXCEPT ![n] = "idle"] /\ usage' \in {usage, usage + 1}
    BY <1>3 DEF Quota!Finish, Stage
  <2>2. n \in Serving /\ Serving' = Serving \ {n}
    BY <2>1, <1>s, <1>u
  <2>3. Cardinality(Serving') = Cardinality(Serving) - 1
    BY <2>2, <1>f, FS_RemoveElement
  <2> QED BY <2>1, <2>3, <1>f, <1>u
<1> QED BY <1>1, <1>2, <1>3, QuotaSimulated DEF Quota!QuotaNext

(* THEOREM: while at most K requests are served at the same time, Send      *)
(* leaves the usage counter less than K above the limit, whatever fails and *)
(* however many requests there are.                                         *)
THEOREM UsageBounded ==
    ASSUME NEW CONSTANT K \in Nat \ {0}
    PROVE  Spec /\ [](Cardinality(Serving) <= K) => [](usage + Cardinality(Serving) <= Limit + K - 1)
<1>1. Init => usage + Cardinality(Serving) <= Limit + K - 1
  <2> SUFFICES ASSUME Init PROVE usage + Cardinality(Serving) <= Limit + K - 1
    OBVIOUS
  <2>1. Serving = {} /\ usage = 0
    BY DEF Init, Serving
  <2>2. Cardinality(Serving) = 0
    BY <2>1, FS_EmptySet
  <2> QED BY <2>1, <2>2, LimitAssumption
<1>2. /\ Inductive /\ Inductive' /\ [Next]_vars /\ (Cardinality(Serving) <= K)'
      /\ usage + Cardinality(Serving) <= Limit + K - 1
      => (usage + Cardinality(Serving) <= Limit + K - 1)'
  BY ServingStep DEF Inductive
<1> QED BY <1>1, <1>2, Inv, PTL DEF Spec

-----------------------------------------------------------------------------
(* One handler at a time and no failures: the status a handler writes is    *)
(* the aggregate of the rows it has left behind.  Between two handlers of a *)
(* notification it is current; between the record of an attempt and the     *)
(* write, the one handler that works is on its way to make it so.           *)

Alone == \A d, e \in Deliveries : handler[d] # "idle" /\ handler[e] # "idle" => d = e

StatusCurrent(n) ==
    \/ "pending" \in Statuses(n) \/ Statuses(n) = {}
    \/ \E d \in Of(n) : handler[d] = "list"
    \/ \E d \in Of(n) : handler[d] = "write" /\ seen[d] = Aggregate(n)
    \/ status[n] = Aggregate(n) /\ \A d \in Of(n) : handler[d] # "write"

SerialInv == Alone /\ \A n \in Notifs : StatusCurrent(n)

LEMMA DeliveriesFinite == IsFiniteSet(Deliveries)
<1> DEFINE Row(n) == {<<n, i>> : i \in DOMAIN Requested[n]}
           Rows   == {Row(n) : n \in Notifs}
<1>1. IsFiniteSet(Rows)
  <2> DEFINE f == [n \in Notifs |-> Row(n)]
  <2>1. f \in Surjection(Notifs, Rows)
    BY DEF Surjection
  <2> QED BY <2>1, NotifsAssumption, FS_Surjection
<1>2. ASSUME NEW n \in Notifs PROVE IsFiniteSet(Row(n))
  <2> DEFINE I == DOMAIN Requested[n]
             f == [i \in I |-> <<n, i>>]
  <2>1. IsFiniteSet(I)
    BY RequestedAssumption, FS_Interval
  <2>2. f \in Surjection(I, Row(n))
    BY DEF Surjection
  <2> HIDE DEF f, I
  <2> QED BY <2>1, <2>2, FS_Surjection
<1>3. Deliveries = UNION Rows
  BY DEF Deliveries
<1> QED BY <1>1, <1>2, <1>3, FS_UNION

LEMMA SerialStart == Init => SerialInv
BY DeliveryFacts DEF Init, SerialInv, Alone, StatusCurrent, Statuses, Of

(* Steps that leave the store and the handlers' way to it alone.            *)
LEMMA SerialFrame ==
    ASSUME NEW n \in Notifs, StatusCurrent(n), status'[n] = status[n],
           \A d \in Of(n) :
             /\ row'[d] = row[d] /\ seen'[d] = seen[d]
             /\ (handler'[d] = "list") = (handler[d] = "list")
             /\ (handler'[d] = "write") = (handler[d] = "write")
    PROVE  StatusCurrent(n)'
<1>1. Statuses(n)' = Statuses(n) /\ Of(n)' = Of(n)
  BY DEF Statuses, Of
<1>2. Aggregate(n)' = Aggregate(n)
  BY <1>1 DEF Aggregate
<1> QED BY <1>1, <1>2 DEF StatusCurrent

LEMMA SerialStep ==
    ASSUME StoreFails = FALSE, Lossy = FALSE, Pool = 1, Inductive, SerialInv, [Next]_vars
    PROVE  SerialInv'
<1>t. Types /\ Alone /\ \A n \in Notifs : StatusCurrent(n)
  BY DEF Inductive, SerialInv
<1>f. \A n \in Notifs : \A d \in Of(n) : d \in Deliveries /\ d[1] = n
  BY DEF Of
<1> USE DEF api, store, queue, local, outside
<1>1. CASE UNCHANGED vars
  BY <1>t, <1>1, SerialFrame DEF vars, SerialInv, Alone
<1>2. ASSUME NEW n \in Notifs, SendStep(n) PROVE SerialInv'
  <2>1. Alone' /\ UNCHANGED <<handler, seen>>
    BY <1>t, <1>2 DEF SendStep, CheckLimit, Invalid, CreateNotification, SkipChannel, CreateDelivery,
       EnqueueJob, CountUsage, Abandon, Alone
  <2>2. CASE CreateNotification(n)
    <3>1. Statuses(n) = {}
      <4>1. ASSUME NEW d \in Of(n) PROVE row[d] = "none"
        BY <1>t, <1>f, <2>2, DeliveryFacts
           DEF CreateNotification, Inductive, LoopHere, DeliveryInv, LoopAhead, Types
      <4> QED BY <4>1 DEF Statuses
    <3>2. row' = row /\ status' = [status EXCEPT ![n] = "queued"]
      BY <2>2 DEF CreateNotification
    <3>3. StatusCurrent(n)'
      BY <3>1, <3>2 DEF StatusCurrent, Statuses, Of
    <3>4. ASSUME NEW m \in Notifs, m # n PROVE StatusCurrent(m)'
      BY <1>t, <2>1, <3>2, <3>4, SerialFrame DEF Types
    <3> QED BY <2>1, <3>3, <3>4 DEF SerialInv
  <2>3. CASE CreateDelivery(n)
    <3>1. /\ <<n, next[n]>> \in Of(n) /\ status' = status
          /\ row' = [row EXCEPT ![<<n, next[n]>>] = "pending"]
      BY <2>3, DeliveryFacts DEF CreateDelivery, Here, Of
    <3>2. "pending" \in Statuses(n)'
      BY <1>t, <1>f, <3>1 DEF Statuses, Types, Of
    <3>3. StatusCurrent(n)'
      BY <3>2 DEF StatusCurrent
    <3>4. ASSUME NEW m \in Notifs, m # n PROVE StatusCurrent(m)'
      <4>1. \A d \in Of(m) : row'[d] = row[d]
        BY <1>t, <1>f, <3>1, <3>4 DEF Types
      <4> QED BY <1>t, <2>1, <3>1, <4>1, SerialFrame
    <3> QED BY <2>1, <3>3, <3>4 DEF SerialInv
  <2>4. CASE UNCHANGED store
    BY <1>t, <2>1, <2>4, SerialFrame DEF SerialInv
  <2> QED BY <1>2, <2>2, <2>3, <2>4
          DEF SendStep, CheckLimit, Invalid, SkipChannel, EnqueueJob, CountUsage, Abandon
<1>3. ASSUME NEW d \in Deliveries, QueueStep(d) PROVE SerialInv'
  BY <1>t, <1>3, SerialFrame DEF QueueStep, SerialInv, Alone
<1>4. ASSUME NEW d \in Deliveries, HandlerStep(d) PROVE SerialInv'
  <2> USE DEF Step
  <2>1. Alone'
    <3>1. CASE TakeJob(d)
      <4>1. IsFiniteSet(Running)
        BY DeliveriesFinite, FS_Subset DEF Running
      <4>2. Running = {}
        BY <3>1, <4>1, FS_CardinalityType, FS_EmptySet DEF TakeJob
      <4>3. \A e \in Deliveries : handler[e] = "idle"
        BY <4>2 DEF Running, Inductive, DeliveryInv, HandlerRunsJob
      <4> QED BY <1>t, <3>1, <4>3 DEF TakeJob, Alone, Types
    <3>2. CASE handler[d] # "idle" /\ \E to : handler' = [handler EXCEPT ![d] = to]
      BY <1>t, <3>2 DEF Alone, Types
    <3> QED BY <1>4, <3>1, <3>2 DEF HandlerStep, Load, CallProvider, MarkDeliveryResult,
            ListDeliveries, UpdateNotificationStatus, FireWebhook, ReturnToQueue
  <2>2. \A e \in Deliveries \ {d} : handler'[e] = handler[e] /\ row'[e] = row[e] /\ seen'[e] = seen[e]
    BY <1>t, <1>4 DEF HandlerStep, TakeJob, Load, CallProvider, MarkDeliveryResult, ListDeliveries,
       UpdateNotificationStatus, FireWebhook, ReturnToQueue, Types
  <2>3. ASSUME NEW m \in Notifs, m # d[1] PROVE StatusCurrent(m)'
    <3>1. status'[m] = status[m]
      BY <1>t, <1>4, <2>3 DEF HandlerStep, TakeJob, Load, CallProvider, MarkDeliveryResult,
         ListDeliveries, UpdateNotificationStatus, FireWebhook, ReturnToQueue, Types
    <3>2. \A e \in Of(m) : e \in Deliveries \ {d}
      BY <1>f, <2>3
    <3> QED BY <1>t, <2>2, <3>1, <3>2, SerialFrame
  <2> DEFINE n == d[1]
  <2>n. n \in Notifs /\ d \in Of(n)
    BY DeliveryFacts, OfFacts
  <2>4. StatusCurrent(n)'
    <3>1. CASE MarkDeliveryResult(d)
      BY <1>t, <2>n, <3>1 DEF MarkDeliveryResult, StatusCurrent, Of, Types
    <3>2. CASE ListDeliveries(d)
      <4>1. seen'[d] = Aggregate(n) /\ handler'[d] = "write" /\ UNCHANGED row
        BY <1>t, <3>2 DEF ListDeliveries, Types
      <4>2. Aggregate(n)' = Aggregate(n)
        BY <4>1 DEF Aggregate, Statuses, Of
      <4> QED BY <2>n, <4>1, <4>2 DEF StatusCurrent, Of
    <3>3. CASE UpdateNotificationStatus(d)
      <4>1. /\ handler[d] = "write" /\ handler'[d] = "hook" /\ UNCHANGED row
            /\ status'[n] = seen[d]
        BY <1>t, <2>n, <3>3 DEF UpdateNotificationStatus, Types
      <4>2. Aggregate(n)' = Aggregate(n) /\ Statuses(n)' = Statuses(n)
        BY <4>1 DEF Aggregate, Statuses, Of
      <4>3. \A e \in Of(n) : e # d => handler[e] = "idle" /\ handler'[e] = "idle"
        BY <1>t, <1>f, <2>2, <2>n, <4>1 DEF Alone
      <4>4. "pending" \in Statuses(n) \/ Statuses(n) = {} \/ seen[d] = Aggregate(n)
        BY <1>t, <2>n, <4>1, <4>3 DEF StatusCurrent
      <4> QED BY <2>n, <4>1, <4>2, <4>3, <4>4 DEF StatusCurrent, Of
    <3>4. CASE TakeJob(d) \/ Load(d) \/ CallProvider(d) \/ FireWebhook(d) \/ ReturnToQueue(d)
      <4>1. /\ UNCHANGED <<status, row, seen>>
            /\ handler[d] \notin {"list", "write"} /\ handler'[d] \notin {"list", "write"}
        BY <1>t, <3>4 DEF TakeJob, Load, CallProvider, FireWebhook, ReturnToQueue, Types
      <4>2. \A e \in Of(n) : e = d \/ e \in Deliveries \ {d}
        BY <1>f, <2>n
      <4> QED BY <1>t, <2>2, <2>n, <4>1, <4>2, SerialFrame
    <3> QED BY <1>4, <3>1, <3>2, <3>3, <3>4 DEF HandlerStep
  <2> QED BY <2>1, <2>3, <2>4 DEF SerialInv
<1>5. ASSUME NEW S \in SUBSET Deliveries PROVE ~WorkerCrash(S)
  BY DEF WorkerCrash, Queue!Lose
<1> QED BY <1>1, <1>2, <1>3, <1>4, <1>5 DEF Next

(* THEOREM: with one worker and no failures, the status of a notification   *)
(* whose jobs are settled is the aggregate of its deliveries.  With two     *)
(* workers it is not: the run notification_race shows the stale write.      *)
THEOREM SerialStatusIsAggregate ==
    ASSUME StoreFails = FALSE, Lossy = FALSE, Pool = 1
    PROVE  Spec => []StatusIsAggregate
<1>1. Inductive /\ RecordInv /\ SerialInv => StatusIsAggregate
  <2> SUFFICES ASSUME Inductive, RecordInv, SerialInv, NEW n \in Notifs, Settled(n), Statuses(n) # {}
               PROVE  status[n] = Aggregate(n)
    BY DEF StatusIsAggregate
  <2>1. ASSUME NEW d \in Of(n) PROVE row[d] # "pending" /\ handler[d] = "idle"
    <3>1. d \in Deliveries /\ d[1] = n /\ d[2] < next[n]
      BY DeliveryFacts, RequestedAssumption DEF Of, Settled, Inductive, LoopHere, Types
    <3>2. row[d] # "none" => phase[d] # "new"
      BY <3>1 DEF Inductive, DeliveryInv, RowIsKnown, LoopBehind
    <3> QED BY <3>1, <3>2 DEF Settled, RecordInv, RowRecords
  <2>2. "pending" \notin Statuses(n)
    BY <2>1 DEF Statuses
  <2> QED BY <2>1, <2>2 DEF SerialInv, StatusCurrent
<1>2. (RecordType /\ RecordInv /\ Inductive /\ SerialInv) /\ [Next]_vars
        => (RecordType /\ RecordInv /\ Inductive /\ SerialInv)'
  BY StepKeeps, RecordStep, SerialStep
<1> QED BY <1>1, <1>2, Start, RecordStart, SerialStart, PTL DEF Spec
=============================================================================

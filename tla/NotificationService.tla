------------------------- MODULE NotificationService -------------------------
(***************************************************************************)
(* services/notification.go: Send, which an API request runs, writes a     *)
(* notification, one delivery row and one job per requested channel;       *)
(* HandleDelivery, which a queue worker runs, calls the provider, records  *)
(* the attempt and recomputes the notification's status from its           *)
(* deliveries.  No transaction spans two statements: every statement and   *)
(* every queue or provider call is a step of its own.                      *)
(*                                                                         *)
(* The queue is the abstract JobLifecycle that JobQueue implements: a job  *)
(* has one owner at a time, so the state of the handler running it is      *)
(* indexed by its delivery.                                                *)
(***************************************************************************)
EXTENDS Integers, Sequences, FiniteSets

CONSTANTS
    Notifs,        \* send requests, each with the notification it creates
    Requested,     \* the channels each asks for, in order
    KnownChannels, \* the channels the service has a sender for
    Limit,         \* notifications_limit of the workspace
    MaxAttempts,   \* attempts per job, 3 in the code
    Pool,          \* handlers that run at the same time
    StoreFails,    \* whether database statements and enqueues may fail or lose their reply
    Lossy          \* whether a server or worker process may crash

ASSUME NotifsAssumption    == IsFiniteSet(Notifs)
ASSUME RequestedAssumption ==
    \A n \in Notifs :
        Len(Requested[n]) \in Nat \ {0} /\ DOMAIN Requested[n] = 1..Len(Requested[n])
ASSUME LimitAssumption     == Limit \in Nat \ {0}
ASSUME PoolAssumption      == Pool \in Nat \ {0} /\ MaxAttempts \in Nat \ {0}

(* Deliveries are named by their notification and position in its request.  *)
Deliveries == UNION {{<<n, i>> : i \in DOMAIN Requested[n]} : n \in Notifs}
Of(n)      == {d \in Deliveries : d[1] = n}

VARIABLES
    send,     \* where each Send is
    next,     \* the channel its loop is at
    usage,    \* workspaces.notifications_sent
    status,   \* notifications.status, "none" before the row exists
    row,      \* deliveries.status, "none" before the row exists
    phase,    \* the queue: phase of each delivery's job
    calls,    \* the queue: handler calls of each job
    handler,  \* where the handler running a job is
    outcome,  \* what it knows of its attempt
    seen,     \* the status it computed and has not yet written
    accepted, \* history: how often a provider told a handler it accepted a delivery
    hooks     \* history: the webhook events fired per delivery, in order

api     == <<send, next, usage>>
store   == <<status, row>>
queue   == <<phase, calls>>
local   == <<handler, outcome, seen>>
outside == <<accepted, hooks>>
vars    == <<api, store, queue, local, outside>>

Queue == INSTANCE JobLifecycle WITH Jobs <- Deliveries, Unhandled <- {}

Init ==
    /\ send = [n \in Notifs |-> "new"]
    /\ next = [n \in Notifs |-> 1]
    /\ usage = 0
    /\ status = [n \in Notifs |-> "none"]
    /\ row = [d \in Deliveries |-> "none"]
    /\ Queue!Init
    /\ handler = [d \in Deliveries |-> "idle"]
    /\ outcome = [d \in Deliveries |-> "none"]
    /\ seen = [d \in Deliveries |-> "none"]
    /\ accepted = [d \in Deliveries |-> 0]
    /\ hooks = [d \in Deliveries |-> <<>>]

-----------------------------------------------------------------------------
(* Send.                                                                    *)

Here(n)     == <<n, next[n]>>
Goto(n, at) == send' = [send EXCEPT ![n] = at]

(* Mutant of CheckLimit: one more than the limit is let through.            *)
CheckLimitLate(n) ==
    /\ send[n] = "new"
    /\ Goto(n, IF usage > Limit THEN "rejected" ELSE "insert")
    /\ UNCHANGED <<next, usage, store, queue, local, outside>>

(* The plan limit is checked against the counter as it is now.              *)
CheckLimit(n) ==
    /\ send[n] = "new"
    /\ Goto(n, IF usage >= Limit THEN "rejected" ELSE "insert")
    /\ UNCHANGED <<next, usage, store, queue, local, outside>>

(* No such subscriber or template, a missing variable, an empty body: the   *)
(* checks between the limit and the first insert.                           *)
Invalid(n) ==
    /\ send[n] = "insert"
    /\ Goto(n, "rejected")
    /\ UNCHANGED <<next, usage, store, queue, local, outside>>

CreateNotification(n) ==
    /\ send[n] = "insert"
    /\ \/ Goto(n, "row") /\ status' = [status EXCEPT ![n] = "queued"]
       \/ StoreFails /\ Goto(n, "rejected") /\ status' \in {status, [status EXCEPT ![n] = "queued"]}
    /\ UNCHANGED <<next, usage, row, queue, local, outside>>

(* The loop over the channels: an unknown one is skipped, for the others a  *)
(* row is inserted and then a job enqueued; an error ends Send at once and  *)
(* leaves behind what was written, the statement that failed included if    *)
(* only its reply was lost.                                                 *)
SkipChannel(n) ==
    /\ send[n] = "row" /\ next[n] \in DOMAIN Requested[n]
    /\ Requested[n][next[n]] \notin KnownChannels
    /\ next' = [next EXCEPT ![n] = @ + 1]
    /\ UNCHANGED <<send, usage, store, queue, local, outside>>

CreateDelivery(n) ==
    /\ send[n] = "row" /\ next[n] \in DOMAIN Requested[n]
    /\ Requested[n][next[n]] \in KnownChannels
    /\ \/ Goto(n, "job") /\ row' = [row EXCEPT ![Here(n)] = "pending"]
       \/ StoreFails /\ Goto(n, "rejected") /\ row' \in {row, [row EXCEPT ![Here(n)] = "pending"]}
    /\ UNCHANGED <<next, usage, status, queue, local, outside>>

(* Mutant of EnqueueJob: a failed enqueue is logged and the loop goes on.   *)
EnqueueBestEffort(n) ==
    /\ send[n] = "job"
    /\ Queue!Send(Here(n)) \/ (StoreFails /\ UNCHANGED queue)
    /\ Goto(n, "row")
    /\ next' = [next EXCEPT ![n] = @ + 1]
    /\ UNCHANGED <<usage, store, local, outside>>

EnqueueJob(n) ==
    /\ send[n] = "job"
    /\ \/ /\ Queue!Send(Here(n))
          /\ Goto(n, "row")
          /\ next' = [next EXCEPT ![n] = @ + 1]
       \/ /\ StoreFails /\ Goto(n, "rejected") /\ UNCHANGED next
          /\ Queue!Send(Here(n)) \/ UNCHANGED queue
    /\ UNCHANGED <<usage, store, local, outside>>

(* The counter is bumped last; an error is only logged.                     *)
CountUsage(n) ==
    /\ send[n] = "row" /\ next[n] \notin DOMAIN Requested[n]
    /\ Goto(n, "accepted")
    /\ usage' = usage + 1 \/ (StoreFails /\ UNCHANGED usage)
    /\ UNCHANGED <<next, store, queue, local, outside>>

(* The server dies, or the client hangs up and cancels the request.         *)
Abandon(n) ==
    /\ Lossy /\ send[n] \in {"insert", "row", "job"}
    /\ Goto(n, "rejected")
    /\ UNCHANGED <<next, usage, store, queue, local, outside>>

-----------------------------------------------------------------------------
(* The queue between Send and HandleDelivery.                               *)
QueueStep(d) ==
    /\ Queue!Claim(d) \/ Queue!Promote(d)
    /\ UNCHANGED <<api, store, local, outside>>

Running == {d \in Deliveries : phase[d] = "running"}

-----------------------------------------------------------------------------
(* HandleDelivery.                                                          *)

Step(d, from, to) == handler[d] = from /\ handler' = [handler EXCEPT ![d] = to]

TakeJob(d) ==
    /\ Cardinality(Running) < Pool
    /\ Queue!Begin(d)
    /\ Step(d, "idle", "load")
    /\ UNCHANGED <<api, store, outcome, seen, outside>>

(* A failed read of the workspace is an error to retry, a failed read of    *)
(* the subscriber, whatever its reason, a terminal failure.                 *)
Load(d) ==
    /\ \/ Step(d, "load", "call") /\ UNCHANGED outcome
       \/ StoreFails /\ Step(d, "load", "return") /\ outcome' = [outcome EXCEPT ![d] = "unread"]
       \/ StoreFails /\ Step(d, "load", "mark") /\ outcome' = [outcome EXCEPT ![d] = "nosub"]
    /\ UNCHANGED <<api, store, queue, seen, outside>>

(* The provider accepts, refuses for good ("soft": offline, not             *)
(* configured), reports a dead subscription, or fails in a way to retry.    *)
CallProvider(d) ==
    /\ Step(d, "call", "mark")
    /\ \E o \in {"success", "soft", "gone", "error"} :
         /\ outcome' = [outcome EXCEPT ![d] = o]
         /\ accepted' = [accepted EXCEPT ![d] = IF o = "success" THEN @ + 1 ELSE @]
    /\ UNCHANGED <<api, store, queue, seen, hooks>>

(* Mutants of MarkDeliveryResult: every row of the notification is updated; *)
(* only successes are recorded; a row that failed once stays failed.        *)
MarkWholeNotification(d) ==
    /\ Step(d, "mark", "list")
    /\ row' = [e \in Deliveries |->
                 IF e[1] # d[1] \/ row[e] = "none" THEN row[e]
                 ELSE IF outcome[d] = "success" THEN "delivered" ELSE "failed"]
    /\ UNCHANGED <<api, status, queue, outcome, seen, outside>>
MarkSuccessOnly(d) ==
    /\ Step(d, "mark", "list")
    /\ row' = [row EXCEPT ![d] = IF outcome[d] = "success" THEN "delivered" ELSE @]
    /\ UNCHANGED <<api, status, queue, outcome, seen, outside>>
MarkFailedForGood(d) ==
    /\ Step(d, "mark", "list")
    /\ row' = [row EXCEPT ![d] =
                 IF outcome[d] = "success" /\ @ # "failed" THEN "delivered" ELSE "failed"]
    /\ UNCHANGED <<api, status, queue, outcome, seen, outside>>

(* recordAttempt: the delivery row; an error is only logged.                *)
MarkDeliveryResult(d) ==
    /\ Step(d, "mark", "list")
    /\ \/ row' = [row EXCEPT ![d] = IF outcome[d] = "success" THEN "delivered" ELSE "failed"]
       \/ StoreFails /\ UNCHANGED row
    /\ UNCHANGED <<api, status, queue, outcome, seen, outside>>

(* The status that the delivery rows there are now add up to.               *)
Statuses(n)  == {row[d] : d \in Of(n)} \ {"none"}
Aggregate(n) ==
    CASE "pending" \in Statuses(n)              -> "sent"
      [] Statuses(n) = {"delivered"}            -> "delivered"
      [] Statuses(n) = {"failed"}               -> "failed"
      [] Statuses(n) = {"delivered", "failed"}  -> "partial"

ListDeliveries(d) ==
    /\ \/ Step(d, "list", "write") /\ seen' = [seen EXCEPT ![d] = Aggregate(d[1])]
       \/ StoreFails /\ Step(d, "list", "hook") /\ UNCHANGED seen
    /\ UNCHANGED <<api, store, queue, outcome, outside>>

(* Mutant of UpdateNotificationStatus: only the first update is written.    *)
UpdateOnce(d) ==
    /\ Step(d, "write", "hook")
    /\ status' = [status EXCEPT ![d[1]] = IF @ = "queued" THEN seen[d] ELSE @]
    /\ seen' = [seen EXCEPT ![d] = "none"]
    /\ UNCHANGED <<api, row, queue, outcome, outside>>

UpdateNotificationStatus(d) ==
    /\ Step(d, "write", "hook")
    /\ \/ status' = [status EXCEPT ![d[1]] = seen[d]]
       \/ StoreFails /\ UNCHANGED status
    /\ seen' = [seen EXCEPT ![d] = "none"]
    /\ UNCHANGED <<api, row, queue, outcome, outside>>

(* Every recorded provider answer fires a webhook, a dead subscription and  *)
(* an unreadable subscriber do not.                                         *)
FireWebhook(d) ==
    /\ Step(d, "hook", "return")
    /\ hooks' = CASE outcome[d] = "success"          -> [hooks EXCEPT ![d] = Append(@, "delivered")]
                  [] outcome[d] \in {"error", "soft"} -> [hooks EXCEPT ![d] = Append(@, "failed")]
                  [] OTHER                            -> hooks
    /\ UNCHANGED <<api, store, queue, outcome, seen, accepted>>

(* Mutant of Retryable: the recorded status decides.                        *)
RetryableByRow(d) == row[d] # "delivered"

(* The error of HandleDelivery decides whether the job is finished, or goes *)
(* to a retry or, its attempts used up or the retry refused, a dead letter. *)
Retryable(d) == outcome[d] \in {"error", "unread"}

ReturnToQueue(d) ==
    /\ Step(d, "return", "idle")
    /\ IF Retryable(d)
         THEN Queue!Retry(d) \/ Queue!GiveUp(d)
         ELSE Queue!Succeed(d)
    /\ outcome' = [outcome EXCEPT ![d] = "none"]
    /\ UNCHANGED <<api, store, seen, outside>>

(* A worker process dies with the jobs its handlers were running.           *)
WorkerCrash(S) ==
    /\ S # {} /\ Queue!Lose(S)
    /\ handler' = [d \in Deliveries |-> IF d \in S THEN "idle" ELSE handler[d]]
    /\ outcome' = [d \in Deliveries |-> IF d \in S THEN "none" ELSE outcome[d]]
    /\ seen' = [d \in Deliveries |-> IF d \in S THEN "none" ELSE seen[d]]
    /\ UNCHANGED <<api, store, outside>>
-----------------------------------------------------------------------------
SendStep(n) ==
    \/ CheckLimit(n) \/ Invalid(n) \/ CreateNotification(n)
    \/ SkipChannel(n) \/ CreateDelivery(n) \/ EnqueueJob(n) \/ CountUsage(n)
    \/ Abandon(n)
HandlerStep(d) ==
    \/ TakeJob(d) \/ Load(d) \/ CallProvider(d) \/ MarkDeliveryResult(d)
    \/ ListDeliveries(d) \/ UpdateNotificationStatus(d) \/ FireWebhook(d) \/ ReturnToQueue(d)

Next ==
    \/ \E n \in Notifs : SendStep(n)
    \/ \E d \in Deliveries : QueueStep(d) \/ HandlerStep(d)
    \/ \E S \in SUBSET Deliveries : WorkerCrash(S)

Spec == Init /\ [][Next]_vars

(* The API serves a request to its end, delayed jobs come due and are       *)
(* promoted, and workers take jobs and run handlers to their end (every     *)
(* provider call has a timeout); TakeJob needs strong fairness because      *)
(* another job may occupy the worker.                                       *)
FairSpec ==
    /\ Spec
    /\ \A n \in Notifs : WF_vars(SendStep(n))
    /\ \A d \in Deliveries :
         WF_vars(QueueStep(d)) /\ WF_vars(HandlerStep(d)) /\ SF_vars(TakeJob(d))

-----------------------------------------------------------------------------
(* Whatever fails or crashes, a provider whose acceptance reached a handler *)
(* is not called again for that delivery: retries are for attempts that     *)
(* were seen to fail.  (An acceptance whose answer is lost is an `error'.)  *)
AcceptedOnce ==
    \A d \in Deliveries :
        /\ accepted[d] <= 1
        /\ accepted[d] = 1 => phase[d] # "ready" /\ phase[d] # "waiting" /\ handler[d] # "call"

(* A delivery recorded as delivered stays so: the late record of an earlier *)
(* attempt, or of another delivery, never overwrites it.                    *)
DeliveredIsFinal ==
    [][\A d \in Deliveries : row[d] = "delivered" => row'[d] = "delivered"]_vars

(* A request answered with success has a row and a job for every channel it *)
(* asked for and the service knows, whatever failed on the way.             *)
AcceptedMeansQueued ==
    \A n \in Notifs : send[n] = "accepted" =>
        \A d \in Of(n) :
            Requested[n][d[2]] \in KnownChannels => row[d] # "none" /\ phase[d] # "new"

(* Without store failures and crashes, a job that left the queue has left a *)
(* record, of the kind the queue saw: a dead letter is a failed delivery.   *)
SettledIsRecorded ==
    \A d \in Deliveries :
        /\ phase[d] = "done" => row[d] \in {"delivered", "failed"}
        /\ phase[d] = "dead" => row[d] = "failed"

(* A customer's server that is told of an attempt finds it in the API: the  *)
(* event that is fired is the status of the row, and `delivered' is the     *)
(* last event and comes once.                                               *)
HooksTellTheRow ==
    /\ \A d \in Deliveries : \A i \in DOMAIN hooks[d] :
         hooks[d][i] = "delivered" => i = Len(hooks[d]) /\ row[d] = "delivered"
    /\ \A d \in Deliveries :
         handler[d] = "return" /\ outcome[d] \in {"success", "soft", "error"} =>
            hooks[d] # <<>> /\ hooks[d][Len(hooks[d])] = row[d]

(* The status of a notification, once Send has returned and its jobs are    *)
(* settled, is the aggregate of its deliveries.                             *)
Settled(n) ==
    /\ send[n] = "accepted"
    /\ \A d \in Of(n) : phase[d] \in {"new", "done", "dead"} /\ handler[d] = "idle"
StatusIsAggregate ==
    \A n \in Notifs : Settled(n) /\ Statuses(n) # {} => status[n] = Aggregate(n)

(* An accepted notification for a known channel comes to rest in a final    *)
(* status, and not only passes through one between two attempts.            *)
EventuallyFinal ==
    \A n \in Notifs :
        <>[](send[n] = "accepted" /\ Statuses(n) # {} => status[n] \in {"delivered", "failed", "partial"})

(* The API's requests together do to the usage counter what SendQuota       *)
(* allows.                                                                  *)
Quota == INSTANCE SendQuota WITH
    Slots <- Notifs,
    stage <- [n \in Notifs |-> IF send[n] \in {"insert", "row", "job"} THEN "sending" ELSE "idle"]
ImplementsQuota == Quota!QuotaSpec
=============================================================================

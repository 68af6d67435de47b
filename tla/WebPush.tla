------------------------------- MODULE WebPush -------------------------------
(***************************************************************************)
(* A subscriber, its browser's push subscription and the deliveries that    *)
(* use it (services/subscriber.go, store/subscribers.go,                   *)
(* channels/webpush.go, HandleDelivery).  The browser and the push service *)
(* are external: an endpoint is dead once the browser has another or none. *)
(***************************************************************************)
EXTENDS Integers, FiniteSets

CONSTANTS
    Endpoints,   \* subscriptions the browser makes, one after another
    Pushes,      \* notifications for the subscriber, with the one channel
    MaxRows,     \* bound on how often the subscriber is created
    MaxTries,    \* MaxAttempts of the queue
    NoEndpoint

ASSUME WebPushAssumption == NoEndpoint \notin Endpoints /\ MaxRows \in Nat /\ MaxTries \in Nat

Absent == [id |-> 0, push |-> NoEndpoint]

VARIABLES
    subscriber, \* the row: its id, 0 when there is none, and its subscription
    rows,       \* ids given so far
    browser,    \* the browser's present endpoint
    posted,     \* registrations on their way
    push,       \* the step of each notification or of its handler
    seenAs,     \* the subscriber row the step before read
    tries       \* attempts of each job

pushVars == <<subscriber, rows, browser, posted, push, seenAs, tries>>

PushInit ==
    /\ subscriber = Absent /\ rows = 0 /\ browser = NoEndpoint /\ posted = {}
    /\ push = [p \in Pushes |-> "new"] /\ seenAs = [p \in Pushes |-> Absent]
    /\ tries = [p \in Pushes |-> 0]

Step(p, s)  == push' = [push EXCEPT ![p] = s]
ReadRow(p)  == seenAs' = [seenAs EXCEPT ![p] = subscriber]
deliveries  == <<push, seenAs, tries>>

-----------------------------------------------------------------------------
(* The subscriber API.                                                      *)
UpsertSubscriber ==
    /\ subscriber = Absent /\ rows < MaxRows
    /\ rows' = rows + 1
    /\ subscriber' = [id |-> rows + 1, push |-> NoEndpoint]
    /\ UNCHANGED <<browser, posted, deliveries>>

(* notifications.subscriber_id references the row.                          *)
Referenced(id) ==
    \E p \in Pushes : push[p] \notin {"new", "looked", "rejected"} /\ seenAs[p].id = id

(* Mutant of DeleteSubscriber: as if rows that refer to it let it go.       *)
DeleteAnyway ==
    /\ subscriber' = Absent
    /\ UNCHANGED <<rows, browser, posted, deliveries>>

(* The foreign key refuses the DELETE of a subscriber with notifications.   *)
DeleteSubscriber ==
    /\ subscriber # Absent /\ ~Referenced(subscriber.id)
    /\ subscriber' = Absent
    /\ UNCHANGED <<rows, browser, posted, deliveries>>

(* The browser subscribes, again or for the first time, and posts it.       *)
Subscribe(e) ==
    /\ e # browser /\ e \notin posted /\ subscriber.push # e
    /\ \A p \in Pushes : seenAs[p].push # e
    /\ browser' = e /\ posted' = posted \cup {e}
    /\ UNCHANGED <<subscriber, rows, deliveries>>

Unsubscribe ==
    /\ browser # NoEndpoint /\ browser' = NoEndpoint
    /\ UNCHANGED <<subscriber, rows, posted, deliveries>>

(* An UPDATE; one that finds no row is answered with 400.                    *)
SetWebPushSubscription(e) ==
    subscriber' = IF subscriber = Absent THEN Absent ELSE [subscriber EXCEPT !.push = e]

RegisterWebPush(e) ==
    /\ e \in posted /\ posted' = posted \ {e}
    /\ SetWebPushSubscription(e)
    /\ UNCHANGED <<rows, browser, deliveries>>

-----------------------------------------------------------------------------
(* Send reads the subscriber, and inserts a notification that refers to it. *)
LookUpSubscriber(p) ==
    /\ push[p] = "new" /\ subscriber # Absent
    /\ ReadRow(p) /\ Step(p, "looked")
    /\ UNCHANGED <<subscriber, rows, browser, posted, tries>>

InsertNotification(p) ==
    /\ push[p] = "looked"
    /\ Step(p, IF subscriber.id = seenAs[p].id THEN "queued" ELSE "rejected")
    /\ UNCHANGED <<subscriber, rows, browser, posted, seenAs, tries>>

-----------------------------------------------------------------------------
(* HandleDelivery.  An error returned to the consumer is retried.           *)
Retried(n) == IF n < MaxTries THEN "queued" ELSE "failed"

(* The workspace is loaded first, and an error of that is returned.  Then   *)
(* the subscriber, by its external id: there is none, or one without a      *)
(* subscription; any other error ends the delivery like a missing row.      *)
LoadSubscriber(p) ==
    /\ push[p] = "queued"
    /\ tries' = [tries EXCEPT ![p] = @ + 1]
    /\ \/ Step(p, Retried(tries[p] + 1)) /\ UNCHANGED seenAs
       \/ Step(p, "failed") /\ UNCHANGED seenAs
       \/ /\ ReadRow(p)
          /\ Step(p, IF subscriber = Absent THEN "orphan"
                     ELSE IF subscriber.push = NoEndpoint THEN "failed" ELSE "sending")
    /\ UNCHANGED <<subscriber, rows, browser, posted>>

(* 404 and 410: the browser has another subscription, or none.              *)
GoneAnswers(e) == browser # e

SendPush(p) ==
    /\ push[p] = "sending"
    /\ \/ browser = seenAs[p].push /\ Step(p, "delivered")
       \/ GoneAnswers(seenAs[p].push) /\ Step(p, "gone")
       \/ Step(p, Retried(tries[p]))
    /\ UNCHANGED <<subscriber, rows, browser, posted, seenAs, tries>>

(* Whatever subscription the row has by now is cleared; an error is logged. *)
ClearWebPush(id) == IF subscriber.id = id THEN [subscriber EXCEPT !.push = NoEndpoint]
                                          ELSE subscriber

DeactivateWebPush(p) ==
    /\ push[p] = "gone" /\ Step(p, "failed")
    /\ subscriber' \in {subscriber, ClearWebPush(seenAs[p].id)}
    /\ UNCHANGED <<rows, browser, posted, seenAs, tries>>

PushNext ==
    \/ UpsertSubscriber \/ DeleteSubscriber \/ Unsubscribe
    \/ \E e \in Endpoints : Subscribe(e) \/ RegisterWebPush(e)
    \/ \E p \in Pushes : \/ LookUpSubscriber(p) \/ InsertNotification(p)
                         \/ LoadSubscriber(p) \/ SendPush(p) \/ DeactivateWebPush(p)

PushSpec == PushInit /\ [][PushNext]_pushVars

-----------------------------------------------------------------------------
(* A job's handler, when its lookup answers, finds the very subscriber the  *)
(* notification was sent to: the foreign key keeps it, through deletion and *)
(* re-creation under the same external id, and no handler meets the absence *)
(* of the row that HandleDelivery's comment expects.                        *)
JobsHaveSubscribers ==
    \A p \in Pushes :
        /\ push[p] # "orphan"
        /\ push[p] \in {"queued", "sending", "gone"} => subscriber.id = seenAs[p].id

(* "DeactivateWebPush clears an expired push subscription": never the one   *)
(* that the browser has at that moment.                                     *)
OnlyExpiredAreCleared ==
    [][ (subscriber.push = browser /\ browser # NoEndpoint /\ subscriber'.id = subscriber.id)
          => subscriber'.push # NoEndpoint ]_pushVars
=============================================================================

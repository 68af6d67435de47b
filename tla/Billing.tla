------------------------------- MODULE Billing -------------------------------
(***************************************************************************)
(* Billing (services/billing.go, store/billing.go, handlers/billing.go):   *)
(* checkouts that create the workspace's Stripe customer, and the webhook  *)
(* that copies what Stripe says of a subscription into the workspace row.  *)
(* A customer, and a subscription, is named after the checkout that made   *)
(* it.  Stripe itself is external.                                         *)
(***************************************************************************)
EXTENDS Integers, Sequences

CONSTANTS
    Checkouts,   \* requests to upgrade
    Buyer,       \* the workspace each is made for
    Orderly,     \* Stripe's events of a customer arrive one by one, and a
                 \* workspace has one checkout or subscription at a time
    MaxEvents,   \* bound on the events Stripe emits
    MaxFailures, \* bound on failed statements and calls, and on repeated events
    NoCustomer

ASSUME BillingAssumption ==
    Orderly \in BOOLEAN /\ MaxEvents \in Nat /\ MaxFailures \in Nat /\ NoCustomer \notin Checkouts

Buyers == {Buyer[k] : k \in Checkouts}

VARIABLES
    row,       \* customer, plan and subscription of each workspace
    checkout,  \* the step of each checkout, and its Stripe customer
    paid,      \* external: the status of the subscription each one led to
    events,    \* external: the events so far; what became of the delivery of
               \* each, and the workspace that its handler has found
    failures   \* counts what MaxFailures bounds

billingVars == <<row, checkout, paid, events, failures>>

BillingInit ==
    /\ row = [w \in Buyers |-> [customer |-> NoCustomer, plan |-> "free", sub |-> NoCustomer]]
    /\ checkout = [k \in Checkouts |-> [at |-> "idle", customer |-> NoCustomer]]
    /\ paid = [k \in Checkouts |-> "none"]
    /\ events = <<>> /\ failures = 0

BillingFails == failures < MaxFailures /\ failures' = failures + 1

-----------------------------------------------------------------------------
(* Checkout.  The customer is created in Stripe from a reading of the row    *)
(* that says there is none.                                                 *)
Busy(k) == checkout[k].at \in {"persist", "session", "open"} \/ paid[k] \in {"active", "past_due"}

CreateCheckout(k) ==
    /\ checkout[k].at = "idle"
    /\ Orderly => \A h \in Checkouts : Buyer[h] = Buyer[k] => ~Busy(h)
    /\ LET known == row[Buyer[k]].customer IN
         checkout' = [checkout EXCEPT ![k] =
             IF known # NoCustomer THEN [at |-> "session", customer |-> known]
                             ELSE [at |-> "persist", customer |-> k]]
    /\ UNCHANGED <<row, paid, events, failures>>

SetCustomer(k) == row' = [row EXCEPT ![Buyer[k]].customer = checkout[k].customer]

(* Mutant of PersistCustomer: the checkout goes on when the update fails.   *)
PersistBestEffort(k) ==
    /\ checkout[k].at = "persist"
    /\ checkout' = [checkout EXCEPT ![k].at = "session"]
    /\ (SetCustomer(k) /\ UNCHANGED failures) \/ (BillingFails /\ UNCHANGED row)
    /\ UNCHANGED <<paid, events>>

PersistCustomer(k) ==
    /\ checkout[k].at = "persist"
    /\ \/ SetCustomer(k) /\ checkout' = [checkout EXCEPT ![k].at = "session"] /\ UNCHANGED failures
       \/ /\ BillingFails /\ (SetCustomer(k) \/ UNCHANGED row)
          /\ checkout' = [checkout EXCEPT ![k].at = "failed"]
    /\ UNCHANGED <<paid, events>>

OpenSession(k) ==
    /\ checkout[k].at = "session"
    /\ \/ checkout' = [checkout EXCEPT ![k].at = "open"] /\ UNCHANGED failures
       \/ checkout' = [checkout EXCEPT ![k].at = "failed"] /\ BillingFails
    /\ UNCHANGED <<row, paid, events>>

-----------------------------------------------------------------------------
(* Stripe.  Paying completes the session and creates a subscription.        *)
Emit(k, kinds) ==
    /\ Len(events) + Len(kinds) <= MaxEvents
    /\ events' = events \o [i \in DOMAIN kinds |->
                    [of |-> k, kind |-> kinds[i], status |-> paid'[k], at |-> "sent", ws |-> NoCustomer]]

Pay(k) ==
    /\ checkout[k].at = "open"
    /\ checkout' = [checkout EXCEPT ![k].at = "paid"]
    /\ paid' = [paid EXCEPT ![k] = "active"]
    /\ Emit(k, <<"session", "subscription">>) \/ Emit(k, <<"subscription", "session">>)
    /\ UNCHANGED <<row, failures>>

(* A renewal fails or succeeds, dunning gives up.                           *)
Renew(k) ==
    /\ \/ paid[k] = "active" /\ paid' = [paid EXCEPT ![k] = "past_due"]
       \/ paid[k] = "past_due" /\ \E s \in {"active", "canceled"} : paid' = [paid EXCEPT ![k] = s]
    /\ Emit(k, <<"subscription">>)
    /\ UNCHANGED <<row, checkout, failures>>

(* The portal opens for the customer in the row and for no other.           *)
CancelInPortal(k) ==
    /\ paid[k] \in {"active", "past_due"} /\ row[Buyer[k]].customer = checkout[k].customer
    /\ paid' = [paid EXCEPT ![k] = "canceled"]
    /\ Emit(k, <<"subscription">>)
    /\ UNCHANGED <<row, checkout, failures>>

-----------------------------------------------------------------------------
(* The webhook.                                                             *)
CustomerOf(i) == checkout[events[i].of].customer
Same(i, j)    == CustomerOf(i) = CustomerOf(j)
Matches(i)    == {w \in Buyers : row[w].customer = CustomerOf(i)}

(* The lookup by customer; one that finds nothing is answered with 400, and *)
(* Stripe sends the event again.                                            *)
ReceiveEvent(i) ==
    /\ events[i].at = "sent"
    /\ Orderly => \A j \in 1..(i - 1) : Same(i, j) => events[j].at = "acked"
    /\ \E w \in Matches(i) : events' = [events EXCEPT ![i].at = "found", ![i].ws = w]
    /\ UNCHANGED <<row, checkout, paid, failures>>

(* Mutant of GrantsPro: a subscription is pro until it is canceled.         *)
GrantsUntilCanceled(e) == e.status # "canceled"
(* A completed session, and an active or trialing subscription.             *)
GrantsPro(e) == e.kind = "session" \/ e.status = "active"

UpdateWorkspaceSubscription(i) ==
    row' = [row EXCEPT ![events[i].ws] =
              IF GrantsPro(events[i]) THEN [@ EXCEPT !.plan = "pro", !.sub = events[i].of]
                                      ELSE [@ EXCEPT !.plan = "free", !.sub = NoCustomer]]

(* 200, or 400, after which Stripe sends the event again.                    *)
BillingWebhook(i, done) == events' = [events EXCEPT ![i].at = IF done THEN "acked" ELSE "sent"]

ApplyEvent(i) ==
    /\ events[i].at = "found"
    /\ \/ UpdateWorkspaceSubscription(i) /\ BillingWebhook(i, TRUE) /\ UNCHANGED failures
       \/ /\ BillingFails /\ BillingWebhook(i, FALSE)
          /\ UpdateWorkspaceSubscription(i) \/ UNCHANGED row
    /\ UNCHANGED <<checkout, paid>>

(* Stripe delivers at least once.                                           *)
RepeatEvent(i) ==
    /\ events[i].at = "acked" /\ BillingFails
    /\ Orderly => \A j \in (i + 1)..Len(events) : ~Same(i, j)
    /\ events' = [events EXCEPT ![i].at = "sent"]
    /\ UNCHANGED <<row, checkout, paid>>

BillingNext ==
    \/ \E k \in Checkouts : \/ CreateCheckout(k) \/ PersistCustomer(k) \/ OpenSession(k)
                            \/ Pay(k) \/ Renew(k) \/ CancelInPortal(k)
    \/ \E i \in DOMAIN events : ReceiveEvent(i) \/ ApplyEvent(i) \/ RepeatEvent(i)

BillingSpec == BillingInit /\ [][BillingNext]_billingVars

-----------------------------------------------------------------------------
(* Once every event is acknowledged, a workspace is on the pro plan exactly *)
(* when it has an active subscription, and it is that one the row names.    *)
PlanFollowsSubscription ==
    (\A i \in DOMAIN events : events[i].at = "acked") =>
        \A w \in Buyers :
            LET active == {k \in Checkouts : Buyer[k] = w /\ paid[k] = "active"} IN
            IF active = {} THEN row[w].plan = "free" ELSE row[w].plan = "pro" /\ row[w].sub \in active

(* Who can pay, or pays, is known: its workspace's row names the customer,  *)
(* without which no event of it is accepted and no portal opens, whatever   *)
(* statement fails in the checkout.                                         *)
PayersAreKnown ==
    \A k \in Checkouts : checkout[k].at \in {"session", "open", "paid"} =>
        row[Buyer[k]].customer = checkout[k].customer

(* Who subscribed gets the plan.                                            *)
PlanCatchesUp ==
    \A k \in Checkouts :
        paid[k] = "active" ~> paid[k] # "active" \/ row[Buyer[k]].plan = "pro"
=============================================================================

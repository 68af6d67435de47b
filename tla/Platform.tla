------------------------------ MODULE Platform ------------------------------
(***************************************************************************)
(* The components around the queue, the notification service and the hub's  *)
(* cluster, side by side.  They share no state in the code: each has tables *)
(* or keys of its own, and what passes between them is an input here.  So   *)
(* the behaviours of the whole are interleavings of theirs, a property of   *)
(* one depends on that one's steps only, and it is enough to look at each   *)
(* while the others rest: focus, chosen at the start, is the one that acts. *)
(***************************************************************************)
EXTENDS Billing, RateLimiter, Accounts, WebPush, Webhooks, Templates, Overview,
        ServerProcess, SdkRequest, RealtimeConnection, SendQuota, Hub

CONSTANT Focuses  \* the components to look at

VARIABLE focus

clientVars == <<sdkVars, realtimeVars>>
adminVars  == <<accountVars, pushVars, templateVars, overviewVars>>
edgeVars   == <<rateVars, hookVars, serverVars>>
coreVars   == <<billingVars, quotaVars, hubVars>>
platformVars == <<focus, clientVars, adminVars, edgeVars, coreVars>>

PlatformInit ==
    /\ focus \in Focuses
    /\ BillingInit /\ QuotaInit /\ HubInit
    /\ RateInit /\ HooksInit /\ ServerInit
    /\ AccountsInit /\ PushInit /\ TemplatesInit /\ OverviewInit
    /\ SdkInit /\ RealtimeInit

CoreNext ==
    \/ focus = "billing" /\ BillingNext /\ UNCHANGED <<quotaVars, hubVars>>
    \/ focus = "quota" /\ QuotaNext /\ UNCHANGED <<billingVars, hubVars>>
    \/ focus = "hub" /\ HubNext /\ UNCHANGED <<billingVars, quotaVars>>

EdgeNext ==
    \/ focus = "ratelimit" /\ RateNext /\ UNCHANGED <<hookVars, serverVars>>
    \/ focus = "webhooks" /\ HooksNext /\ UNCHANGED <<rateVars, serverVars>>
    \/ focus = "server" /\ ServerNext /\ UNCHANGED <<rateVars, hookVars>>

AdminNext ==
    \/ focus = "accounts" /\ AccountsNext /\ UNCHANGED <<pushVars, templateVars, overviewVars>>
    \/ focus = "webpush" /\ PushNext /\ UNCHANGED <<accountVars, templateVars, overviewVars>>
    \/ focus = "templates" /\ TemplatesNext /\ UNCHANGED <<accountVars, pushVars, overviewVars>>
    \/ focus = "overview" /\ OverviewNext /\ UNCHANGED <<accountVars, pushVars, templateVars>>

ClientNext ==
    \/ focus = "request" /\ SdkNext /\ UNCHANGED realtimeVars
    \/ focus = "realtime" /\ RealtimeNext /\ UNCHANGED sdkVars

PlatformNext ==
    \/ CoreNext /\ UNCHANGED <<focus, edgeVars, adminVars, clientVars>>
    \/ EdgeNext /\ UNCHANGED <<focus, coreVars, adminVars, clientVars>>
    \/ AdminNext /\ UNCHANGED <<focus, coreVars, edgeVars, clientVars>>
    \/ ClientNext /\ UNCHANGED <<focus, coreVars, edgeVars, adminVars>>

(* Fairness, for the component that acts.  Stripe keeps delivering what is  *)
(* not acknowledged.  The hub loop, the bridge and the clients in Readers   *)
(* run, other clients need not.  Processes are restarted, those not blocked *)
(* run, requests end, but streams need not.                                 *)
Fairness ==
    /\ \A i \in 1..MaxEvents :
         WF_billingVars(focus = "billing" /\ i \in DOMAIN events /\ (ReceiveEvent(i) \/ ApplyEvent(i)))
    /\ \A n \in Nodes : /\ WF_hubVars(focus = "hub" /\ HubStep(n))
                        /\ WF_hubVars(focus = "hub" /\ Forward(n))
    /\ \A c \in Readers : WF_hubVars(focus = "hub" /\ WriteMessage(c))
    /\ \A p \in Servers : /\ WF_serverVars(focus = "server" /\ (Boot(p) \/ Migrate(p)))
                          /\ WF_serverVars(focus = "server" /\ (ShutdownReturns(p) \/ Exit(p)))
                          /\ WF_serverVars(focus = "server" /\ Answered(p, "request"))

PlatformSpec == PlatformInit /\ [][PlatformNext]_platformVars /\ Fairness
====

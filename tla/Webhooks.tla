------------------------------ MODULE Webhooks ------------------------------
(***************************************************************************)
(* Outgoing webhooks (services/webhook.go, store/webhooks.go,              *)
(* handlers/webhooks.go): inside a delivery handler, one dispatch lists the *)
(* endpoints of an event and posts to one after another, while endpoints    *)
(* are created and deleted.  The endpoints are external.  The log of a      *)
(* request, which nothing but a list for the user reads, is left out.       *)
(***************************************************************************)
EXTENDS Integers

CONSTANTS
    Hooks,       \* endpoints that may be created
    HookOwner,   \* the workspace of each
    HookEvents,  \* the events each is subscribed to
    BadUrls,     \* endpoints whose URL no request can be built for
    Dispatches,  \* calls of Dispatch
    DispatchOf   \* the workspace and event of each

ASSUME HooksAssumption == BadUrls \subseteq Hooks

VARIABLES
    hooks,     \* the webhooks table
    created,   \* ids already given
    dispatch,  \* the step of each dispatch, and the endpoints its loop has left
    listed,    \* history: what each dispatch listed
    posts      \* history: the requests each dispatch made to each endpoint

hookVars == <<hooks, created, dispatch, listed, posts>>

HooksInit ==
    /\ hooks = {} /\ created = {}
    /\ dispatch = [d \in Dispatches |-> [at |-> "idle", left |-> {}]]
    /\ listed = [d \in Dispatches |-> {}]
    /\ posts = [d \in Dispatches |-> [h \in Hooks |-> 0]]

-----------------------------------------------------------------------------
CreateWebhook(h) ==
    /\ h \notin created
    /\ created' = created \cup {h} /\ hooks' = hooks \cup {h}
    /\ UNCHANGED <<dispatch, listed, posts>>

DeleteWebhook(h) ==
    /\ h \in hooks /\ hooks' = hooks \ {h}
    /\ UNCHANGED <<created, dispatch, listed, posts>>

-----------------------------------------------------------------------------
ListActiveWebhooksForEvent(d) ==
    {h \in hooks : HookOwner[h] = DispatchOf[d].owner /\ DispatchOf[d].event \in HookEvents[h]}

(* A failure of the query ends the dispatch.                                *)
Dispatch(d) ==
    /\ dispatch[d].at = "idle"
    /\ \E found \in {{}, ListActiveWebhooksForEvent(d)} :
         /\ dispatch' = [dispatch EXCEPT ![d] = [at |-> "next", left |-> found]]
         /\ listed' = [listed EXCEPT ![d] = found]
    /\ UNCHANGED <<hooks, created, posts>>

(* The loop takes the next endpoint, in any order, whether it still exists  *)
(* or not.                                                                  *)
Post(d, h) ==
    /\ dispatch[d].at = "next" /\ h \in dispatch[d].left
    /\ dispatch' = [dispatch EXCEPT ![d] = [at |-> IF h \in BadUrls THEN "next" ELSE "posting",
                                            left |-> @.left \ {h}]]
    /\ posts' = [posts EXCEPT ![d][h] = IF h \in BadUrls THEN @ ELSE @ + 1]
    /\ UNCHANGED <<hooks, created, listed>>

(* Mutant of RequestEnds: an error ends the dispatch.                       *)
RequestEndsAll(d) ==
    /\ dispatch[d].at = "posting"
    /\ \E left \in {dispatch[d].left, {}} :
         dispatch' = [dispatch EXCEPT ![d] = [at |-> "next", left |-> left]]
    /\ UNCHANGED <<hooks, created, listed, posts>>

(* The endpoint answers with any status, or the request fails, at the       *)
(* latest after the client's ten seconds.  It is logged, if that succeeds.  *)
RequestEnds(d) ==
    /\ dispatch[d].at = "posting"
    /\ dispatch' = [dispatch EXCEPT ![d].at = "next"]
    /\ UNCHANGED <<hooks, created, listed, posts>>

EndDispatch(d) ==
    /\ dispatch[d].at = "next" /\ dispatch[d].left = {}
    /\ dispatch' = [dispatch EXCEPT ![d].at = "done"]
    /\ UNCHANGED <<hooks, created, listed, posts>>

HooksNext ==
    \/ \E h \in Hooks : CreateWebhook(h) \/ DeleteWebhook(h)
    \/ \E d \in Dispatches : \/ Dispatch(d) \/ RequestEnds(d) \/ EndDispatch(d)
                            \/ \E h \in Hooks : Post(d, h)

HooksSpec == HooksInit /\ [][HooksNext]_hookVars

-----------------------------------------------------------------------------
(* Whatever some endpoints do, and whoever is deleted meanwhile, a dispatch *)
(* that ends has made exactly one request to each endpoint it listed and    *)
(* could build one for, and none to any other.                              *)
FailuresStayLocal ==
    \A d \in Dispatches : dispatch[d].at = "done" =>
        \A h \in Hooks : posts[d][h] = IF h \in listed[d] \ BadUrls THEN 1 ELSE 0
=============================================================================

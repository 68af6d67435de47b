---------------------------- MODULE Admin_proofs ----------------------------
(***************************************************************************)
(* Accounts and keys, the subscriber of a queued push, the overview,       *)
(* templates and outgoing webhooks, for every number of registrations,     *)
(* keys, statements that fail, subscribers, deliveries, requests, edits    *)
(* and endpoints.                                                          *)
(***************************************************************************)
EXTENDS Accounts, WebPush, Overview, Templates, Webhooks, TLAPS

-----------------------------------------------------------------------------
(* Registration.                                                            *)

(* A registration that is past its first insert owns the row of its e-mail, *)
(* nobody else has it, and its workspace is there once it is answered.      *)
AccountInv ==
    /\ users \in [Emails -> Registrations \cup {NoOne}]
    /\ step \in [Registrations -> {"lookup", "user", "workspace", "created", "conflict", "failed"}]
    /\ spaces \subseteq Registrations
    /\ \A r \in Registrations :
         /\ step[r] \in {"workspace", "created"} => users[EmailOf[r]] = r
         /\ step[r] = "created" => r \in spaces

(* Keys that are not handed out are in no row, and a row is of the workspace*)
(* its key was handed out to.                                               *)
KeyInv ==
    /\ keys \in [Keys -> Registrations \cup {NoOne}]
    /\ issued \in [Keys -> Registrations \cup {NoOne}]
    /\ revoker \in [Keys -> Registrations \cup {NoOne}]
    /\ spaces \subseteq Registrations
    /\ \A k \in Keys : issued[k] = NoOne => keys[k] = NoOne /\ revoker[k] = NoOne
    /\ acted \subseteq Keys \X Registrations
    /\ KeysLastUntilRevoked

LEMMA AccountStart == AccountsInit => AccountInv /\ KeyInv
<1> SUFFICES ASSUME AccountsInit PROVE AccountInv /\ KeyInv
  OBVIOUS
<1> USE AccountsAssumption DEF AccountsInit
<1>1. AccountInv
  BY DEF AccountInv, Emails
<1>2. KeyInv
  BY DEF KeyInv, KeysLastUntilRevoked
<1> QED BY <1>1, <1>2

(* The unique constraint makes the insert the moment that decides.          *)
LEMMA CreateUserStep ==
    ASSUME AccountInv, NEW r \in Registrations, CreateUser(r)
    PROVE  AccountInv'
<1> USE AccountsAssumption DEF AccountInv
<1>1. EmailOf[r] \in Emails /\ step[r] = "user" /\ spaces' = spaces
  BY DEF Emails, CreateUser, spaceVars
<1>2. CASE users[EmailOf[r]] = NoOne /\ InsertUser(r) /\ (ToStep(r, "workspace") \/ ToStep(r, "failed"))
  BY <1>1, <1>2 DEF InsertUser, ToStep
<1>3. CASE users' = users /\ ToStep(r, "failed")
  BY <1>1, <1>3 DEF ToStep
<1> QED BY <1>2, <1>3 DEF CreateUser

LEMMA CreateWorkspaceStep ==
    ASSUME AccountInv, NEW r \in Registrations, NEW x \in Suffixes, CreateWorkspace(r, x)
    PROVE  AccountInv'
<1> USE AccountsAssumption DEF AccountInv
<1>1. step[r] = "workspace" /\ users' = users
  BY DEF CreateWorkspace
<1>2. CASE InsertWorkspace(r, uniqueSlug(r, x)) /\ (ToStep(r, "created") \/ ToStep(r, "failed"))
  BY <1>1, <1>2 DEF InsertWorkspace, ToStep
<1>3. CASE spaces' = spaces /\ ToStep(r, "failed")
  BY <1>1, <1>3 DEF ToStep
<1> QED BY <1>2, <1>3 DEF CreateWorkspace, spaceVars

LEMMA LookUpStep ==
    ASSUME AccountInv, NEW r \in Registrations, LookUpEmail(r)
    PROVE  AccountInv'
<1>1. step[r] = "lookup" /\ users' = users /\ spaces' = spaces
  BY DEF LookUpEmail, spaceVars
<1>2. \E s \in {"user", "conflict", "failed"} : step' = [step EXCEPT ![r] = s]
  BY DEF LookUpEmail, ToStep
<1> QED BY <1>1, <1>2 DEF AccountInv

LEMMA AccountStep == AccountInv /\ KeyInv /\ [AccountsNext]_accountVars => AccountInv' /\ KeyInv'
<1> SUFFICES ASSUME AccountInv, KeyInv, [AccountsNext]_accountVars PROVE AccountInv' /\ KeyInv'
  OBVIOUS
<1> USE AccountsAssumption
<1>1. CASE UNCHANGED accountVars
  BY <1>1 DEF accountVars, AccountInv, KeyInv, KeysLastUntilRevoked
<1>2. ASSUME NEW r \in Registrations,
             LookUpEmail(r) \/ CreateUser(r) \/ \E x \in Suffixes : CreateWorkspace(r, x)
      PROVE  AccountInv' /\ KeyInv'
  <2>1. AccountInv'
    BY <1>2, LookUpStep, CreateUserStep, CreateWorkspaceStep
  <2>2. UNCHANGED keyVars
    BY <1>2 DEF LookUpEmail, CreateUser, CreateWorkspace
  <2> QED BY <2>1, <2>2 DEF keyVars, AccountInv, KeyInv, KeysLastUntilRevoked
<1>3. ASSUME NEW w \in Registrations, NEW k \in Keys, CreateAPIKey(w, k)
      PROVE  AccountInv' /\ KeyInv'
  <2>1. AccountInv'
    BY <1>3 DEF CreateAPIKey, AccountInv, spaceVars
  <2>2. /\ keys' = [keys EXCEPT ![k] = w] /\ issued' = [issued EXCEPT ![k] = w]
        /\ revoker' = revoker /\ acted' = acted /\ spaces' = spaces /\ issued[k] = NoOne
    BY <1>3 DEF CreateAPIKey, InsertKey, spaceVars
  <2>3. revoker[k] = NoOne /\ \A use \in acted : use[1] \in Keys /\ use[2] \in Registrations /\ use[1] # k
    BY <2>2 DEF KeyInv, KeysLastUntilRevoked
  <2>4. KeysLastUntilRevoked'
    BY <2>2, <2>3 DEF KeyInv, KeysLastUntilRevoked
  <2> QED BY <2>1, <2>2, <2>4 DEF KeyInv
<1>4. ASSUME NEW w \in Registrations, NEW k \in Keys, DeleteAPIKey(w, k)
      PROVE  AccountInv' /\ KeyInv'
  <2>1. AccountInv'
    BY <1>4 DEF DeleteAPIKey, AccountInv, spaceVars
  <2>2. /\ keys[k] = w /\ keys' = [keys EXCEPT ![k] = NoOne] /\ revoker' = [revoker EXCEPT ![k] = w]
        /\ issued' = issued /\ acted' = acted /\ spaces' = spaces
    BY <1>4 DEF DeleteAPIKey, Deletable, spaceVars
  <2>3. issued[k] = w
    BY <2>2 DEF KeyInv, KeysLastUntilRevoked
  <2>4. KeysLastUntilRevoked'
    BY <2>2, <2>3 DEF KeyInv, KeysLastUntilRevoked
  <2> QED BY <2>1, <2>2, <2>3, <2>4 DEF KeyInv
<1>5. ASSUME NEW k \in Keys, APIKeyOrJWT(k) PROVE AccountInv' /\ KeyInv'
  <2>1. AccountInv'
    BY <1>5 DEF APIKeyOrJWT, AccountInv, spaceVars
  <2>2. /\ acted' = acted \cup {<<k, w>> : w \in Resolved(k)}
        /\ UNCHANGED <<keys, issued, revoker, spaces>>
    BY <1>5 DEF APIKeyOrJWT, spaceVars
  <2>3. \A w \in Resolved(k) : w \in Registrations /\ issued[k] = w
    BY DEF Resolved, KeyInv, KeysLastUntilRevoked
  <2>4. KeysLastUntilRevoked' /\ acted' \subseteq Keys \X Registrations
    BY <2>2, <2>3 DEF KeyInv, KeysLastUntilRevoked
  <2> QED BY <2>1, <2>2, <2>4 DEF KeyInv
<1> QED BY <1>1, <1>2, <1>3, <1>4, <1>5 DEF AccountsNext

LEMMA AccountMeans == AccountInv => TokenIsOwn
<1> SUFFICES ASSUME AccountInv, NEW r \in Registrations, step[r] = "created"
             PROVE  users[EmailOf[r]] = r /\ CanLogin(EmailOf[r])
  BY DEF TokenIsOwn
<1>1. users[EmailOf[r]] = r /\ r \in spaces
  BY DEF AccountInv
<1> QED BY <1>1, AccountsAssumption DEF CanLogin, GetUserByEmail, GetWorkspaceByOwner

(* THEOREM: a token names the user and workspace of its own registration.   *)
THEOREM TokensAreOwn == AccountsSpec => []TokenIsOwn
BY AccountStart, AccountStep, AccountMeans, PTL DEF AccountsSpec

(* THEOREM: a key works for its workspace until that workspace revokes it.  *)
THEOREM KeysLast == AccountsSpec => []KeysLastUntilRevoked
<1>1. KeyInv => KeysLastUntilRevoked
  BY DEF KeyInv
<1> QED BY <1>1, AccountStart, AccountStep, PTL DEF AccountsSpec

-----------------------------------------------------------------------------
(* The subscriber of a job.                                                 *)

Rows == [id : Nat, push : Endpoints \cup {NoEndpoint}]
Steps == {"new", "looked", "rejected", "queued", "sending", "gone", "delivered", "failed"}

(* A notification that was inserted refers to the present row, since the    *)
(* foreign key keeps that row and only an absent one is created anew.       *)
PushInv ==
    /\ subscriber \in Rows /\ rows \in Nat
    /\ push \in [Pushes -> Steps] /\ seenAs \in [Pushes -> Rows]
    /\ subscriber.id = 0 => subscriber = Absent
    /\ \A p \in Pushes :
         /\ push[p] # "new" => seenAs[p].id # 0
         /\ push[p] \notin {"new", "looked", "rejected"} => subscriber.id = seenAs[p].id

LEMMA SubscriberStep ==
    ASSUME PushInv, UNCHANGED <<push, seenAs>>,
           UpsertSubscriber \/ DeleteSubscriber \/ Unsubscribe
             \/ \E e \in Endpoints : Subscribe(e) \/ RegisterWebPush(e)
    PROVE  PushInv'
<1> USE WebPushAssumption DEF PushInv, Rows
<1>1. CASE UpsertSubscriber
  <2>1. /\ subscriber'.id = rows + 1 /\ rows' = rows + 1
        /\ subscriber' = [id |-> rows + 1, push |-> NoEndpoint] /\ subscriber.id = 0
    BY <1>1 DEF UpsertSubscriber, Absent
  <2> QED BY <2>1
<1>2. CASE DeleteSubscriber
  <2>1. subscriber' = Absent /\ rows' = rows /\ ~Referenced(subscriber.id)
    BY <1>2 DEF DeleteSubscriber
  <2>2. \A p \in Pushes : push[p] \in {"new", "looked", "rejected"}
    BY <2>1 DEF Referenced
  <2> QED BY <2>1, <2>2 DEF Absent
<1>3. CASE Unsubscribe
  BY <1>3 DEF Unsubscribe
<1>4. ASSUME NEW e \in Endpoints, Subscribe(e) PROVE PushInv'
  BY <1>4 DEF Subscribe
<1>5. ASSUME NEW e \in Endpoints, RegisterWebPush(e) PROVE PushInv'
  <2>1. rows' = rows /\ subscriber' = IF subscriber = Absent THEN Absent ELSE [subscriber EXCEPT !.push = e]
    BY <1>5 DEF RegisterWebPush, SetWebPushSubscription
  <2>2. subscriber' \in Rows /\ subscriber'.id = subscriber.id
    BY <2>1 DEF Absent
  <2> QED BY <2>1, <2>2
<1> QED BY <1>1, <1>2, <1>3, <1>4, <1>5

LEMMA HandlerStep ==
    ASSUME PushInv, NEW p \in Pushes,
           LookUpSubscriber(p) \/ InsertNotification(p) \/ LoadSubscriber(p)
             \/ SendPush(p) \/ DeactivateWebPush(p)
    PROVE  PushInv'
<1> USE DEF PushInv, Rows, Steps
<1>1. CASE LookUpSubscriber(p)
  <2>1. subscriber.id # 0 /\ subscriber' = subscriber /\ rows' = rows
    BY <1>1 DEF LookUpSubscriber
  <2> QED BY <1>1, <2>1 DEF LookUpSubscriber, ReadRow, Step
<1>2. CASE InsertNotification(p)
  BY <1>2 DEF InsertNotification, Step
<1>3. CASE LoadSubscriber(p)
  <2>1. subscriber.id = seenAs[p].id /\ seenAs[p].id # 0 /\ push[p] = "queued"
    BY <1>3 DEF LoadSubscriber
  <2>2. subscriber # Absent
    BY <2>1 DEF Absent
  <2>3. /\ Step(p, "queued") \/ Step(p, "failed") \/ Step(p, "sending")
        /\ seenAs' = seenAs \/ ReadRow(p)
        /\ UNCHANGED <<subscriber, rows>>
    BY <1>3, <2>2 DEF LoadSubscriber, Retried
  <2> QED BY <2>1, <2>3 DEF ReadRow, Step
<1>4. CASE SendPush(p)
  <2>1. Step(p, "delivered") \/ Step(p, "gone") \/ Step(p, "queued") \/ Step(p, "failed")
    BY <1>4 DEF SendPush, Retried
  <2> QED BY <1>4, <2>1 DEF SendPush, Step
<1>5. CASE DeactivateWebPush(p)
  <2>1. subscriber'.id = subscriber.id /\ subscriber' \in Rows
    BY <1>5 DEF DeactivateWebPush, ClearWebPush
  <2>2. subscriber.id = seenAs[p].id /\ seenAs[p].id # 0
    BY <1>5 DEF DeactivateWebPush
  <2> QED BY <1>5, <2>1, <2>2 DEF DeactivateWebPush, Step
<1> QED BY <1>1, <1>2, <1>3, <1>4, <1>5

LEMMA PushStep == PushInv /\ [PushNext]_pushVars => PushInv'
<1>1. PushInv /\ UNCHANGED pushVars => PushInv'
  BY DEF PushInv, pushVars
<1>2. UpsertSubscriber \/ DeleteSubscriber \/ Unsubscribe
        \/ (\E e \in Endpoints : Subscribe(e) \/ RegisterWebPush(e)) => UNCHANGED <<push, seenAs>>
  BY DEF UpsertSubscriber, DeleteSubscriber, Unsubscribe, Subscribe, RegisterWebPush, deliveries
<1> QED BY <1>1, <1>2, SubscriberStep, HandlerStep DEF PushNext

(* THEOREM: a job's handler finds the subscriber its notification was sent  *)
(* to, for any number of deletions, re-creations and deliveries.            *)
THEOREM ReferencesHold == PushSpec => []JobsHaveSubscribers
<1>1. PushInit => PushInv
  BY DEF PushInit, PushInv, Rows, Steps, Absent
<1>2. PushInv => JobsHaveSubscribers
  BY DEF PushInv, Steps, JobsHaveSubscribers
<1> QED BY <1>1, <1>2, PushStep, PTL DEF PushSpec

-----------------------------------------------------------------------------
(* The overview.                                                            *)

Totals == [Measures -> SUBSET Int]

(* What the first n of the queries saw nests.                               *)
Ordered(o, n) ==
    /\ n >= 2 => o["day"] \subseteq o["week"]
    /\ n >= 3 => o["week"] \subseteq o["month"]
    /\ n >= 4 => o["day"] \subseteq o["channels"]
    /\ n >= 5 => o["channels"] \subseteq o["hourly"]
    /\ n >= 6 => o["week"] \subseteq o["failing"]

(* What a query saw is still there and within its bound.                    *)
Seen(v) == \A q \in Measures : view[v][q] \subseteq RowsSince(asked[v] - Age(q))

(* What a request has read nests and stays valid; what is cached was read   *)
(* so.                                                                      *)
OverviewInv ==
    /\ hour \in Int /\ made \in Seq(Int) /\ asked \in [Visits -> Int]
    /\ visit \in [Visits -> {Failed, Unread, Shown} \cup 0..6] /\ view \in [Visits -> Totals]
    /\ cache # NoOverview => cache \in Totals /\ Ordered(cache, 6)
    /\ \A v \in Visits : /\ Ordered(view[v], visit[v])
                         /\ visit[v] = Unread => view[v] = Nothing
                         /\ visit[v] \in 0..6 => Seen(v)

LEMMA QueriesAre == /\ Queries[1] = "day" /\ Queries[2] = "week" /\ Queries[3] = "month"
                    /\ Queries[4] = "channels" /\ Queries[5] = "hourly" /\ Queries[6] = "failing"
BY DEF Queries

LEMMA Ages == /\ Age("day") = 24 /\ Age("week") = 168 /\ Age("month") = 720
              /\ Age("channels") = 24 /\ Age("hourly") = 24 /\ Age("failing") = 168
              /\ \A q \in Measures : Age(q) \in Int
BY DEF Age, Measures

(* A longer period has the rows of a shorter one.                           *)
LEMMA LongerHasMore ==
    ASSUME made \in Seq(Int), NEW t \in Int, NEW u \in Int, u <= t
    PROVE  RowsSince(t) \subseteq RowsSince(u)
BY DEF RowsSince

LEMMA QueryStep ==
    ASSUME OverviewInv, NEW v \in Visits, RunQuery(v)
    PROVE  OverviewInv'
<1> DEFINE n == visit[v]
           q == Queries[n + 1]
           ranged == RowsSince(asked[v] - Age(q))
           o == view[v]
<1>1. /\ n \in 0..5 /\ UNCHANGED <<hour, made, cache, asked>>
      /\ OverviewInv /\ visit \in [Visits -> {Failed, Unread, Shown} \cup 0..6] /\ view \in [Visits -> Totals]
  BY DEF RunQuery, OverviewInv
<1>2. ASSUME NEW w \in Visits PROVE Seen(w) /\ visit'[w] = visit[w] /\ view'[w] = view[w] => Seen(w)'
  BY <1>1, <1>2 DEF Seen, RowsSince
<1>3. CASE visit' = [visit EXCEPT ![v] = Failed] /\ view' = [view EXCEPT ![v] = Nothing]
  <2>1. Nothing \in Totals /\ Ordered(Nothing, Failed)
    BY DEF Nothing, Totals, Ordered, Failed
  <2> QED BY <1>1, <1>2, <1>3, <2>1 DEF OverviewInv, Failed, Unread
<1>4. CASE visit' = [visit EXCEPT ![v] = n + 1] /\ view' = [view EXCEPT ![v][q] = ranged]
  <2>1. q \in Measures /\ o \in Totals /\ asked[v] \in Int /\ made \in Seq(Int) /\ Seen(v) /\ Ordered(o, n)
    BY <1>1, QueriesAre DEF Measures, OverviewInv
  <2>2. ranged \subseteq Int
    BY <2>1 DEF RowsSince
  <2>3. /\ visit'[v] = n + 1 /\ view'[v] = [o EXCEPT ![q] = ranged]
        /\ \A w \in Visits \ {v} : visit'[w] = visit[w] /\ view'[w] = view[w]
        /\ visit' \in [Visits -> {Failed, Unread, Shown} \cup 0..6]
    BY <1>1, <1>4
  <2>4. /\ view'[v] \in Totals /\ view'[v][q] = ranged
        /\ \A m \in Measures \ {q} : view'[v][m] = o[m]
    BY <2>1, <2>2, <2>3 DEF Totals
  <2>5. view' \in [Visits -> Totals]
    BY <1>1, <1>4, <2>3, <2>4
  <2>6. Seen(v)'
    BY <1>1, <2>1, <2>4 DEF Seen, RowsSince
  <2>7. ASSUME NEW m \in Measures, Age(m) <= Age(q) PROVE o[m] \subseteq ranged
    <3>1. asked[v] - Age(q) \in Int /\ asked[v] - Age(m) \in Int /\ asked[v] - Age(q) <= asked[v] - Age(m)
      BY <2>1, <2>7, Ages
    <3>2. RowsSince(asked[v] - Age(m)) \subseteq ranged
      BY <2>1, <3>1, LongerHasMore
    <3> QED BY <2>1, <3>2 DEF Seen
  <2>8. Ordered(view'[v], n + 1)
    <3> HIDE DEF ranged, o
    <3>1. CASE n = 0
      BY <3>1 DEF Ordered
    <3>2. CASE n = 1
      <4>1. q = "week"
        BY <3>2, QueriesAre
      <4> HIDE DEF q
      <4> QED BY <3>2, <4>1, <2>1, <2>4, <2>7, Ages DEF Ordered, Measures
    <3>3. CASE n = 2
      <4>1. q = "month"
        BY <3>3, QueriesAre
      <4> HIDE DEF q
      <4> QED BY <3>3, <4>1, <2>1, <2>4, <2>7, Ages DEF Ordered, Measures
    <3>4. CASE n = 3
      <4>1. q = "channels"
        BY <3>4, QueriesAre
      <4> HIDE DEF q
      <4> QED BY <3>4, <4>1, <2>1, <2>4, <2>7, Ages DEF Ordered, Measures
    <3>5. CASE n = 4
      <4>1. q = "hourly"
        BY <3>5, QueriesAre
      <4> HIDE DEF q
      <4> QED BY <3>5, <4>1, <2>1, <2>4, <2>7, Ages DEF Ordered, Measures
    <3>6. CASE n = 5
      <4>1. q = "failing"
        BY <3>6, QueriesAre
      <4> HIDE DEF q
      <4> QED BY <3>6, <4>1, <2>1, <2>4, <2>7, Ages DEF Ordered, Measures
    <3> QED BY <1>1, <3>1, <3>2, <3>3, <3>4, <3>5, <3>6
  <2>9. ASSUME NEW w \in Visits
        PROVE  /\ Ordered(view'[w], visit'[w])
               /\ visit'[w] = Unread => view'[w] = Nothing
               /\ visit'[w] \in 0..6 => Seen(w)'
    BY <1>1, <1>2, <2>3, <2>6, <2>8 DEF OverviewInv, Unread
  <2> HIDE DEF n, q, ranged, o
  <2> QED BY <1>1, <2>3, <2>5, <2>9 DEF OverviewInv
<1> QED BY <1>3, <1>4 DEF RunQuery, At

(* THEOREM: an overview's periods nest, however many rows appear between    *)
(* its queries, however the clock moves and whichever request filled the    *)
(* cache.                                                                   *)
THEOREM OverviewsNest == OverviewSpec => []PeriodsNest
<1>1. OverviewInit => OverviewInv
  <2> SUFFICES ASSUME OverviewInit PROVE OverviewInv
    OBVIOUS
  <2>1. Nothing \in Totals /\ Ordered(Nothing, Unread) /\ hour \in Int /\ made = <<>>
    BY OverviewAssumption DEF OverviewInit, Nothing, Totals, Ordered, Unread
  <2> QED BY <2>1 DEF OverviewInit, OverviewInv, Unread
<1>2. OverviewInv /\ [OverviewNext]_overviewVars => OverviewInv'
  <2> SUFFICES ASSUME OverviewInv, [OverviewNext]_overviewVars PROVE OverviewInv'
    OBVIOUS
  <2>1. ASSUME UNCHANGED <<visit, view, asked>>, hour' \in Int, made' = made \/ made' = Append(made, hour),
               cache' = cache \/ cache' = NoOverview
        PROVE  OverviewInv'
    <3>1. made \in Seq(Int) /\ hour \in Int
      BY DEF OverviewInv
    <3>2. made' \in Seq(Int) /\ \A i \in DOMAIN made : i \in DOMAIN made' /\ made'[i] = made[i]
      BY <2>1, <3>1
    <3>3. \A v \in Visits : Seen(v) => Seen(v)'
      BY <2>1, <3>2 DEF Seen, RowsSince
    <3> QED BY <2>1, <3>2, <3>3 DEF OverviewInv
  <2>2. CASE UNCHANGED overviewVars
    BY <2>1, <2>2 DEF overviewVars, OverviewInv
  <2>3. CASE CreateRow
    BY <2>1, <2>3 DEF CreateRow, OverviewInv
  <2>4. CASE Expire
    BY <2>1, <2>4 DEF Expire, OverviewInv
  <2>5. CASE Tick
    BY <2>1, <2>5, OverviewAssumption DEF Tick
  <2>6. ASSUME NEW v \in Visits, ReadCache(v) PROVE OverviewInv'
    <3>1. made' = made /\ cache' = cache /\ hour' = hour /\ visit[v] = Unread
      BY <2>6 DEF ReadCache
    <3>2. \A w \in Visits : (Seen(w) /\ view'[w] = view[w] /\ asked'[w] = asked[w]) => Seen(w)'
      BY <3>1 DEF Seen, RowsSince
    <3>3. CASE cache # NoOverview /\ At(v, Shown) /\ view' = [view EXCEPT ![v] = cache] /\ UNCHANGED asked
      <4>1. cache \in Totals /\ Ordered(cache, Shown)
        BY <3>3 DEF OverviewInv, Ordered, Shown
      <4> QED BY <3>1, <3>2, <3>3, <4>1 DEF At, OverviewInv, Shown, Unread
    <3>4. CASE At(v, 0) /\ asked' = [asked EXCEPT ![v] = hour] /\ UNCHANGED view
      <4>1. view'[v] = Nothing /\ visit'[v] = 0 /\ Ordered(Nothing, 0)
        BY <3>1, <3>4 DEF At, OverviewInv, Ordered
      <4>2. Seen(v)'
        BY <4>1 DEF Seen, Nothing
      <4> QED BY <3>1, <3>2, <3>4, <4>1, <4>2 DEF At, OverviewInv, Unread
    <3> QED BY <2>6, <3>3, <3>4 DEF ReadCache
  <2>7. ASSUME NEW v \in Visits, RunQuery(v) PROVE OverviewInv'
    BY <2>7, QueryStep
  <2>8. ASSUME NEW v \in Visits, StoreOverview(v) PROVE OverviewInv'
    <3>1. /\ visit[v] = 6 /\ visit' = [visit EXCEPT ![v] = Shown] /\ UNCHANGED <<hour, made, asked, view>>
          /\ cache' = cache \/ cache' = view[v]
      BY <2>8 DEF StoreOverview, At
    <3>2. view[v] \in Totals /\ Ordered(view[v], 6)
      <4>1. Ordered(view[v], visit[v]) /\ view[v] \in Totals
        BY DEF OverviewInv
      <4> QED BY <3>1, <4>1
    <3>3. Ordered(view[v], Shown)
      BY <3>2 DEF Ordered, Shown
    <3>4. \A w \in Visits : Seen(w) => Seen(w)'
      BY <3>1 DEF Seen, RowsSince
    <3> QED BY <3>1, <3>2, <3>3, <3>4 DEF OverviewInv, Shown, Unread
  <2> QED BY <2>2, <2>3, <2>4, <2>5, <2>6, <2>7, <2>8 DEF OverviewNext
<1>3. OverviewInv => PeriodsNest
  <2> SUFFICES ASSUME OverviewInv, NEW v \in Visits, visit[v] = Shown PROVE Nested(view[v])
    BY DEF PeriodsNest
  <2>1. Ordered(view[v], Shown)
    BY DEF OverviewInv
  <2> QED BY <2>1 DEF Ordered, Nested, Shown
<1> QED BY <1>1, <1>2, <1>3, PTL DEF OverviewSpec

-----------------------------------------------------------------------------
(* Templates.                                                               *)

(* The stored template is the one whose variables were derived, if any was: *)
(* it requires every placeholder of its subject and of its bodies.          *)
TemplateInv ==
    /\ template # NoTemplate /\ derived =>
         /\ template.channels \subseteq Channels
         /\ template.required = ExtractVariables(template.subject, template.bodies)
    /\ NoPlaceholderIsBlank

(* THEOREM: a send of a template whose variables were derived leaves no     *)
(* placeholder blank, through any number of edits and for any texts.        *)
THEOREM DerivedVariablesSuffice == TemplatesSpec => []NoPlaceholderIsBlank
<1>1. TemplatesInit => TemplateInv
  BY DEF TemplatesInit, TemplateInv, NoPlaceholderIsBlank
<1>2. TemplateInv /\ [TemplatesNext]_templateVars => TemplateInv'
  <2> SUFFICES ASSUME TemplateInv, [TemplatesNext]_templateVars PROVE TemplateInv'
    OBVIOUS
  <2>1. CASE UNCHANGED templateVars
    BY <2>1 DEF templateVars, TemplateInv, NoPlaceholderIsBlank, ExtractVariables
  <2>2. ASSUME NEW subject \in Texts, NEW named \in Texts, NEW bodies \in [Channels -> Texts],
               NEW channels \in SUBSET Channels,
               LET t == toModel(subject, bodies, channels, named) IN
               CreateTemplate(t, named) \/ UpdateTemplate(t, named)
        PROVE  TemplateInv'
    <3> DEFINE t == toModel(subject, bodies, channels, named)
    <3>1. /\ t.subject = subject /\ t.bodies = bodies /\ t.channels = channels
          /\ named = {} => t.required = ExtractVariables(subject, bodies)
      BY DEF toModel
    <3> HIDE DEF t
    <3>2. template' = t /\ derived' = (named = {}) /\ sent' = sent
      BY <2>2 DEF CreateTemplate, UpdateTemplate, Store, t
    <3> QED BY <3>1, <3>2 DEF TemplateInv, NoPlaceholderIsBlank, ExtractVariables
  <2>3. CASE DeleteTemplate
    BY <2>3 DEF DeleteTemplate, TemplateInv, NoPlaceholderIsBlank
  <2>4. ASSUME NEW given \in Texts, NEW onChannels \in SUBSET Channels, SendTemplate(given, onChannels) PROVE TemplateInv'
    <3> DEFINE wanted == IF onChannels = {} THEN template.channels ELSE onChannels
    <3>1. /\ template # NoTemplate /\ template.required \subseteq given /\ UNCHANGED <<template, derived>>
          /\ sent' = sent \cup {[blank |-> Render(given, wanted), derived |-> derived]}
      BY <2>4 DEF SendTemplate, validateVars
    <3>2. derived => Render(given, wanted) = {}
      <4> SUFFICES ASSUME derived PROVE Render(given, wanted) = {}
        OBVIOUS
      <4> HIDE DEF wanted
      <4>1. template.subject \subseteq given /\ \A c \in Channels : template.bodies[c] \subseteq given
        BY <3>1 DEF TemplateInv, ExtractVariables
      <4>2. template.channels \subseteq Channels
        BY <3>1 DEF TemplateInv
      <4> QED BY <4>1, <4>2 DEF Render, substitute
    <3> HIDE DEF wanted
    <3>3. NoPlaceholderIsBlank'
      BY <3>1, <3>2 DEF TemplateInv, NoPlaceholderIsBlank
    <3> QED BY <3>1, <3>3 DEF TemplateInv, ExtractVariables
  <2> QED BY <2>1, <2>2, <2>3, <2>4 DEF TemplatesNext
<1>3. TemplateInv => NoPlaceholderIsBlank
  BY DEF TemplateInv
<1> QED BY <1>1, <1>2, <1>3, PTL DEF TemplatesSpec

-----------------------------------------------------------------------------
(* Outgoing webhooks.                                                       *)

(* A dispatch has made one request to each endpoint that it listed and has  *)
(* left behind.                                                             *)
DispatchOk(d) ==
    /\ dispatch[d].at = "idle" => listed[d] = {}
    /\ dispatch[d].at = "done" => dispatch[d].left = {}
    /\ dispatch[d].left \subseteq listed[d]
    /\ \A h \in Hooks : posts[d][h] = IF h \in listed[d] \ (BadUrls \cup dispatch[d].left) THEN 1 ELSE 0

DispatchInv ==
    /\ hooks \subseteq Hooks /\ listed \in [Dispatches -> SUBSET Hooks]
    /\ dispatch \in [Dispatches -> [at : {"idle", "next", "posting", "done"}, left : SUBSET Hooks]]
    /\ posts \in [Dispatches -> [Hooks -> Nat]]
    /\ \A d \in Dispatches : DispatchOk(d)

(* The steps of one dispatch.                                               *)
LEMMA DispatchStep ==
    ASSUME DispatchInv, NEW d \in Dispatches,
           Dispatch(d) \/ RequestEnds(d) \/ EndDispatch(d) \/ \E h \in Hooks : Post(d, h)
    PROVE  DispatchInv'
<1> USE DEF DispatchInv
<1>1. hooks' = hooks /\ dispatch[d] \in [at : {"idle", "next", "posting", "done"}, left : SUBSET Hooks]
  BY DEF Dispatch, RequestEnds, EndDispatch, Post
<1>2. CASE Dispatch(d)
  <2>1. PICK found \in {{}, ListActiveWebhooksForEvent(d)} :
          /\ dispatch' = [dispatch EXCEPT ![d] = [at |-> "next", left |-> found]]
          /\ listed' = [listed EXCEPT ![d] = found]
    BY <1>2 DEF Dispatch
  <2>2. found \subseteq Hooks /\ posts' = posts /\ dispatch[d].at = "idle"
    BY <1>2 DEF ListActiveWebhooksForEvent, Dispatch
  <2>3. \A h \in Hooks : posts[d][h] = 0
    BY <2>2 DEF DispatchOk
  <2> QED BY <1>1, <2>1, <2>2, <2>3 DEF DispatchOk
<1>3. ASSUME NEW h \in Hooks, Post(d, h) PROVE DispatchInv'
  <2>1. /\ listed' = listed /\ h \in dispatch[d].left /\ dispatch[d].at = "next"
        /\ dispatch' = [dispatch EXCEPT ![d] = [at |-> IF h \in BadUrls THEN "next" ELSE "posting",
                                                left |-> dispatch[d].left \ {h}]]
        /\ posts' = [posts EXCEPT ![d] = [posts[d] EXCEPT ![h] = IF h \in BadUrls THEN @ ELSE @ + 1]]
    BY <1>3 DEF Post
  <2>2. posts[d][h] = 0 /\ posts[d] \in [Hooks -> Nat] /\ h \in listed[d]
    BY <2>1 DEF DispatchOk
  <2>3. posts'[d] = [posts[d] EXCEPT ![h] = IF h \in BadUrls THEN 0 ELSE 1] /\ posts'[d] \in [Hooks -> Nat]
    BY <2>1, <2>2
  <2>4. posts' \in [Dispatches -> [Hooks -> Nat]] /\ \A o \in Dispatches \ {d} : posts'[o] = posts[o]
    BY <2>1, <2>3
  <2>5. DispatchOk(d)'
    BY <2>1, <2>2, <2>3 DEF DispatchOk
  <2>6. \A o \in Dispatches \ {d} : DispatchOk(o)'
    BY <2>1, <2>4 DEF DispatchOk
  <2> QED BY <1>1, <2>1, <2>4, <2>5, <2>6
<1>4. CASE RequestEnds(d)
  BY <1>1, <1>4 DEF RequestEnds, DispatchOk
<1>5. CASE EndDispatch(d)
  BY <1>1, <1>5 DEF EndDispatch, DispatchOk
<1> QED BY <1>2, <1>3, <1>4, <1>5

(* THEOREM: whatever some endpoints do, and whichever are created or deleted *)
(* meanwhile, a dispatch that ends has made exactly one request to each     *)
(* endpoint it listed that one can be built for, and none to any other.     *)
THEOREM EachListedPostedOnce == HooksSpec => []FailuresStayLocal
<1>1. HooksInit => DispatchInv
  BY DEF HooksInit, DispatchInv, DispatchOk
<1>2. DispatchInv /\ [HooksNext]_hookVars => DispatchInv'
  <2> SUFFICES ASSUME DispatchInv, [HooksNext]_hookVars PROVE DispatchInv'
    OBVIOUS
  <2>1. ASSUME UNCHANGED <<dispatch, listed, posts>>, hooks' \subseteq Hooks PROVE DispatchInv'
    BY <2>1 DEF DispatchInv, DispatchOk
  <2>2. ASSUME NEW h \in Hooks, CreateWebhook(h) \/ DeleteWebhook(h) PROVE DispatchInv'
    BY <2>1, <2>2 DEF CreateWebhook, DeleteWebhook, DispatchInv
  <2>3. CASE UNCHANGED hookVars
    BY <2>1, <2>3 DEF hookVars, DispatchInv
  <2> QED BY <2>2, <2>3, DispatchStep DEF HooksNext
<1>3. DispatchInv => FailuresStayLocal
  BY DEF DispatchInv, DispatchOk, FailuresStayLocal
<1> QED BY <1>1, <1>2, <1>3, PTL DEF HooksSpec
=============================================================================

# PushNotify: a TLA+ verification project

PushNotify accepts notifications over HTTP, turns each into one delivery per
channel, queues the deliveries in Redis, and sends them from worker processes
to WebSocket connections, browsers (web push), e-mail, WhatsApp and SMS. This
directory models the parts whose correctness depends on the order in which
goroutines, processes, Redis and PostgreSQL act, checks them with TLC on small
instances, and proves their safety properties with TLAPS, for every value of the
constants and under the assumptions that section 4 names.

Paths below are relative to `src/server/internal` unless they start with `src/`.

    tlc  -config JobQueue_faults.cfg MCJobQueue.tla     # any run of PROJECT.json
    tlapm JobQueue_proofs.tla                           # any *_proofs module

## 1. The system

    SDK / dashboard --HTTP--> API process --+--> PostgreSQL (workspaces, notifications, deliveries, ...)
                                            +--> Redis: jobs:high|default|low, jobs:delayed, jobs:dlq
    workers (in API and worker processes) <-+         presence hash, pub/sub, rate limits, caches
       |-- HandleDelivery --> provider, row, status, customer webhook
       '-- WebSocket channel --PUBLISH--> bridge of every API node --> hub --> connections

| Component | State | Operations | What is hard | What makes it correct |
|---|---|---|---|---|
| Delivery queue, `queue/` | three lists, delayed set, dead-letter list; goroutines with a job in hand | Enqueue, EnqueueDelayed, worker loop, drain, process, scheduler, Start, Stop | many processes over one Redis, several commands per operation, crashes, lost replies, graceful stop | one owner per job, attempts counted, backoff respected, nothing lost, dead letters final, drain complete, progress |
| Notification service, `services/notification.go` | notification and delivery rows | Send, SendBulk, HandleDelivery, recompute status, fire webhook | no transactions; handlers of one notification run concurrently; retries | an accepted request is complete, delivered is final, one acceptance, status = aggregate, final in the end |
| Plan limit, `services/notification.go`, `store/workspaces.go` | usage counter | check, increment | check and increment far apart; months pass | a bound on the overshoot; the volume of every month is served |
| WebSocket hub, `hub/` | registry, channels, presence hash | add, remove, deliver, publish, bridge | slow clients, closes, two Redis commands, many nodes | no send on a closed channel, order, no stall, presence = connections |
| Outgoing webhooks, `services/webhook.go` | endpoints | Dispatch | synchronous fan-out, timeouts | one request per listed endpoint, failures stay local |
| Billing, `services/billing.go` | plan, limit, Stripe ids | checkout, portal, events | repeated and reordered events, two first checkouts | plan follows the subscription |
| Subscribers, web push, `services/subscriber.go`, `store/subscribers.go` | subscription per subscriber | upsert, register, deactivate, delete | deactivation races registration, deletion races sends | a job finds its subscriber; only expired subscriptions are cleared |
| Templates, `services/template.go` | texts and required variables | create, update, delete, render | edits between sends | no placeholder of a derived list left blank |
| Analytics, `services/analytics.go` | cached overview | read, fill cache | several queries, no snapshot; staleness | no period shows more than a longer one |
| Accounts, `handlers/auth.go` | users, workspaces | register, login | two inserts, no transaction; two registrations | a token names its own user and workspace |
| API keys and tokens, `middleware/`, `token/` | keys | create, revoke, resolve | keys of all workspaces in one table | a key acts for its workspace until that revokes it |
| Rate limiter, `middleware/ratelimit.go` | counters per window | INCR, EXPIRE | two commands, window boundaries, fail-open | at most a limit per window |
| Migrations, `database/migrate.go` | applied versions | run | concurrent start-up, deaths in between | what is recorded is what was executed, once; everybody serves in the end |
| Channels, `channels/` | none | send to provider | external answers | classification into success, retry, terminal |
| Wiring, `src/server/cmd/pushnotify` | processes | runServer, runWorker, signals | order of shutdown | in-flight work ends before exit |
| SDK, `src/sdk/src` | retry counter, socket, timers | request, connect, close | repeats, stale timers | a repeat only after a 5xx; one socket or timer, none after close |
| Dashboard, proxy, containers | none of its own | | | |

`PROJECT.json` has the full list of components with what is modelled of each,
the hazards with the line where each bites and the properties that would catch
it, and the map from definitions to source lines.

## 2. The modules

| Module | Stands for |
|---|---|
| `JobLifecycle` | abstract: one job, its phase and its number of handler calls; what the queue promises |
| `JobQueue` | the queue, Redis command by Redis command |
| `NotificationService` | Send and HandleDelivery, statement by statement, over `JobLifecycle` |
| `SendQuota` | abstract: the usage counter and concurrent requests |
| `UsagePeriods` | that counter over several months |
| `Hub` | the hubs of all nodes, the shared presence hash, pub/sub, clients |
| `Billing` | checkouts, the webhook, and Stripe around them |
| `RateLimiter` | the Redis counters of one client's windows |
| `Accounts` | registration, API keys |
| `WebPush` | a subscriber, its browser, the deliveries that use its subscription |
| `Webhooks` | endpoints, one dispatch inside a delivery handler |
| `Templates` | a template through its edits, and the sends that render it |
| `Overview` | the dashboard's cached overview |
| `ServerProcess` | boot, migrations, serving, shutdown of the API processes |
| `SdkRequest`, `RealtimeConnection` | the TypeScript client's retries, and its reconnecting socket |
| `Platform` | the components that share no state, side by side |
| `MCJobQueue`, `MCNotificationService`, `MCHub`, `MCBilling`, `MCPlatform` | the instances for TLC (`UsagePeriods` and `WebPush` need none) |
| `JobQueue_proofs`, `Lifecycle_proofs` | theorems about the queue, and its refinement |
| `NotificationService_proofs` | theorems about the service, and that it implements `SendQuota` |
| `Hub_proofs`, `Client_proofs`, `Server_proofs` | theorems about the hub, the SDK, the migrations |
| `Limits_proofs` | theorems about `SendQuota`, `RateLimiter`, `Billing` |
| `Admin_proofs` | theorems about `Accounts`, `WebPush`, `Overview`, `Templates`, `Webhooks` |

How they compose: `JobQueue` implements `JobLifecycle` (refinement mapping
`Phase` from where a job's copies are, checked as `ImplementsLifecycle` and
proved); `NotificationService` uses `JobLifecycle` as its queue, each handler a
block of steps between the lifecycle's `Begin` and its `Succeed`, `Retry` or
`GiveUp`; and `NotificationService` implements `SendQuota` (`ImplementsQuota`, proved too).
What is shown of the service over the abstract queue therefore holds over the
real one, as far as its refinement does: with crashes and refused commands, but
not when the reply to a retry's ZADD is lost (section 3). `Hub` is the provider
behind the WebSocket channel and `WebPush` details another one; the service
sees them as the outcomes of `CallProvider`. `Webhooks` is what its step
`FireWebhook` does, and the Stop in the shutdown of `ServerProcess` is that of `JobQueue`.

`Platform` puts `Billing`, `SendQuota`, `Hub`, `RateLimiter`, `Accounts`,
`WebPush`, `Webhooks`, `Templates`, `Overview`, `ServerProcess`, `SdkRequest`
and `RealtimeConnection` side by side. They have no table, key or variable of
the code in common (what one passes to another is an input of the other), so a
property of one depends on that one's steps only. `focus`, chosen in the initial
state, is the one that acts, which spares TLC the product of their states.

### JobQueue

State: `queue` (three lists), `delayed` with `due` (the members whose score has
passed; wall-clock time enters only so), `dlq`, and of every process `proc`,
its workers' `pc`, `scan` (which list `drainRemaining` reads next), `held`, its
scheduler's `sched`, `batch`, `promoting`. `tries`, `done` and `backlog` are
history that no action reads as a condition.

| Action | Code |
|---|---|
| `Enqueue`, `EnqueueDelayed` | `queue/producer.go`, called by Send |
| `Observe`, `BRPop`, `BRPopNothing` | `workerLoop` |
| `DrainPop`, `DrainSkip` | `drainRemaining`, one RPOP each |
| `Process` inside the pops, `HandlerSucceeds`, `HandlerFails`, `ScheduleRetry`, `Bury` | `process`, split at the handler, the ZADD and the LPUSH |
| `ReadDue`, `Claim`, `Pass`, `Promote`, `SchedulerExits` | `scheduleLoop`, `promoteDue`, split at ZRANGEBYSCORE, each ZREM, each LPUSH |
| `Start`, `Stop`, `StopReturns`, `Crash` | `Start`, `Stop`, the death of a process |

`RedisFaults` says how commands may fail: `"refused"` has no effect and an
error; `"unacked"` has its effect and an error, the reply that was lost.

### NotificationService

`send` and `next` are the position of each request in `Send`, `handler` that of
each handler in `HandleDelivery`; a job has one owner at a time (the theorem
`OneOwner` about the queue), so a handler is indexed by its delivery. Each
database statement, enqueue and provider call is a step that may fail, with or
without having taken effect (`StoreFails`), and processes may die between steps (`Lossy`).

### Hub

A connection goes `new`, `registering`, `open`, `leaving`, `gone`. The hub's
goroutine is serial: while it is between the two Redis commands of
`removeClient` (`cleanup`) it takes nothing else. `inbox`, `hubq` and `buf` are
the three hops of a message. Faults are crashes of nodes, failing presence
commands (not applied, or applied with the answer lost) and envelopes that
pub/sub drops.

### The components of Platform

| Module | State | Actions and the code they are |
|---|---|---|
| `Billing` | `row` of each workspace, `checkout` steps; Stripe's `paid` and `events` | `CreateCheckout`, `PersistCustomer`, `OpenSession`: `CreateCheckout`, split where the customer is stored and the session opened; `ReceiveEvent`, `ApplyEvent`: `activatePro` and `downgrade`, the lookup of the workspace by customer and the update of the workspace it found; `Pay`, `Renew`, `CancelInPortal`, `RepeatEvent`: Stripe and its users |
| `RateLimiter` | `counter`, `expiry` per window; each `request`'s step | `ReadClock`, `Count`, `SetExpiry`, `FailOpen`: the middleware, split at the clock, the INCR and the EXPIRE; `NextWindow`, `KeyExpires`: time |
| `Accounts` | `users`, `spaces` and their `slugs`, `keys`; each registration's `step` | `LookUpEmail`, `CreateUser`, `CreateWorkspace`: `Register`; `CreateAPIKey`, `DeleteAPIKey`, `APIKeyOrJWT`: the handlers and the middleware of that name |
| `WebPush` | `subscriber` row, `browser`, `posted`, the `push` deliveries | `UpsertSubscriber`, `DeleteSubscriber`, `RegisterWebPush`: the API; `LookUpSubscriber`, `InsertNotification`: Send; `LoadSubscriber`, `SendPush`, `DeactivateWebPush`: HandleDelivery with `channels/webpush.go` |
| `Webhooks` | `hooks`; each `dispatch`, the requests it made in `posts` | `Dispatch`, `Post`, `RequestEnds`, `EndDispatch`: `Dispatch`, split at each request and its end; `CreateWebhook`, `DeleteWebhook` |
| `Templates` | the `template` row | `CreateTemplate`, `UpdateTemplate`, `DeleteTemplate`; `SendTemplate` with `validateVars`, `Render`, `substitute` |
| `Overview` | the rows' times `made`, `cache`, each `visit`, the time it `asked`, the rows in its `view` | `ReadCache`, `RunQuery`, `StoreOverview`: `GetOverview`, split at each of its six queries, any of which may fail; `Tick`, `Expire`: time |
| `ServerProcess` | each `server`'s step; `schema`, `recorded`, the locks | `LookForTable` to `CommitMigration`: `RunMigrations`; `Boot`, `Signal`, `ShutdownReturns`, `Exit`: `runServer`; `Kill` |
| `SdkRequest` | each `call`, its `attempt`, requests on the `wire` | `Fetch`, `ServerAnswers`, `TimesOut`: `request`, `doRequest`; `ServerLate`: a server slower than the timer |
| `RealtimeConnection` | `socket`s, `ws`, `timers`, `closedByUser` | `OpenOnce`, `TimerFires`, `Close`, `onopen`, `onclose`: the methods and event handlers |

## 3. The runs

| Run | Instance | Shows |
|---|---|---|
| `queue_faults` | 2 jobs, 2 processes, 2 attempts, one crash, both kinds of Redis failure | `TypeOK`, `SingleOwner`, `AttemptCountsCalls`, `RetryWaitsForBackoff` |
| `queue_shutdown` | 2 jobs of a high and a low priority, 1 process of 2 workers, 2 graceful stops, a crash and restarts, no failing commands | `NothingLost`, `DeadLettersAreFinal`, `DrainLeavesNothing`, `ImplementsLifecycle`, `EventuallySettled`, `StopTerminates` |
| `notification_faults` | one request for a known, an unknown and a known channel; failing statements, crashes, 2 handlers | `AcceptedOnce`, `AcceptedMeansQueued`, `DeliveredIsFinal` |
| `notification_serial` | two requests with three known channels, limit 1, one handler at a time, no failures | `SettledIsRecorded`, `HooksTellTheRow`, `StatusIsAggregate`, `EventuallyFinal`, `ImplementsQuota` |
| `hub_two_nodes` | 2 nodes, 3 connections of 2 subscribers, 2 messages, buffers of 1, one fault | `NoSendAfterClose`, `InPublishOrder`, `OfflineWhenAllGone` |
| `platform` | below | below |

`ImplementsLifecycle` is run without failing commands, which the other
properties of `queue_shutdown` need; that it holds with refused ones, and with
any number of processes, is the theorem of section 4.

`platform` looks at each component in an instance of its own:

| Component | Instance | Shows |
|---|---|---|
| `SendQuota` | 6 request slots, limit 3 | `OvershootBounded` |
| `Hub` | 1 node, a reader and a client that never reads, 3 messages, buffers of 1 | `OnlineWhileConnected`, `ReadersReceive` |
| `Billing` | 3 checkouts of 2 workspaces one at a time (`Orderly`), 5 events in order, one failure or repeated event | `PlanFollowsSubscription`, `PayersAreKnown`, `PlanCatchesUp` |
| `RateLimiter` | 4 requests, a limit of 2, 2 windows | `AtMostLimit`, `RefusedOnlyWhenFull` |
| `Accounts` | 3 registrations, two of them of one e-mail and two of one workspace name, one name too long, 2 suffixes, a key, one failing statement | `TokenIsOwn`, `KeysLastUntilRevoked` |
| `WebPush` | 2 endpoints, 2 notifications, 2 lives of the subscriber, 2 attempts | `JobsHaveSubscribers` |
| `Webhooks` | 4 endpoints, one with a URL no request can be built for and one of another workspace, a dispatch | `FailuresStayLocal` |
| `Templates` | 2 variables, 1 channel | `NoPlaceholderIsBlank` |
| `Overview` | 2 requests, a row, 3 times: one between a day and a week after the first, one between a week and a month | `PeriodsNest` |
| `ServerProcess` | 2 processes, 2 migrations, a signal, a kill | `SchemaMatchesRecord`, `EverybodyServes` |
| `SdkRequest` | 2 calls of up to 2 retries | `DuplicatesComeFrom5xx` |
| `RealtimeConnection` | 4 sockets | `OneSocketOrTimer` |

Six runs end in a violation, each of something the repository says of itself
(`PROJECT.json`, "findings"):

- `queue_dlq_push`: a job whose push to the dead-letter list is refused is
  gone, though exhausted jobs are to go to a dead-letter queue.
- `notification_race`: two handlers recompute the status of a notification and
  the older result is written last; the notification stays in a status its
  deliveries do not have. `notification_serial` shows that it needs two.
- `monthly_limit`: the counter that `Send` compares with the limit is never
  reset, though the plans sell a volume per month: once it is used up, requests
  of every later month are turned away.
- `web_push_clear`: a handler that was told that one endpoint is gone clears
  the one the browser registered meanwhile, though only expired subscriptions
  are to be cleared.
- `hub_presence_race`: a connection that opens on one node while another node
  is between its HINCRBY and HDEL is offline. `platform`, with one node, shows
  that it needs two.
- `billing_order`: Stripe delivers an older event of a subscription after a
  newer one, and the workspace keeps the plan the older one says. `platform`
  shows that it needs the reordering: with events in order, repeated ones and
  failed updates included, the plan comes out right.

What else the code does, without a run of its own:

- A retry whose ZADD was applied but lost its reply is dead-lettered and retried
  as well. `DeadLettersAreFinal` is therefore checked and proved without Redis
  errors only.
- Concurrent requests pass the plan limit, which the dashboard's documentation
  calls "enforced on send" (`src/dashboard/src/app/docs/page.tsx:266`).
  `OvershootBounded` says by how much: less than the number of requests served
  at the same time.
- A registration whose workspace is refused (its slug is taken, or longer than
  `VARCHAR(100)`, since nothing bounds the name), whose second insert fails or
  whose process dies before it, leaves a user who can neither log in nor
  register again. `Accounts` has these steps; no property excludes them, and
  `TokenIsOwn` speaks of the registrations that were answered with a token.
- Any error of `GetSubscriber` ends a delivery without a retry, as if the
  subscriber had been deleted (`services/notification.go:239`).

Why these bounds are enough. Two jobs and two processes are what it takes for
schedulers to overtake each other's reads and for one job to come back while
another waits; two workers of one process leave their drains at different
moments. Two attempts (three in the code) have a first, a last and a retry in
between, the cases `ShouldRetry` tells apart; two due members with `BatchLimit`
two, and one at a time, give a full and a partial batch. Channels of capacity
one are full as soon as a second message comes. Three checkouts are two of one
workspace, the second after the first ended, and one of another; five events
are the two of a payment, a renewal that fails, a cancellation and one of the
other workspace. Four requests are two more than the limit and one of each of
them late. Two migrations and two processes have a process that loses the race
for either. Four sockets are three reconnections. One delivery row and three times
put the row inside and outside the bound of every query but the month's, and
two requests share a cache entry filled at one time and read at another; rows
do not depend on each other, so a second one adds no new case. Two request
slots, a volume of two and two months have a month that begins with the counter
at the limit. The bounds on stops, crashes, kills, faults, failures, events, rows and windows cap the only unbounded
behaviours; all other counters are bounded by the code. Every property of a
passing run is broken by a mutant of the code (the operators marked `Mutant` in
the modules) within the same bounds.

Deadlock is checked wherever the system cannot stop. The runs of
`NotificationService`, `Hub`, `Billing`, `WebPush` and `Platform` end: their requests,
connections, events and rows are finitely many and done.

### Fairness

`JobQueue!Fairness`: every worker and scheduler goroutine keeps running and
Redis answers it (weak fairness of its steps); a handler returns, because every
channel call has a timeout; time passes (`Elapse`); and a process that ended is
started again (`restart: always`, `src/docker-compose.prod.yml`). Nothing is
assumed of producers, stops, crashes, or of a handler ever succeeding.

`NotificationService!FairSpec`: a request runs to its end, a handler runs to
its end, due jobs are promoted; `TakeJob` is strongly fair since another job
may occupy the worker again and again, which the queue's first-in, first-out
lists rule out.

`Platform!Fairness`: Stripe delivers an event again until it is acknowledged;
nothing is assumed of payments, checkouts or
customers. The hub's loop and the bridge run, and the clients in `Readers` take
what is sent to them; the others need not. API processes are started again, the
statements of a migration are executed, requests are answered, `Shutdown`
returns at its deadline of thirty seconds; live-metrics streams need not end.

## 4. What is proved

Each theorem is for every value of the constants, under the assumptions named
in the modules and those the table adds.

| Module | Theorem | States |
|---|---|---|
| `JobQueue_proofs` | `TypeCorrect`, `OneOwner`, `AttemptsCounted`, `RetriesWait` | `TypeOK`, `SingleOwner`, `AttemptCountsCalls`, `RetryWaitsForBackoff`, with every kind of Redis failure |
| | `DrainedAtExit` | `DrainLeavesNothing`, without Redis failures |
| `Lifecycle_proofs` | `QueueImplementsLifecycle` | `ImplementsLifecycle`, if no reply is lost (`"unacked"` not in `RedisFaults`) |
| | `NothingIsLost` | `NothingLost` (until a first crash no job is lost), without Redis failures |
| | `DeadLettersStayDead` | `DeadLettersAreFinal`, without Redis failures |
| `NotificationService_proofs` | `NeverAcceptedTwice`, `SuccessMeansQueued`, `DeliveredStays` | `AcceptedOnce`, `AcceptedMeansQueued`, `DeliveredIsFinal`, with failing statements and crashes |
| | `SettledRecorded`, `HooksAgree` | `SettledIsRecorded`, `HooksTellTheRow`, with crashes, if no statement fails |
| | `SerialStatusIsAggregate` | `StatusIsAggregate`, one handler at a time, no failures, no crashes |
| | `RequestsKeepQuota` | `ImplementsQuota`, with failing statements and crashes |
| | `UsageBounded` | usage stays less than K above the limit while at most K requests are served at a time |
| `Limits_proofs` | `BoundedOvershoot` | `OvershootBounded`, for finitely many slots |
| | `RateTypeCorrect`, `LimitKept`, `RefusalsJustified` | `RateTypeOK`, `AtMostLimit`, `RefusedOnlyWhenFull` |
| | `PayingCustomersKnown`, `PlanIsPaidFor` | `PayersAreKnown`, `PlanFollowsSubscription`, if `Orderly` |
| `Client_proofs` | `RepeatsAreAnswered`, `AtMostOneSocket` | `DuplicatesComeFrom5xx`, `OneSocketOrTimer` |
| `Hub_proofs` | `ChannelsStayOpen`, `MessagesInOrder` | `NoSendAfterClose`, `InPublishOrder`, for any number of nodes, with faults |
| | `LastOneTurnsOff` | `OfflineWhenAllGone`, for any number of nodes |
| | `ConnectedIsOnline` | `OnlineWhileConnected`, on one node without faults |
| `Server_proofs` | `SchemaRecorded` | `SchemaMatchesRecord` |
| `Admin_proofs` | `TokensAreOwn`, `KeysLast` | `TokenIsOwn`, `KeysLastUntilRevoked` |
| | `ReferencesHold` | `JobsHaveSubscribers` |
| | `OverviewsNest` | `PeriodsNest` |
| | `DerivedVariablesSuffice` | `NoPlaceholderIsBlank` |
| | `EachListedPostedOnce` | `FailuresStayLocal` |

The bound of `UsageBounded` is proved and no run checks it; every other property
in the table is checked as well, but `RateTypeOK`.

The assumptions are where the code stops keeping the property, not where the
proof stops:

- A crash takes the job in hand with it, and a failed ZADD or LPUSH of `process`
  loses a job or leaves two of it (`queue_dlq_push`), so what is said of lost
  jobs and dead letters needs Redis to execute commands. `DrainLeavesNothing` needs it because an RPOP that fails
  is to `drainRemaining` an empty list.
- A handler that cannot write its row goes on, and the queue calls the job done:
  `SettledIsRecorded` and `HooksTellTheRow` need the statement.
- Two handlers write a status in the other order (`notification_race`), and a
  handler that crashes or fails after its row leaves the status as it was: hence
  one handler at a time, no failures, no crashes.
- Two nodes interleave HINCRBY and HDEL (`hub_presence_race`), and a presence
  command that fails is not repeated.
- Stripe's order (`billing_order`) and one checkout at a time per workspace are
  `Orderly`; no bound on checkouts, events, failures or repetitions is assumed.

### The queue

`SingleOwner` alone is not inductive: nothing in it says that a job that is
sent now was not there before, that the goroutine at `retry` still has the only
copy of its job, or that what a scheduler read a while ago cannot be confused
with a later retry of the same job. `Inductive` adds these:

- `Control`: what a goroutine's position says of the job in its hands;
- `UnsentNowhere`: a job that was not sent is in no list, set, hand or batch;
- `BatchOvertaken`: a member of a batch is either still delayed and due, or
  its job has moved on to a higher attempt. This is what makes a decision from
  a stale read safe: members are compared as whole values, attempt included,
  and `AttemptCountsCalls` keeps a job from coming back to the delayed set with
  the attempt it had. The mutant `ClaimById`, which removes by delivery id,
  breaks `RetryWaitsForBackoff`.

`InitOK` proves it of the initial states, `TypeStep` and `RestStep` that steps
keep it. `RestStep` groups the actions by what they do to the copies of a job:
`ShrinkStep` (every copy was there before), `ListingStep` (a push), `DelayingStep`
(a ZADD), `BeginStep` (a pop), `ClaimStep` (a ZREM), each lemma stated once.

`SingleOwner` bounds the number of a job's copies from above. The refinement
needs it from below as well, since the abstract job is at exactly one place:
`Full` adds `Placed` (every job is somewhere: unsent, on a list, delayed,
promoted, running, being given up, done, dead or lost), `Hands` (different
workers hold different jobs, and a job is given up only when no attempt is left,
nobody handles it or a command failed) and `Idle` (a process that is off has no
goroutines). Each action of the queue then moves its job from one place to
another, which is a step of `JobLifecycle`, or leaves it. A lost reply puts a job
at two places at once; that is why the theorem excludes it, and why `OneOwner`,
which only says from how many a job can be run, does not have to.
`NothingIsLost` follows from the same invariant and the absence of what leads
to `lost`. `DeadLettersStayDead` adds `DeadInv`: what is on the dead-letter list
carries the count of its calls, and that count is the maximum or the job has no handler.

`DrainedAtExit` is about a moment nobody observes: the workers read the three
lists one after the other, while producers and schedulers push. Four facts carry it.
`Overtaken`: a backlog entry is nowhere it could be pushed from, neither delayed
nor in a hand that returns it, for its job's counter has moved on by then; so
what of the backlog leaves the lists never returns to them (`ListsGain`). `LoopInv`: only workers of a stopping
process drain. `DrainInv`: the lists a worker is past are empty of the backlog,
and all are when a worker has exited; `PopShrinks` carries it through pops of others.

### The notification service

`AcceptedOnce` is about one handler, one row and the queue: `Inductive` says for
each delivery who may know of an acceptance. `AcceptanceKept`: the one handler
that has the job knows it, in `outcome`, from the call to the end, unless the
job left the queue, as done or with a crashed process; so no retry follows, whichever statements failed,
because what `HandleDelivery` returns does not depend on them. `HandlerRunsJob`
ties the handler to the queue's phase, `RowBeforeJob` and `RowIsKnown` the job
to the row that was inserted first, and `LoopAhead`, `LoopBehind` and `LoopHere`
say what `Send` left behind each position of its loop: nothing ahead, a row and
a job for every known channel behind. `AcceptedMeansQueued` is the last of them at the
end of the loop. `DeliveredIsFinal` follows from `DeliveredWasAccepted`: a second
handler would need the job of an accepted delivery.

`RecordInv` says between which statements row and outcome may differ.
`StatusCurrent`, for one handler at a time, names the only reasons why a status
may not be the aggregate: a pending delivery, a handler about to read the
deliveries, or one about to write what they still are. With two handlers the
third fails, which is the race.

`RequestsKeepQuota` maps a request between its check and its increment to a busy
slot of `SendQuota`; what it does in between, and all that handlers do,
stutters. A request that fails gives its slot back without an increment.
A model's slots are all its requests, so what bounds the usage of the real Send
is the next theorem, `UsageBounded`: as long as at most K requests are between
their check and their increment, usage is less than K above the limit, however
many there are in all. `ServingStep` carries it through the steps of `SendQuota`.

### The others

- Quota: inductive with `QuotaTypeOK`. At admission usage is below the limit
  and the other slots bound the rest; at the end of a request its slot is traded
  for its increment.
- Rate limiter: `RateInv` has `CountInv` (while a window lasts its key counts
  all it let through in time), `ServeInv` (what a key counts was served, until
  the window was full) and `ClockInv` (no request reads a window that has not
  begun, no key is given its time to live before). The last is what keeps an
  expiry from resetting the counter of a present window.
- Client: `SdkInv` gives each call that sleeps a 5xx that its next request will
  use up; `SocketInv` says that every socket but the last is closed, and that a
  timer runs only when that one is, too.
- Hub: `RegistryInv` adds that a client whose channel was closed is gone, and
  that one that is gone never registers again. `FlowInv` orders the hops: what is
  in the socket was published before what is in the channel, that before the
  hub's queue, that before the inbox, and each is in order; a full channel or a
  dropped envelope only takes elements out. `OfflineInv` compares the presence
  counter with the number of registered connections: until a fault it may be too
  low, since an HDEL takes along what another node has just added, never too
  high, so the last removal sees zero or less. `OnlineInv`: on one node it is exact.
- Billing: `CheckoutInv` follows the customer from the row to the session and
  the payment: one checkout of a workspace is busy at a time (`OneBusy`), the
  customer a session opens with is the row's (`CustomerInv`), and a row names a
  customer of its own workspace (`OwnCustomers`), so the lookup by customer finds
  the workspace that the event is about. `EventInv`
  says that the events of a workspace are taken one after another (`OneByOne`),
  that the last of them tells how its only subscription stands (`LastTells`),
  and that a row shows the latest event acknowledged, or a later one that was
  applied without its acknowledgement (`RowFollows`).
- Migrations: `MigrationInv` adds to each step of a process what it has seen
  recorded, and that the holder of the locks is the one process between the
  statements and the commit.
- Accounts: `AccountInv` says that a registration past its first insert owns
  the row of its e-mail; `KeyInv` that a key not handed out is in no row.
- Web push: `PushInv` says that what refers to a subscriber refers to the
  present row: the foreign key keeps it from being deleted, and only an absent
  one is created anew.
- Templates: `TemplateInv` says that a stored template whose variables were
  derived requires every placeholder of its present texts: an update replaces
  texts and variables together.
- Webhooks: `DispatchInv` says that a dispatch has made one request to what it
  listed and left behind and none to what its loop still has; `posts` counts, so
  a second request would be seen.
- Overview: `OverviewInv` orders what a request has read so far: all bounds are
  counted back from one reading of the clock, so a later query with an earlier
  bound sees every row an earlier one saw.

Only model-checked: liveness (`EventuallySettled`, `StopTerminates`,
`EventuallyFinal`, `ReadersReceive`, `PlanCatchesUp`, `EverybodyServes`), which
needs fairness and ENABLED, out of the prover's reach. Every invariant, action
property and refinement that a passing run checks is proved.

## 5. What is abstracted, and what is not modelled

- A job is its identity and its attempt counter. Payloads, subjects and
  metadata do not change the control of what is modelled. The length of a
  backoff is whether a member of the delayed set is due; the floating-point
  arithmetic of `CalculateBackoff` is not modelled.
- Redis and PostgreSQL keep their data and execute one command or statement at
  a time. The Redis client's own repetition of commands whose reply timed out
  is not modelled: it could apply a push twice.
- A job that does not unmarshal is discarded by `process`; the producer writes
  none, and the model has none.
- The clocks of the API processes are one clock in `RateLimiter`: a window is
  the same window for all of them.
- `SendBulk` is its concurrent Sends; its batches of a hundred and its wait for
  them order nothing that the properties speak of.
- Over the abstract queue a retry that the queue refuses gives the job up, as
  `process` does when its ZADD fails.
- The sorted set returns due members in any order, a batch is a set.
- A provider's acceptance whose answer is lost is an error like any other: the
  system is at-least-once there, and `AcceptedOnce` speaks of acceptances that
  reached a handler.
- Ping and pong deadlines are `Disconnect` at any time. A write pump's message
  in flight counts as written. `BroadcastToWorkspace` and `SendToSubscriber`
  have no callers when Redis is configured and are left out.
- Stripe is an environment. Of a subscription the model keeps whether it is
  active, past due or canceled; `current_period_end` and `plan_status` are
  written and decide nothing. `Orderly` restricts the instance of `platform`
  to a workspace with one checkout or subscription at a time: two at once can
  create two customers, the second of which overwrites the first.
  `Orderly` is a guard of `CreateCheckout` (a checkout waits until the one before
  is over) and of `ReceiveEvent` (events of a customer are taken in order); the
  code has neither, and `billing_order` runs without it.
- A text is the set of its placeholders, rendering is what it leaves blank.
- A migration is one step that creates objects and fails when they exist.
- A slug is the name and a suffix from a small set, so two registrations may
  draw the same; of a name's length there is whether its slug fits the column.
  Passwords and JSON web tokens are checked without state.
- A query of the overview is the set of rows it ranges over, by their age; what
  it aggregates over them is left out. `GetAnalytics` reads only.
- The log of the requests to webhook endpoints, which only a list for the user
  reads, is left out. A request ends after ten seconds at the latest; time is
  not measured, so that a dispatch holds up its handler (the comment at
  `services/webhook.go:41` says "never block the caller") is no property.
- Not modelled: the dashboard, which is a view over the API; the reverse proxy
  and containers; configuration, routing and seed data, which have no state of
  their own; the exchanges of the e-mail, SMS and WhatsApp channels, whose
  answers are outcomes of `CallProvider`; the VAPID keys.

Hazards that no property covers are in `PROJECT.json` with the reason: the
repeated push of the Redis client, the priority a delayed job loses, the presence
that a crashed or stopped node leaves behind, two checkouts or subscriptions of
one customer, the subscriber lookup whose failure is final, and the account
that half a registration leaves.

## 6. Plan

Done: the modules of section 2 and the theorems of section 4. Left, in this
order:

1. The priority of delayed jobs as state of `JobQueue`.
2. `CalculateBackoff` at its width against its documentation.

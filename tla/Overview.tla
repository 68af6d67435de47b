------------------------------ MODULE Overview ------------------------------
(***************************************************************************)
(* The dashboard's overview (services/analytics.go, store/analytics.go):   *)
(* requests of any API node share one cache entry with a time to live, and *)
(* those that miss it fill it from several queries that are no snapshot.   *)
(* Rows appear meanwhile; each query has its own bound on their age, all   *)
(* counted back from the one time at which the request read the clock.     *)
(***************************************************************************)
EXTENDS Integers, Sequences

CONSTANTS
    Visits,        \* requests for the overview
    Moments,       \* what the clock shows, in hours
    MaxDeliveries, \* bound on the delivery rows
    NoOverview

ASSUME OverviewAssumption == Moments \subseteq Int /\ Moments # {} /\ MaxDeliveries \in Nat

VARIABLES
    hour,   \* external: the clock
    made,   \* when each delivery row was created
    cache,  \* the cache entry
    visit,  \* how many queries each request has run, or what became of it
    asked,  \* when it read the clock
    view    \* the rows each query ranged over; at the end what was answered

overviewVars == <<hour, made, cache, visit, asked, view>>

(* Totals of a day, a week and a month; those of the day by channel and by  *)
(* hour; the subscribers that failed most in the week.                      *)
Queries  == <<"day", "week", "month", "channels", "hourly", "failing">>
Measures == {"day", "week", "month", "channels", "hourly", "failing"}

(* Mutant of Age: the channels of the week beside the totals of the day.    *)
AgeOfChannels(q) == CASE q \in {"day", "hourly"} -> 24 [] q = "month" -> 720 [] OTHER -> 168
(* since24h, since7d and since30d.                                          *)
Age(q) == CASE q \in {"week", "failing"} -> 168 [] q = "month" -> 720 [] OTHER -> 24

Unread == -1
Failed == -2
Shown  == 9
At(v, n) == visit' = [visit EXCEPT ![v] = n]
Nothing == [q \in Measures |-> {}]

OverviewInit ==
    /\ hour \in Moments /\ made = <<>> /\ cache = NoOverview
    /\ visit = [v \in Visits |-> Unread] /\ asked = [v \in Visits |-> hour]
    /\ view = [v \in Visits |-> Nothing]

Tick == \E t \in Moments : t > hour /\ hour' = t /\ UNCHANGED <<made, cache, visit, asked, view>>

CreateRow ==
    /\ Len(made) < MaxDeliveries /\ made' = Append(made, hour)
    /\ UNCHANGED <<hour, cache, visit, asked, view>>

-----------------------------------------------------------------------------
(* A hit is answered; on a miss or an error of Redis the clock is read.     *)
ReadCache(v) ==
    /\ visit[v] = Unread
    /\ \/ cache # NoOverview /\ At(v, Shown) /\ view' = [view EXCEPT ![v] = cache] /\ UNCHANGED asked
       \/ At(v, 0) /\ asked' = [asked EXCEPT ![v] = hour] /\ UNCHANGED view
    /\ UNCHANGED <<hour, made, cache>>

RowsSince(t) == {i \in DOMAIN made : made[i] >= t}

(* The next query, or an error in place of the overview.                    *)
RunQuery(v) ==
    LET q == Queries[visit[v] + 1] IN
    /\ visit[v] \in 0..5
    /\ \/ view' = [view EXCEPT ![v][q] = RowsSince(asked[v] - Age(q))] /\ At(v, visit[v] + 1)
       \/ At(v, Failed) /\ view' = [view EXCEPT ![v] = Nothing]
    /\ UNCHANGED <<hour, made, cache, asked>>

(* The result is cached, whatever is there by now, if Redis takes it.       *)
StoreOverview(v) ==
    /\ visit[v] = 6 /\ At(v, Shown)
    /\ cache' \in {cache, view[v]}
    /\ UNCHANGED <<hour, made, asked, view>>

Expire == cache # NoOverview /\ cache' = NoOverview /\ UNCHANGED <<hour, made, visit, asked, view>>

OverviewNext ==
    \/ CreateRow \/ Expire \/ Tick
    \/ \E v \in Visits : ReadCache(v) \/ RunQuery(v) \/ StoreOverview(v)

OverviewSpec == OverviewInit /\ [][OverviewNext]_overviewVars

-----------------------------------------------------------------------------
(* Though the queries see different states of the table, an overview never  *)
(* counts a row in a period and not in a longer one, in a total and not by  *)
(* channel, by channel and not by hour, or in the week's total and not      *)
(* where the week's failures are sought, from the cache or not.             *)
Nested(o) ==
    /\ o["day"] \subseteq o["week"] /\ o["week"] \subseteq o["month"]
    /\ o["day"] \subseteq o["channels"] /\ o["channels"] \subseteq o["hourly"]
    /\ o["week"] \subseteq o["failing"]

PeriodsNest == \A v \in Visits : visit[v] = Shown => Nested(view[v])
=============================================================================

---------------------------- MODULE Limits_proofs ----------------------------
(***************************************************************************)
(* What a workspace may use and what it pays for: the bound on usage, the  *)
(* rate limiter, and the plan that follows the subscription.               *)
(***************************************************************************)
EXTENDS SendQuota, RateLimiter, Billing, FiniteSetTheorems, TLAPS

(* The plan limit, for every limit and number of concurrent requests.       *)

(* The requests on their way are counted by a natural number.               *)
LEMMA SendingFinite ==
    /\ IsFiniteSet(Sending) /\ Cardinality(Sending) \in Nat
    /\ Cardinality(Sending) <= Cardinality(Slots) /\ Cardinality(Slots) \in Nat
BY SlotsAssumption, FS_Subset, FS_CardinalityType DEF Sending

(* At the start no request is on its way and nothing was used.              *)
LEMMA QuotaStart == QuotaInit => QuotaTypeOK /\ OvershootBounded
<1> SUFFICES ASSUME QuotaInit PROVE QuotaTypeOK /\ OvershootBounded
  OBVIOUS
<1>1. Sending = {}
  BY DEF QuotaInit, Sending
<1>2. Cardinality(Sending) = 0 /\ Cardinality(Slots) \in Nat
  BY <1>1, FS_EmptySet, SendingFinite
<1> QED BY <1>2, QuotaLimitAssumption DEF QuotaInit, QuotaTypeOK, OvershootBounded

(* Admission is where the bound could break: all slots are sending at most, *)
(* and usage is still below the limit.  The end of a request trades its     *)
(* slot for its increment.                                                  *)
LEMMA QuotaStep ==
    QuotaTypeOK /\ OvershootBounded /\ [QuotaNext]_quotaVars => QuotaTypeOK' /\ OvershootBounded'
<1> SUFFICES ASSUME QuotaTypeOK, OvershootBounded, [QuotaNext]_quotaVars
             PROVE  QuotaTypeOK' /\ OvershootBounded'
  OBVIOUS
<1> USE QuotaLimitAssumption
<1>1. CASE UNCHANGED quotaVars
  BY <1>1 DEF quotaVars, QuotaTypeOK, OvershootBounded, Sending
<1>2. ASSUME NEW s \in Slots, Admit(s)
      PROVE  QuotaTypeOK' /\ OvershootBounded'
  <2>1. QuotaTypeOK' /\ usage' = usage /\ usage \in Nat /\ usage < Limit
    BY <1>2 DEF Admit, QuotaTypeOK
  <2>2. Sending' \subseteq Slots
    BY DEF Sending
  <2>3. /\ Cardinality(Sending') \in Nat
        /\ Cardinality(Sending') <= Cardinality(Slots)
        /\ Cardinality(Slots) \in Nat
    BY <2>2, SlotsAssumption, FS_Subset, FS_CardinalityType
  <2>4. usage' + Cardinality(Sending') <= Limit + Cardinality(Slots) - 1
    BY <2>1, <2>3
  <2> QED BY <2>1, <2>4 DEF OvershootBounded
<1>3. ASSUME NEW s \in Slots, Finish(s)
      PROVE  QuotaTypeOK' /\ OvershootBounded'
  <2>1. QuotaTypeOK' /\ usage \in Nat /\ usage' \in {usage, usage + 1}
    BY <1>3 DEF Finish, QuotaTypeOK
  <2>2. s \in Sending /\ Sending' = Sending \ {s}
    BY <1>3 DEF Finish, QuotaTypeOK, Sending
  <2>3. Cardinality(Sending') = Cardinality(Sending) - 1
    BY <2>2, SendingFinite, FS_RemoveElement
  <2>4. usage' + Cardinality(Sending') <= Limit + Cardinality(Slots) - 1
    BY <2>1, <2>3, SendingFinite DEF OvershootBounded
  <2> QED BY <2>1, <2>4 DEF OvershootBounded
<1> QED BY <1>1, <1>2, <1>3 DEF QuotaNext

(* THEOREM: usage never exceeds the limit by as much as the number of       *)
(* requests served at the same time.                                        *)
THEOREM BoundedOvershoot == QuotaSpec => []OvershootBounded
BY QuotaStart, QuotaStep, PTL DEF QuotaSpec

-----------------------------------------------------------------------------
(* The rate limiter, for every number of requests, limit and windows.       *)

(* Nobody reads a window that has not begun, and no key is given a time to  *)
(* live before its window.                                                  *)
ClockInv ==
    /\ \A r \in Requests : request[r].read <= window
    /\ \A b \in Windows : expiry[b] # -1 => expiry[b] >= b

(* While a window lasts its key counts every request it let through.        *)
CountInv == \A b \in Windows : b >= window => admitted[b] <= counter[b]

(* What a key counts was served, until the window was full.                 *)
ServeInv == \A b \in Windows : served[b] >= counter[b] \/ served[b] >= RateLimit

RateInv ==
    RateTypeOK /\ ClockInv /\ CountInv /\ ServeInv /\ AtMostLimit /\ RefusedOnlyWhenFull

(* A request of the present window reads a counter that counts all admitted *)
(* so far.                                                                  *)
LEMMA RateStart == RateInit => RateInv
<1> SUFFICES ASSUME RateInit PROVE RateInv
  OBVIOUS
<1> USE RateAssumption DEF RateInit, Windows
<1>1. RateTypeOK
  BY DEF RateTypeOK
<1>2. ClockInv /\ CountInv /\ ServeInv
  BY DEF ClockInv, CountInv, ServeInv
<1>3. AtMostLimit /\ RefusedOnlyWhenFull
  BY DEF AtMostLimit, RefusedOnlyWhenFull
<1> QED BY <1>1, <1>2, <1>3 DEF RateInv

(* The key a request counts in is that of the window it read.               *)
LEMMA BucketIsRead ==
    ASSUME RateInv, NEW r \in Requests
    PROVE  /\ Bucket(r) = request[r].read /\ Bucket(r) \in Windows /\ Bucket(r) <= window
           /\ counter[Bucket(r)] \in Nat
BY DEF RateInv, RateTypeOK, ClockInv, Bucket, BucketOf, Windows

(* The step that counts, where a limit could be passed or a refusal be      *)
(* wrong: the answer is one more than all that was counted in this key.     *)
LEMMA CountStep ==
    ASSUME RateInv, NEW r \in Requests, Count(r)
    PROVE  RateInv'
<1> DEFINE b == Bucket(r)  n == counter[b] + 1
<1>1. /\ b = request[r].read /\ b \in Windows /\ b <= window /\ counter[b] \in Nat
      /\ n \in Nat /\ n > counter[b]
  BY BucketIsRead
<1>2. /\ counter' = [counter EXCEPT ![b] = n]
      /\ request' = [request EXCEPT ![r].at =
                        IF n = 1 THEN "expiring" ELSE IF n <= RateLimit THEN "passed" ELSE "refused"]
      /\ served' = IF n <= RateLimit THEN [served EXCEPT ![b] = @ + 1] ELSE served
      /\ admitted' = IF n <= RateLimit /\ b = window
                       THEN [admitted EXCEPT ![window] = @ + 1] ELSE admitted
      /\ window' = window /\ expiry' = expiry
  BY <1>1 DEF Count, Admits, Serve, Bucket, BucketOf
<1> HIDE DEF b, n
<1> USE RateAssumption
<1>3. RateTypeOK'
  <2>1. window' \in Windows /\ expiry' \in [Windows -> Windows \cup {-1}]
    BY <1>2 DEF RateInv, RateTypeOK
  <2>2. counter' \in [Windows -> Nat]
    BY <1>1, <1>2 DEF RateInv, RateTypeOK
  <2>3. request' \in [Requests -> [at : {"new", "counting", "expiring", "passed", "refused"},
                                   read : Windows]]
    BY <1>2 DEF RateInv, RateTypeOK
  <2>4. served' \in [Windows -> Nat] /\ admitted' \in [Windows -> Nat]
    BY <1>1, <1>2 DEF RateInv, RateTypeOK
  <2> QED BY <2>1, <2>2, <2>3, <2>4 DEF RateTypeOK
<1>4. ClockInv'
  BY <1>1, <1>2 DEF RateInv, RateTypeOK, ClockInv
<1>5. CountInv'
  BY <1>1, <1>2 DEF RateInv, RateTypeOK, CountInv, Windows
<1>6. ServeInv'
  <2> SUFFICES ASSUME NEW c \in Windows
               PROVE  served'[c] >= counter'[c] \/ served'[c] >= RateLimit
    BY <1>2 DEF ServeInv
  <2>1. served[c] >= counter[c] \/ served[c] >= RateLimit
    BY DEF RateInv, ServeInv
  <2>2. CASE c # b
    BY <1>1, <1>2, <2>1, <2>2 DEF RateInv, RateTypeOK
  <2>3. CASE c = b /\ n <= RateLimit
    BY <1>1, <1>2, <2>1, <2>3 DEF RateInv, RateTypeOK, n
  <2>4. CASE c = b /\ ~(n <= RateLimit)
    BY <1>1, <1>2, <2>1, <2>4 DEF RateInv, RateTypeOK, n
  <2> QED BY <2>2, <2>3, <2>4
<1>7. AtMostLimit'
  <2> SUFFICES ASSUME NEW c \in Windows
               PROVE  admitted'[c] <= RateLimit
    BY DEF AtMostLimit
  <2>1. admitted[c] <= RateLimit /\ admitted[c] \in Nat
    BY DEF RateInv, RateTypeOK, AtMostLimit
  <2>2. CASE n <= RateLimit /\ b = window /\ c = window
    <3>1. admitted[c] <= counter[b] /\ n = counter[b] + 1
      BY <1>1, <2>2 DEF RateInv, CountInv, n, Windows
    <3> QED BY <1>1, <1>2, <2>1, <2>2, <3>1 DEF RateInv, RateTypeOK
  <2>3. CASE ~(n <= RateLimit /\ b = window /\ c = window)
    BY <1>1, <1>2, <2>1, <2>3 DEF RateInv, RateTypeOK
  <2> QED BY <2>2, <2>3
<1>8. RefusedOnlyWhenFull'
  <2> SUFFICES ASSUME NEW q \in Requests, request'[q].at = "refused"
               PROVE  served'[request'[q].read] >= RateLimit
    BY DEF RefusedOnlyWhenFull
  <2>1. request'[q].read = request[q].read /\ request[q].read \in Windows
    BY <1>2 DEF RateInv, RateTypeOK
  <2>2. \A c \in Windows : served'[c] >= served[c] /\ served[c] \in Nat /\ served'[c] \in Nat
    BY <1>1, <1>2, <1>3 DEF RateInv, RateTypeOK
  <2>3. CASE q # r
    <3>1. served[request[q].read] >= RateLimit
      BY <1>2, <2>3 DEF RateInv, RateTypeOK, RefusedOnlyWhenFull
    <3> QED BY <2>1, <2>2, <3>1
  <2>4. CASE q = r
    <3>1. n > RateLimit
      BY <1>1, <1>2, <2>4 DEF RateInv, RateTypeOK
    <3>2. served[b] >= counter[b] \/ served[b] >= RateLimit
      BY <1>1 DEF RateInv, ServeInv
    <3>3. served[b] >= RateLimit
      BY <1>1, <2>2, <3>1, <3>2 DEF n
    <3> QED BY <1>1, <2>1, <2>2, <2>4, <3>3
  <2> QED BY <2>3, <2>4
<1> QED BY <1>3, <1>4, <1>5, <1>6, <1>7, <1>8 DEF RateInv

(* A request whose count failed is served: the key may have counted it.     *)
LEMMA FailOpenStep ==
    ASSUME RateInv, NEW r \in Requests, FailOpen(r)
    PROVE  RateInv'
<1> DEFINE b == Bucket(r)
<1>1. b = request[r].read /\ b \in Windows /\ b <= window /\ counter[b] \in Nat
  BY BucketIsRead
<1>2. /\ counter' = counter \/ counter' = [counter EXCEPT ![b] = @ + 1]
      /\ request' = [request EXCEPT ![r].at = "passed"]
      /\ served' = [served EXCEPT ![b] = @ + 1]
      /\ window' = window /\ expiry' = expiry /\ admitted' = admitted
  BY <1>1 DEF FailOpen, Serve
<1> HIDE DEF b
<1> USE RateAssumption
<1>3. RateTypeOK'
  BY <1>1, <1>2 DEF RateInv, RateTypeOK
<1>4. ClockInv' /\ AtMostLimit'
  BY <1>1, <1>2 DEF RateInv, RateTypeOK, ClockInv, AtMostLimit
<1>5. CountInv'
  <2>1. \A c \in Windows : counter'[c] >= counter[c] /\ counter[c] \in Nat /\ counter'[c] \in Nat
    BY <1>1, <1>2, <1>3 DEF RateInv, RateTypeOK
  <2>2. \A c \in Windows : admitted'[c] = admitted[c] /\ admitted[c] \in Nat
    BY <1>2 DEF RateInv, RateTypeOK
  <2> QED BY <1>2, <2>1, <2>2 DEF RateInv, CountInv
<1>6. ServeInv'
  BY <1>1, <1>2 DEF RateInv, RateTypeOK, ServeInv
<1>7. RefusedOnlyWhenFull'
  BY <1>1, <1>2 DEF RateInv, RateTypeOK, RefusedOnlyWhenFull
<1> QED BY <1>3, <1>4, <1>5, <1>6, <1>7 DEF RateInv

(* The other steps: a key goes only when its window is over, so what counts *)
(* the present window stays.                                                *)
LEMMA RateStep == RateInv /\ [RateNext]_rateVars => RateInv'
<1> SUFFICES ASSUME RateInv, [RateNext]_rateVars PROVE RateInv'
  OBVIOUS
<1> USE RateAssumption
<1>1. CASE UNCHANGED rateVars
  BY <1>1 DEF rateVars, RateInv, RateTypeOK, ClockInv, CountInv, ServeInv, AtMostLimit, RefusedOnlyWhenFull
<1>2. CASE NextWindow
  <2>1. RateTypeOK'
    BY <1>2 DEF NextWindow, RateInv, RateTypeOK, Windows
  <2>2. ClockInv' /\ CountInv' /\ ServeInv'
    BY <1>2 DEF NextWindow, RateInv, RateTypeOK, ClockInv, CountInv, ServeInv, Windows
  <2>3. AtMostLimit' /\ RefusedOnlyWhenFull'
    BY <1>2 DEF NextWindow, RateInv, AtMostLimit, RefusedOnlyWhenFull
  <2> QED BY <2>1, <2>2, <2>3 DEF RateInv
<1>3. ASSUME NEW b \in Windows, KeyExpires(b) PROVE RateInv'
  <2>1. b < window
    BY <1>3 DEF KeyExpires, RateInv, RateTypeOK, ClockInv, Windows
  <2>2. RateTypeOK'
    BY <1>3 DEF KeyExpires, RateInv, RateTypeOK
  <2>3. ClockInv'
    BY <1>3 DEF KeyExpires, RateInv, RateTypeOK, ClockInv
  <2>4. ServeInv'
    BY <1>3 DEF KeyExpires, RateInv, RateTypeOK, ServeInv
  <2>5. CountInv'
    BY <1>3, <2>1 DEF KeyExpires, RateInv, RateTypeOK, CountInv, Windows
  <2>6. AtMostLimit' /\ RefusedOnlyWhenFull'
    BY <1>3 DEF KeyExpires, RateInv, AtMostLimit, RefusedOnlyWhenFull
  <2> QED BY <2>2, <2>3, <2>4, <2>5, <2>6 DEF RateInv
<1>4. ASSUME NEW r \in Requests, ReadClock(r) PROVE RateInv'
  <2>1. RateTypeOK'
    BY <1>4 DEF ReadClock, RateInv, RateTypeOK
  <2>2. ClockInv' /\ CountInv' /\ ServeInv' /\ AtMostLimit'
    BY <1>4 DEF ReadClock, RateInv, RateTypeOK, ClockInv, CountInv, ServeInv, AtMostLimit, Windows
  <2>3. RefusedOnlyWhenFull'
    BY <1>4 DEF ReadClock, RateInv, RateTypeOK, RefusedOnlyWhenFull
  <2> QED BY <2>1, <2>2, <2>3 DEF RateInv
<1>5. ASSUME NEW r \in Requests, SetExpiry(r) PROVE RateInv'
  <2>1. /\ Bucket(r) \in Windows /\ Bucket(r) <= window
        /\ \/ expiry' = expiry
           \/ expiry' = [expiry EXCEPT ![Bucket(r)] = window]
           \/ expiry' = [expiry EXCEPT ![Bucket(r)] = -1]
    BY <1>5, BucketIsRead DEF SetExpiry
  <2>2. RateTypeOK'
    BY <1>5, <2>1 DEF SetExpiry, RateInv, RateTypeOK
  <2>3. ClockInv'
    BY <1>5, <2>1 DEF SetExpiry, RateInv, RateTypeOK, ClockInv
  <2>4. CountInv' /\ ServeInv' /\ AtMostLimit'
    BY <1>5 DEF SetExpiry, RateInv, CountInv, ServeInv, AtMostLimit
  <2>5. RefusedOnlyWhenFull'
    BY <1>5 DEF SetExpiry, RateInv, RateTypeOK, RefusedOnlyWhenFull
  <2> QED BY <2>2, <2>3, <2>4, <2>5 DEF RateInv
<1> QED BY <1>1, <1>2, <1>3, <1>4, <1>5, CountStep, FailOpenStep DEF RateNext

(* THEOREM: the limiter's state stays in its types.                         *)
THEOREM RateTypeCorrect == RateSpec => []RateTypeOK
<1>1. RateInv => RateTypeOK
  BY DEF RateInv
<1> QED BY <1>1, RateStart, RateStep, PTL DEF RateSpec

(* THEOREM: requests that keep to their window are admitted up to the limit *)
(* and no further.                                                          *)
THEOREM LimitKept == RateSpec => []AtMostLimit
<1>1. RateInv => AtMostLimit
  BY DEF RateInv
<1> QED BY <1>1, RateStart, RateStep, PTL DEF RateSpec

(* THEOREM: nobody is refused before a full limit was served.               *)
THEOREM RefusalsJustified == RateSpec => []RefusedOnlyWhenFull
<1>1. RateInv => RefusedOnlyWhenFull
  BY DEF RateInv
<1> QED BY <1>1, RateStart, RateStep, PTL DEF RateSpec

-----------------------------------------------------------------------------
(* Billing, for every number of checkouts, events, failures and repeats.    *)

(* What of Stripe's customers, checkouts and subscriptions holds together   *)
(* while a workspace has one checkout or subscription at a time.            *)
CheckoutTypes ==
    /\ row \in [Buyers -> [customer : Checkouts \cup {NoCustomer}, plan : {"free", "pro"},
                           sub : Checkouts \cup {NoCustomer}]]
    /\ checkout \in [Checkouts ->
         [at : {"idle", "persist", "session", "open", "paid", "failed"},
          customer : Checkouts \cup {NoCustomer}]]
    /\ paid \in [Checkouts -> {"none", "active", "past_due", "canceled"}]

OneBusy == \A h, k \in Checkouts : Buyer[h] = Buyer[k] /\ Busy(h) /\ Busy(k) => h = k

CustomerInv ==
    \A k \in Checkouts :
        /\ checkout[k].at \in {"session", "open", "paid"} =>
             row[Buyer[k]].customer = checkout[k].customer /\ checkout[k].customer # NoCustomer
        /\ checkout[k].at = "persist" =>
             row[Buyer[k]].customer = NoCustomer /\ checkout[k].customer = k
        /\ paid[k] # "none" => checkout[k].at = "paid"

(* A customer is of the workspace whose checkout made it.                   *)
OwnCustomers ==
    /\ \A w \in Buyers : row[w].customer # NoCustomer => Buyer[row[w].customer] = w
    /\ \A k \in Checkouts : checkout[k].customer # NoCustomer => Buyer[checkout[k].customer] = Buyer[k]

CheckoutInv == CheckoutTypes /\ OneBusy /\ CustomerInv /\ OwnCustomers

(* What the events say, and how far the row has followed them.              *)
About(w, i)  == Buyer[events[i].of] = w
EventRecord == [of : Checkouts, kind : {"session", "subscription"},
                status : {"active", "past_due", "canceled"}, at : {"sent", "found", "acked"},
                ws : Buyers \cup {NoCustomer}]
EventTypes   == events \in Seq(EventRecord)

(* An event is of a paid checkout, and a completed session of an active     *)
(* subscription; the lookup finds the workspace it is about.                *)
EventOf(i) ==
    /\ checkout[events[i].of].at = "paid"
    /\ events[i].kind = "session" => events[i].status = "active"
    /\ events[i].at = "found" => events[i].ws = Buyer[events[i].of]

(* Events of one workspace are taken one after another.                     *)
OneByOne ==
    \A i, j \in DOMAIN events :
        j < i /\ Buyer[events[i].of] = Buyer[events[j].of] /\ events[i].at # "sent" => events[j].at = "acked"

(* The last event of a workspace says how its only subscription stands.     *)
LastTells ==
    /\ \A i \in DOMAIN events :
         (\A j \in DOMAIN events : j > i => Buyer[events[j].of] # Buyer[events[i].of]) =>
           /\ paid[events[i].of] = events[i].status
           /\ \A h \in Checkouts : Buyer[h] = Buyer[events[i].of] /\ h # events[i].of =>
                paid[h] \notin {"active", "past_due"}
    /\ \A k \in Checkouts : paid[k] # "none" => \E i \in DOMAIN events : events[i].of = k

(* The row shows the latest event that was acknowledged, or a later one     *)
(* that was applied without its acknowledgement.                            *)
Shows(w, i) ==
    IF GrantsPro(events[i]) THEN row[w].plan = "pro" /\ row[w].sub = events[i].of
                            ELSE row[w].plan = "free"
RowFollows ==
    \A w \in Buyers :
        \/ /\ row[w].plan = "free"
           /\ \A j \in DOMAIN events : About(w, j) => events[j].at # "acked"
        \/ \E i \in DOMAIN events :
             /\ About(w, i) /\ Shows(w, i)
             /\ \A j \in DOMAIN events : j > i /\ About(w, j) => events[j].at # "acked"

EventInv ==
    EventTypes /\ (\A i \in DOMAIN events : EventOf(i)) /\ OneByOne /\ LastTells /\ RowFollows

LEMMA BillingStart == BillingInit => CheckoutInv /\ EventInv
<1> SUFFICES ASSUME BillingInit PROVE CheckoutInv /\ EventInv
  OBVIOUS
<1>1. CheckoutTypes
  BY DEF BillingInit, CheckoutTypes
<1>2. OneBusy /\ CustomerInv /\ OwnCustomers
  BY DEF BillingInit, OneBusy, CustomerInv, OwnCustomers, Busy, Buyers
<1>3. EventTypes /\ DOMAIN events = {}
  BY DEF BillingInit, EventTypes
<1>4. LastTells /\ RowFollows
  BY <1>3 DEF BillingInit, LastTells, RowFollows
<1> QED BY <1>1, <1>2, <1>3, <1>4 DEF CheckoutInv, EventInv, OneByOne

LEMMA EventFacts ==
    ASSUME EventTypes
    PROVE  \A i \in DOMAIN events :
             i \in Nat /\ events[i] \in EventRecord /\ events[i].of \in Checkouts /\ Buyer[events[i].of] \in Buyers
<1>1. \A i \in DOMAIN events : i \in Nat /\ events[i] \in EventRecord
  BY DEF EventTypes
<1> QED BY <1>1 DEF EventRecord, Buyers

(* The checkouts and Stripe's side of a subscription.                       *)
LEMMA CheckoutStep ==
    ASSUME Orderly, CheckoutInv, NEW k \in Checkouts,
           \/ CreateCheckout(k) \/ PersistCustomer(k) \/ OpenSession(k)
           \/ Pay(k) \/ Renew(k) \/ CancelInPortal(k)
    PROVE  CheckoutInv'
<1> USE BillingAssumption DEF CheckoutInv
<1>b. Buyer[k] \in Buyers /\ \A h \in Checkouts : Buyer[h] \in Buyers
  BY DEF Buyers
<1>1. CASE CreateCheckout(k)
  <2>1. CheckoutTypes'
    BY <1>1, <1>b DEF CreateCheckout, CheckoutTypes
  <2>2. OneBusy'
    BY <1>1, <1>b DEF CreateCheckout, CheckoutTypes, OneBusy, Busy
  <2>3. CustomerInv'
    BY <1>1, <1>b DEF CreateCheckout, CheckoutTypes, CustomerInv
  <2>4. OwnCustomers'
    BY <1>1, <1>b DEF CreateCheckout, CheckoutTypes, OwnCustomers
  <2> QED BY <2>1, <2>2, <2>3, <2>4
<1>2. CASE PersistCustomer(k)
  <2>1. CheckoutTypes'
    BY <1>2, <1>b DEF PersistCustomer, SetCustomer, CheckoutTypes
  <2>2. OneBusy'
    BY <1>2, <1>b DEF PersistCustomer, CheckoutTypes, OneBusy, Busy
  <2>3. CustomerInv'
    BY <1>2, <1>b DEF PersistCustomer, SetCustomer, CheckoutTypes, CustomerInv, OneBusy, Busy
  <2>4. OwnCustomers'
    BY <1>2, <1>b DEF PersistCustomer, SetCustomer, CheckoutTypes, OwnCustomers
  <2> QED BY <2>1, <2>2, <2>3, <2>4
<1>3. CASE OpenSession(k)
  <2>1. CheckoutTypes'
    BY <1>3, <1>b DEF OpenSession, CheckoutTypes
  <2>2. OneBusy'
    BY <1>3, <1>b DEF OpenSession, CheckoutTypes, OneBusy, Busy
  <2>3. CustomerInv'
    BY <1>3, <1>b DEF OpenSession, CheckoutTypes, CustomerInv
  <2>4. OwnCustomers'
    BY <1>3, <1>b DEF OpenSession, CheckoutTypes, OwnCustomers
  <2> QED BY <2>1, <2>2, <2>3, <2>4
<1>4. CASE Pay(k)
  <2>1. CheckoutTypes'
    BY <1>4, <1>b DEF Pay, CheckoutTypes
  <2>2. OneBusy'
    BY <1>4, <1>b DEF Pay, CheckoutTypes, OneBusy, Busy
  <2>3. CustomerInv'
    BY <1>4, <1>b DEF Pay, CheckoutTypes, CustomerInv
  <2>4. OwnCustomers'
    BY <1>4, <1>b DEF Pay, CheckoutTypes, OwnCustomers
  <2> QED BY <2>1, <2>2, <2>3, <2>4
<1>5. CASE Renew(k) \/ CancelInPortal(k)
  <2>1. /\ UNCHANGED <<row, checkout>> /\ paid[k] \in {"active", "past_due"}
        /\ \E s \in {"active", "past_due", "canceled"} : paid' = [paid EXCEPT ![k] = s]
    BY <1>5 DEF Renew, CancelInPortal
  <2>2. CheckoutTypes'
    BY <2>1 DEF CheckoutTypes
  <2>3. OneBusy'
    BY <2>1 DEF CheckoutTypes, OneBusy, Busy
  <2>4. CustomerInv'
    BY <2>1 DEF CheckoutTypes, CustomerInv
  <2>5. OwnCustomers'
    BY <2>1 DEF OwnCustomers
  <2> QED BY <2>2, <2>3, <2>4, <2>5
<1> QED BY <1>1, <1>2, <1>3, <1>4, <1>5

(* A row, and what an event writes to it.                                   *)
RowRecord == [customer : Checkouts \cup {NoCustomer}, plan : {"free", "pro"}, sub : Checkouts \cup {NoCustomer}]

LEMMA PlanWritten ==
    ASSUME NEW r \in RowRecord, NEW p \in {"free", "pro"}, NEW k \in Checkouts \cup {NoCustomer}
    PROVE  /\ [r EXCEPT !.plan = p, !.sub = k] \in RowRecord
           /\ [r EXCEPT !.plan = p, !.sub = k].customer = r.customer
BY DEF RowRecord

(* The webhook writes no customer.                                          *)
LEMMA WebhookKeepsCheckouts ==
    ASSUME CheckoutInv, EventInv, NEW i \in DOMAIN events, ReceiveEvent(i) \/ ApplyEvent(i) \/ RepeatEvent(i)
    PROVE  CheckoutInv'
<1>1. /\ UNCHANGED <<checkout, paid>> /\ events[i].of \in Checkouts
      /\ row' = row \/ (UpdateWorkspaceSubscription(i) /\ events[i].at = "found")
  <2>1. events[i].of \in Checkouts
    BY EventFacts DEF EventInv
  <2> QED BY <2>1 DEF ReceiveEvent, ApplyEvent, RepeatEvent
<1>2. Buyer[events[i].of] \in Buyers
  BY <1>1 DEF Buyers
<1>3. CheckoutTypes' /\ \A w \in Buyers : row'[w].customer = row[w].customer
  <2>1. CASE row' = row
    BY <1>1, <2>1 DEF CheckoutInv, CheckoutTypes
  <2>2. CASE UpdateWorkspaceSubscription(i) /\ events[i].at = "found"
    <3> DEFINE w == Buyer[events[i].of]
    <3>w. events[i].ws = w
      BY <2>2 DEF EventInv, EventOf
    <3>r. row[w] \in RowRecord
      BY <1>2 DEF CheckoutInv, CheckoutTypes, RowRecord
    <3>1. CASE GrantsPro(events[i])
      <4>1. row' = [row EXCEPT ![w] = [@ EXCEPT !.plan = "pro", !.sub = events[i].of]]
        BY <2>2, <3>w, <3>1 DEF UpdateWorkspaceSubscription
      <4>2. /\ [row[w] EXCEPT !.plan = "pro", !.sub = events[i].of] \in RowRecord
            /\ [row[w] EXCEPT !.plan = "pro", !.sub = events[i].of].customer = row[w].customer
        BY <1>1, <3>r, PlanWritten
      <4> QED BY <1>1, <1>2, <4>1, <4>2 DEF CheckoutInv, CheckoutTypes, RowRecord
    <3>2. CASE ~GrantsPro(events[i])
      <4>1. row' = [row EXCEPT ![w] = [@ EXCEPT !.plan = "free", !.sub = NoCustomer]]
        BY <2>2, <3>w, <3>2 DEF UpdateWorkspaceSubscription
      <4>2. /\ [row[w] EXCEPT !.plan = "free", !.sub = NoCustomer] \in RowRecord
            /\ [row[w] EXCEPT !.plan = "free", !.sub = NoCustomer].customer = row[w].customer
        BY <1>1, <3>r, PlanWritten
      <4> QED BY <1>1, <1>2, <4>1, <4>2 DEF CheckoutInv, CheckoutTypes, RowRecord
    <3> QED BY <3>1, <3>2
  <2> QED BY <1>1, <2>1, <2>2
<1>4. OneBusy'
  BY <1>1 DEF CheckoutInv, OneBusy, Busy
<1>5. CustomerInv'
  BY <1>1, <1>3 DEF CheckoutInv, CustomerInv, Buyers
<1>6. OwnCustomers'
  BY <1>1, <1>3 DEF CheckoutInv, OwnCustomers
<1> QED BY <1>3, <1>4, <1>5, <1>6 DEF CheckoutInv

(* What Emit adds: one or two events of the checkout, not yet delivered.    *)
Added(k, new) ==
    /\ events' \in Seq(EventRecord)
    /\ DOMAIN events \subseteq DOMAIN events'
    /\ \A i \in DOMAIN events : events'[i] = events[i]
    /\ new \in DOMAIN events' /\ new \notin DOMAIN events
    /\ \A i \in DOMAIN events' \ DOMAIN events :
         /\ events'[i].of = k /\ events'[i].at = "sent" /\ events'[i].status = paid'[k]
         /\ \A j \in DOMAIN events : j < i

LEMMA EmitAdds ==
    ASSUME EventTypes, NEW k \in Checkouts, paid'[k] \in {"active", "past_due", "canceled"},
           NEW kinds \in Seq({"session", "subscription"}), kinds # <<>>, Emit(k, kinds)
    PROVE  /\ Added(k, Len(events) + 1)
           /\ \A i \in DOMAIN events' \ DOMAIN events : \E j \in DOMAIN kinds : events'[i].kind = kinds[j]
<1> DEFINE more == [i \in DOMAIN kinds |-> [of |-> k, kind |-> kinds[i], status |-> paid'[k], at |-> "sent",
                                             ws |-> NoCustomer]]
<1>1. /\ DOMAIN kinds = 1..Len(kinds) /\ Len(kinds) \in Nat /\ Len(kinds) >= 1
      /\ \A i \in DOMAIN kinds : kinds[i] \in {"session", "subscription"}
  OBVIOUS
<1>2. \A i \in DOMAIN kinds : more[i] \in EventRecord
  BY <1>1 DEF EventRecord
<1>3. more \in Seq(EventRecord) /\ Len(more) = Len(kinds) /\ DOMAIN more = 1..Len(kinds)
  <2>1. more \in [1..Len(kinds) -> EventRecord]
    BY <1>1, <1>2
  <2> HIDE DEF more
  <2>2. more \in Seq(EventRecord)
    BY <1>1, <2>1
  <2>3. Len(more) = Len(kinds)
    BY <1>1, <2>1, <2>2
  <2> QED BY <2>1, <2>2, <2>3
<1>4. \A i \in DOMAIN more : /\ more[i].of = k /\ more[i].at = "sent" /\ more[i].status = paid'[k]
                              /\ more[i].kind = kinds[i]
  BY <1>1, <1>3
<1>5. events' = events \o more
  BY DEF Emit
<1> HIDE DEF more
<1>6. /\ events \in Seq(EventRecord) /\ DOMAIN events = 1..Len(events) /\ Len(events) \in Nat
      /\ DOMAIN (events \o more) = 1..(Len(events) + Len(kinds)) /\ events \o more \in Seq(EventRecord)
      /\ \A i \in DOMAIN (events \o more) :
           (events \o more)[i] = IF i <= Len(events) THEN events[i] ELSE more[i - Len(events)]
  BY <1>1, <1>3 DEF EventTypes
<1>7. \A i \in DOMAIN events' \ DOMAIN events :
        /\ i - Len(events) \in DOMAIN more /\ i - Len(events) \in DOMAIN kinds
        /\ events'[i] = more[i - Len(events)]
        /\ \A j \in DOMAIN events : j < i
  BY <1>1, <1>3, <1>5, <1>6
<1>8. \A i \in DOMAIN events : events'[i] = events[i] /\ i \in DOMAIN events'
  BY <1>1, <1>5, <1>6
<1>9. Len(events) + 1 \in DOMAIN events' /\ Len(events) + 1 \notin DOMAIN events /\ events' \in Seq(EventRecord)
  BY <1>1, <1>5, <1>6
<1>10. \A i \in DOMAIN events' \ DOMAIN events :
         /\ events'[i].of = k /\ events'[i].at = "sent" /\ events'[i].status = paid'[k]
         /\ \E j \in DOMAIN kinds : events'[i].kind = kinds[j]
  BY <1>4, <1>7
<1>11. Added(k, Len(events) + 1)
  BY <1>7, <1>8, <1>9, <1>10 DEF Added
<1> QED BY <1>10, <1>11

(* Stripe changes a subscription and tells of it.                           *)
LEMMA StripeStep ==
    ASSUME Orderly, CheckoutInv, EventInv, NEW k \in Checkouts, UNCHANGED row,
           checkout' = checkout \/ checkout' = [checkout EXCEPT ![k].at = "paid"],
           checkout'[k].at = "paid", Busy(k), NEW s \in {"active", "past_due", "canceled"},
           paid' = [paid EXCEPT ![k] = s], Added(k, Len(events) + 1),
           \A i \in DOMAIN events' \ DOMAIN events : events'[i].kind = "session" => s = "active"
    PROVE  EventInv'
<1> USE DEF EventInv, Added
<1>1. /\ \A h \in Checkouts : h # k /\ Buyer[h] = Buyer[k] => paid[h] \notin {"active", "past_due"}
      /\ paid'[k] = s /\ \A h \in Checkouts \ {k} : paid'[h] = paid[h]
  BY DEF CheckoutInv, CheckoutTypes, OneBusy, Busy
<1>2. EventTypes'
  BY DEF EventTypes
<1>3. \A i \in DOMAIN events : events[i].of \in Checkouts /\ i \in Nat
  BY EventFacts
<1>4. ASSUME NEW i \in DOMAIN events' PROVE EventOf(i)'
  <2>1. CASE i \in DOMAIN events
    BY <1>3, <2>1 DEF EventOf, CheckoutInv, CheckoutTypes
  <2>2. CASE i \notin DOMAIN events
    BY <1>1, <2>2 DEF EventOf
  <2> QED BY <2>1, <2>2
<1>5. OneByOne'
  BY <1>2 DEF OneByOne, EventTypes
<1>6. LastTells'
  <2>1. ASSUME NEW i \in DOMAIN events', \A j \in DOMAIN events' : j > i => Buyer[events'[j].of] # Buyer[events'[i].of]
        PROVE  /\ paid'[events'[i].of] = events'[i].status
               /\ \A h \in Checkouts : Buyer[h] = Buyer[events'[i].of] /\ h # events'[i].of =>
                    paid'[h] \notin {"active", "past_due"}
    <3>1. CASE i \in DOMAIN events
      <4>1. Buyer[events[i].of] # Buyer[k]
        <5>1. PICK n \in DOMAIN events' : n \notin DOMAIN events
          OBVIOUS
        <5>2. n > i /\ events'[n].of = k /\ events'[i] = events[i]
          BY <3>1, <5>1, <1>2, EventFacts DEF EventTypes
        <5> QED BY <2>1, <5>1, <5>2
      <4>2. \A j \in DOMAIN events : j > i => Buyer[events[j].of] # Buyer[events[i].of]
        BY <2>1, <3>1
      <4> QED BY <1>1, <1>3, <3>1, <4>1, <4>2 DEF LastTells
    <3>2. CASE i \notin DOMAIN events
      BY <1>1, <3>2
    <3> QED BY <3>1, <3>2
  <2>2. ASSUME NEW h \in Checkouts, paid'[h] # "none" PROVE \E i \in DOMAIN events' : events'[i].of = h
    BY <1>1, <2>2 DEF LastTells
  <2>3. \A i \in DOMAIN events' :
         (\A j \in DOMAIN events' : j > i => Buyer[events'[j].of] # Buyer[events'[i].of]) =>
           /\ paid'[events'[i].of] = events'[i].status
           /\ \A h \in Checkouts : Buyer[h] = Buyer[events'[i].of] /\ h # events'[i].of =>
                paid'[h] \notin {"active", "past_due"}
    BY <2>1
  <2> QED BY <2>2, <2>3 DEF LastTells
<1>7. RowFollows'
  BY DEF RowFollows, About, Shows, GrantsPro
<1> QED BY <1>2, <1>4, <1>5, <1>6, <1>7

(* A checkout step before the payment touches nothing of this.              *)
LEMMA CheckoutKeepsEvents ==
    ASSUME CheckoutInv, EventInv, NEW k \in Checkouts, CreateCheckout(k) \/ PersistCustomer(k) \/ OpenSession(k)
    PROVE  EventInv'
<1>1. /\ UNCHANGED <<events, paid>>
      /\ \A h \in Checkouts : checkout[h].at = "paid" => checkout'[h].at = "paid"
  <2>1. CASE CreateCheckout(k)
    BY <2>1 DEF CreateCheckout, CheckoutInv, CheckoutTypes
  <2>2. CASE PersistCustomer(k)
    BY <2>2 DEF PersistCustomer, CheckoutInv, CheckoutTypes
  <2>3. CASE OpenSession(k)
    BY <2>3 DEF OpenSession, CheckoutInv, CheckoutTypes
  <2> QED BY <2>1, <2>2, <2>3
<1>2. \A w \in Buyers : row'[w].plan = row[w].plan /\ row'[w].sub = row[w].sub
  BY DEF CreateCheckout, PersistCustomer, OpenSession, SetCustomer, CheckoutInv, CheckoutTypes
<1>3. EventTypes' /\ OneByOne' /\ LastTells'
  BY <1>1 DEF EventInv, EventTypes, OneByOne, LastTells
<1>4. \A i \in DOMAIN events' : EventOf(i)'
  BY <1>1, EventFacts DEF EventInv, EventOf
<1>5. RowFollows'
  BY <1>1, <1>2 DEF EventInv, RowFollows, About, Shows, GrantsPro
<1> QED BY <1>3, <1>4, <1>5 DEF EventInv

LEMMA StripeKeepsEvents ==
    ASSUME Orderly, CheckoutInv, EventInv, NEW k \in Checkouts, Pay(k) \/ Renew(k) \/ CancelInPortal(k)
    PROVE  EventInv'
<1>1. EventTypes
  BY DEF EventInv
<1>2. CASE Pay(k)
  <2>1. /\ UNCHANGED row /\ checkout' = [checkout EXCEPT ![k].at = "paid"] /\ Busy(k)
        /\ paid' = [paid EXCEPT ![k] = "active"]
    BY <1>2 DEF Pay, Busy
  <2>2. checkout'[k].at = "paid" /\ paid'[k] = "active"
    BY <2>1 DEF CheckoutInv, CheckoutTypes
  <2>3. Added(k, Len(events) + 1)
    <3>1. CASE Emit(k, <<"session", "subscription">>)
      <4>1. <<"session", "subscription">> \in Seq({"session", "subscription"}) /\ <<"session", "subscription">> # <<>>
        OBVIOUS
      <4> QED BY <1>1, <2>2, <3>1, <4>1, EmitAdds
    <3>2. CASE Emit(k, <<"subscription", "session">>)
      <4>1. <<"subscription", "session">> \in Seq({"session", "subscription"}) /\ <<"subscription", "session">> # <<>>
        OBVIOUS
      <4> QED BY <1>1, <2>2, <3>2, <4>1, EmitAdds
    <3> QED BY <1>2, <3>1, <3>2 DEF Pay
  <2> QED BY <2>1, <2>2, <2>3, StripeStep
<1>3. CASE Renew(k) \/ CancelInPortal(k)
  <2>1. /\ UNCHANGED <<row, checkout>> /\ Emit(k, <<"subscription">>) /\ paid[k] \in {"active", "past_due"}
        /\ \E s \in {"active", "past_due", "canceled"} : paid' = [paid EXCEPT ![k] = s]
    BY <1>3 DEF Renew, CancelInPortal
  <2>2. PICK s \in {"active", "past_due", "canceled"} : paid' = [paid EXCEPT ![k] = s]
    BY <2>1
  <2>3. paid'[k] = s /\ checkout[k].at = "paid" /\ Busy(k)
    BY <2>1, <2>2 DEF CheckoutInv, CheckoutTypes, CustomerInv, Busy
  <2>4. /\ Added(k, Len(events) + 1)
        /\ \A i \in DOMAIN events' \ DOMAIN events : events'[i].kind = "subscription"
    <3>1. /\ <<"subscription">> \in Seq({"session", "subscription"}) /\ <<"subscription">> # <<>>
          /\ \A j \in DOMAIN <<"subscription">> : <<"subscription">>[j] = "subscription"
      OBVIOUS
    <3> QED BY <1>1, <2>1, <2>3, <3>1, EmitAdds
  <2> QED BY <2>1, <2>2, <2>3, <2>4, StripeStep
<1> QED BY <1>2, <1>3

(* The events of a workspace are events of its one customer.                *)
LEMMA OneCustomer ==
    ASSUME CheckoutInv, EventInv, NEW i \in DOMAIN events, NEW j \in DOMAIN events,
           Buyer[events[i].of] = Buyer[events[j].of]
    PROVE  Same(i, j)
<1>1. events[i].of \in Checkouts /\ events[j].of \in Checkouts
  BY EventFacts DEF EventInv
<1> QED BY <1>1 DEF EventInv, EventOf, CheckoutInv, CustomerInv, Same, CustomerOf

(* The lookup by customer finds the workspace that the event is about.      *)
LEMMA LookupIsRight ==
    ASSUME CheckoutInv, EventInv, NEW i \in DOMAIN events, NEW w \in Matches(i)
    PROVE  w = Buyer[events[i].of] /\ w \in Buyers
<1> DEFINE k == events[i].of
<1>1. k \in Checkouts /\ checkout[k].at = "paid"
  BY EventFacts DEF EventInv, EventOf
<1>2. row[w].customer = checkout[k].customer /\ w \in Buyers
  BY DEF Matches, CustomerOf
<1>3. checkout[k].customer # NoCustomer
  BY <1>1 DEF CheckoutInv, CustomerInv
<1> QED BY <1>1, <1>2, <1>3 DEF CheckoutInv, OwnCustomers

(* An event after a step of its handler.                                    *)
LEMMA Handled ==
    ASSUME NEW e \in EventRecord, NEW at \in {"sent", "found", "acked"}, NEW w \in Buyers \cup {NoCustomer}
    PROVE  /\ [e EXCEPT !.at = at] = [of |-> e.of, kind |-> e.kind, status |-> e.status, at |-> at, ws |-> e.ws]
           /\ [e EXCEPT !.at = at, !.ws = w] = [of |-> e.of, kind |-> e.kind, status |-> e.status, at |-> at, ws |-> w]
<1> DEFINE f == [e EXCEPT !.at = at]
<1>1. f = [of |-> e.of, kind |-> e.kind, status |-> e.status, at |-> at, ws |-> e.ws]
  BY DEF EventRecord
<1>2. [e EXCEPT !.at = at, !.ws = w] = [f EXCEPT !.ws = w]
  OBVIOUS
<1> HIDE DEF f
<1>3. [f EXCEPT !.ws = w] = [of |-> e.of, kind |-> e.kind, status |-> e.status, at |-> at, ws |-> w]
  BY <1>1
<1> QED BY <1>1, <1>2, <1>3 DEF f

(* The steps of the webhook.                                                *)
LEMMA WebhookKeepsEvents ==
    ASSUME Orderly, CheckoutInv, EventInv, NEW i \in DOMAIN events,
           ReceiveEvent(i) \/ ApplyEvent(i) \/ RepeatEvent(i)
    PROVE  EventInv'
<1> DEFINE w == Buyer[events[i].of]
<1>1. /\ \A j \in DOMAIN events : /\ j \in Nat /\ events[j] \in EventRecord /\ events[j].of \in Checkouts
                                  /\ Buyer[events[j].of] \in Buyers
      /\ events \in Seq(EventRecord) /\ DOMAIN events = 1..Len(events)
  BY EventFacts DEF EventInv, EventTypes
<1>2. PICK s \in {"sent", "found", "acked"}, u \in Buyers \cup {NoCustomer} :
        /\ events' = [events EXCEPT ![i] = [of |-> events[i].of, kind |-> events[i].kind,
                                            status |-> events[i].status, at |-> s, ws |-> u]]
        /\ s = "found" => u = w
        /\ ReceiveEvent(i) => s = "found"
  <2>1. CASE ReceiveEvent(i)
    <3>1. PICK u \in Matches(i) : events' = [events EXCEPT ![i] = [events[i] EXCEPT !.at = "found", !.ws = u]]
      BY <2>1 DEF ReceiveEvent
    <3>2. u \in Buyers /\ u = w
      BY LookupIsRight
    <3>3. [events[i] EXCEPT !.at = "found", !.ws = u]
            = [of |-> events[i].of, kind |-> events[i].kind, status |-> events[i].status, at |-> "found", ws |-> u]
      BY <1>1, <3>2, Handled
    <3> QED BY <3>1, <3>2, <3>3
  <2>2. CASE ApplyEvent(i) \/ RepeatEvent(i)
    <3>1. PICK s \in {"sent", "acked"} : events' = [events EXCEPT ![i] = [events[i] EXCEPT !.at = s]]
      BY <2>2 DEF ApplyEvent, RepeatEvent, BillingWebhook
    <3>2. ~ReceiveEvent(i) /\ events[i].ws \in Buyers \cup {NoCustomer}
      BY <1>1, <2>2 DEF ApplyEvent, RepeatEvent, ReceiveEvent, EventRecord
    <3>3. events' = [events EXCEPT ![i] = [of |-> events[i].of, kind |-> events[i].kind,
                                          status |-> events[i].status, at |-> s, ws |-> events[i].ws]]
      BY <1>1, <3>1, Handled
    <3> QED BY <3>2, <3>3
  <2> QED BY <2>1, <2>2
<1>3. /\ DOMAIN events' = DOMAIN events /\ events' \in Seq(EventRecord) /\ events'[i].at = s /\ (s = "found" => events'[i].ws = w)
      /\ \A j \in DOMAIN events : /\ events'[j].of = events[j].of /\ events'[j].kind = events[j].kind
                                  /\ events'[j].status = events[j].status
                                  /\ j # i => events'[j].at = events[j].at /\ events'[j].ws = events[j].ws
  BY <1>1, <1>2 DEF EventRecord
<1>4. UNCHANGED <<checkout, paid>>
  BY DEF ReceiveEvent, ApplyEvent, RepeatEvent
<1>5. LastTells' /\ \A j \in DOMAIN events' : EventOf(j)'
  BY <1>3, <1>4 DEF EventInv, EventOf, LastTells
<1>6. OneByOne'
  <2> SUFFICES ASSUME NEW h \in DOMAIN events, NEW j \in DOMAIN events, j < h,
                      Buyer[events[h].of] = Buyer[events[j].of], events'[h].at # "sent"
               PROVE  events'[j].at = "acked"
    BY <1>3 DEF OneByOne
  <2>1. Same(h, j)
    BY OneCustomer
  <2>2. CASE ReceiveEvent(i)
    <3>1. \A g \in DOMAIN events : g < i /\ Same(g, i) => events[g].at = "acked"
      <4>1. \A g \in 1..(i - 1) : Same(i, g) => events[g].at = "acked"
        BY <2>2 DEF ReceiveEvent
      <4>2. \A g \in DOMAIN events : g < i => g \in 1..(i - 1)
        BY <1>1
      <4> QED BY <4>1, <4>2 DEF Same
    <3>2. j # i
      <4>1. j = i => events[h].at # "sent"
        BY <1>3
      <4>2. events[h].at # "sent" => events[j].at = "acked"
        BY DEF EventInv, OneByOne
      <4> QED BY <2>2, <4>1, <4>2 DEF ReceiveEvent
    <3>3. events[j].at = "acked"
      BY <1>1, <1>3, <2>1, <3>1 DEF Same, EventInv, OneByOne
    <3> QED BY <1>3, <3>2, <3>3
  <2>3. CASE ApplyEvent(i)
    BY <1>1, <1>3, <2>3 DEF ApplyEvent, EventInv, OneByOne
  <2>4. CASE RepeatEvent(i)
    <3>1. CASE j = i
      <4>1. h \in (i + 1)..Len(events)
        BY <1>1, <3>1
      <4> QED BY <2>1, <2>4, <3>1, <4>1 DEF RepeatEvent, Same
    <3>2. CASE j # i
      BY <1>1, <1>2, <1>3, <2>4, <3>2 DEF RepeatEvent, EventInv, OneByOne
    <3> QED BY <3>1, <3>2
  <2> QED BY <2>2, <2>3, <2>4
<1>7. RowFollows'
  <2>1. CASE UNCHANGED row /\ (s = "acked" => events[i].at = "acked")
    <3>1. \A v \in Buyers, j \in DOMAIN events :
            /\ About(v, j)' <=> About(v, j)
            /\ Shows(v, j)' <=> Shows(v, j)
            /\ events'[j].at = "acked" => events[j].at = "acked"
      BY <1>3, <2>1 DEF About, Shows, GrantsPro
    <3> QED BY <1>3, <2>1, <3>1 DEF EventInv, RowFollows
  <2>2. CASE ApplyEvent(i) /\ UpdateWorkspaceSubscription(i)
    <3>w. events[i].ws = w
      BY <2>2 DEF ApplyEvent, EventInv, EventOf
    <3>1. /\ \A v \in Buyers \ {w} : row'[v] = row[v]
          /\ IF GrantsPro(events[i]) THEN row'[w].plan = "pro" /\ row'[w].sub = events[i].of
                                     ELSE row'[w].plan = "free"
      BY <1>1, <2>2, <3>w DEF UpdateWorkspaceSubscription, CheckoutInv, CheckoutTypes
    <3>2. \A j \in DOMAIN events : j > i /\ About(w, j) => events'[j].at # "acked"
      BY <1>1, <1>3, <2>2 DEF ApplyEvent, EventInv, OneByOne, About
    <3>3. ASSUME NEW v \in Buyers \ {w}
          PROVE  \/ row'[v].plan = "free" /\ \A j \in DOMAIN events' : About(v, j)' => events'[j].at # "acked"
                 \/ \E h \in DOMAIN events' :
                      /\ About(v, h)' /\ Shows(v, h)'
                      /\ \A j \in DOMAIN events' : j > h /\ About(v, j)' => events'[j].at # "acked"
      <4>1. \A j \in DOMAIN events :
              /\ About(v, j)' <=> About(v, j)
              /\ Shows(v, j)' <=> Shows(v, j)
              /\ About(v, j) => events'[j].at = events[j].at
        BY <1>3, <3>1, <3>3 DEF About, Shows, GrantsPro
      <4> QED BY <1>3, <3>1, <3>3, <4>1 DEF EventInv, RowFollows
    <3>4. About(w, i)' /\ Shows(w, i)' /\ \A j \in DOMAIN events' : j > i /\ About(w, j)' => events'[j].at # "acked"
      BY <1>3, <3>1, <3>2 DEF About, Shows, GrantsPro
    <3> QED BY <1>3, <3>3, <3>4 DEF RowFollows
  <2>3. \/ UNCHANGED row /\ (s = "acked" => events[i].at = "acked")
        \/ ApplyEvent(i) /\ UpdateWorkspaceSubscription(i)
    <3>1. CASE ReceiveEvent(i)
      BY <1>2, <3>1 DEF ReceiveEvent
    <3>2. CASE ApplyEvent(i)
      <4>1. UpdateWorkspaceSubscription(i) \/ (UNCHANGED row /\ events' = [events EXCEPT ![i].at = "sent"])
        <5>1. BillingWebhook(i, FALSE) => events' = [events EXCEPT ![i].at = "sent"]
          BY DEF BillingWebhook
        <5> QED BY <3>2, <5>1 DEF ApplyEvent
      <4> QED BY <1>1, <1>3, <3>2, <4>1 DEF EventRecord
    <3>3. CASE RepeatEvent(i)
      BY <3>3 DEF RepeatEvent
    <3> QED BY <3>1, <3>2, <3>3
  <2> QED BY <2>1, <2>2, <2>3
<1> QED BY <1>3, <1>5, <1>6, <1>7 DEF EventInv, EventTypes

LEMMA BillingKeeps == Orderly /\ CheckoutInv /\ EventInv /\ [BillingNext]_billingVars => CheckoutInv' /\ EventInv'
<1> SUFFICES ASSUME Orderly, CheckoutInv, EventInv, [BillingNext]_billingVars PROVE CheckoutInv' /\ EventInv'
  OBVIOUS
<1>1. ASSUME NEW k \in Checkouts, \/ CreateCheckout(k) \/ PersistCustomer(k) \/ OpenSession(k)
                                  \/ Pay(k) \/ Renew(k) \/ CancelInPortal(k)
      PROVE  CheckoutInv' /\ EventInv'
  <2>1. CheckoutInv'
    BY <1>1, CheckoutStep
  <2>2. EventInv'
    BY <1>1, CheckoutKeepsEvents, StripeKeepsEvents
  <2> QED BY <2>1, <2>2
<1>2. ASSUME NEW i \in DOMAIN events, ReceiveEvent(i) \/ ApplyEvent(i) \/ RepeatEvent(i)
      PROVE  CheckoutInv' /\ EventInv'
  <2>1. CheckoutInv'
    BY <1>2, WebhookKeepsCheckouts
  <2>2. EventInv'
    BY <1>2, WebhookKeepsEvents
  <2> QED BY <2>1, <2>2
<1>3. CASE UNCHANGED billingVars
  BY <1>3 DEF billingVars, CheckoutInv, CheckoutTypes, OneBusy, Busy, CustomerInv, OwnCustomers, EventInv, EventTypes, EventOf,
              OneByOne, LastTells, RowFollows, About, Shows, GrantsPro
<1> QED BY <1>1, <1>2, <1>3 DEF BillingNext

(* In orderly operation, whoever can pay or pays is the customer that its   *)
(* workspace's row names, whatever statement of the checkout fails.         *)
THEOREM PayingCustomersKnown == ASSUME Orderly PROVE BillingSpec => []PayersAreKnown
<1>1. CheckoutInv => PayersAreKnown
  BY DEF CheckoutInv, CustomerInv, PayersAreKnown
<1> QED BY <1>1, BillingStart, BillingKeeps, PTL DEF BillingSpec

(* In orderly operation, with whatever statements failed and events were    *)
(* repeated, a workspace whose events are all acknowledged is on the plan   *)
(* that its subscription pays for.                                          *)
THEOREM PlanIsPaidFor == ASSUME Orderly PROVE BillingSpec => []PlanFollowsSubscription
<1>1. ASSUME CheckoutInv, EventInv, \A i \in DOMAIN events : events[i].at = "acked", NEW w \in Buyers
      PROVE  LET active == {k \in Checkouts : Buyer[k] = w /\ paid[k] = "active"} IN
             IF active = {} THEN row[w].plan = "free" ELSE row[w].plan = "pro" /\ row[w].sub \in active
  <2> DEFINE active == {k \in Checkouts : Buyer[k] = w /\ paid[k] = "active"}
  <2>1. CASE row[w].plan = "free" /\ \A j \in DOMAIN events : ~About(w, j)
    <3>1. active = {}
      BY <1>1, <2>1 DEF EventInv, LastTells, About
    <3> QED BY <2>1, <3>1
  <2>2. ASSUME NEW i \in DOMAIN events, About(w, i), Shows(w, i), \A j \in DOMAIN events : j > i => ~About(w, j)
        PROVE  IF active = {} THEN row[w].plan = "free" ELSE row[w].plan = "pro" /\ row[w].sub \in active
    <3>1. events[i] \in EventRecord /\ events[i].of \in Checkouts
      BY <1>1, EventFacts DEF EventInv
    <3>2. /\ paid[events[i].of] = events[i].status
          /\ \A h \in Checkouts : Buyer[h] = w /\ h # events[i].of => paid[h] \notin {"active", "past_due"}
      BY <1>1, <2>2 DEF EventInv, LastTells, About
    <3>3. GrantsPro(events[i]) <=> events[i].status = "active"
      BY <1>1, <3>1 DEF EventInv, EventOf, GrantsPro, EventRecord
    <3> QED BY <2>2, <3>1, <3>2, <3>3 DEF About, Shows
  <2> QED BY <1>1, <2>1, <2>2 DEF EventInv, RowFollows
<1>2. CheckoutInv /\ EventInv => PlanFollowsSubscription
  BY <1>1 DEF PlanFollowsSubscription
<1> QED BY <1>2, BillingStart, BillingKeeps, PTL DEF BillingSpec
=============================================================================

----------------------------- MODULE RateLimiter -----------------------------
(***************************************************************************)
(* The fixed-window rate limiter (middleware/ratelimit.go) for one client   *)
(* or workspace: the requests of every API process count themselves in a    *)
(* Redis key per window, with one INCR and, for the first, one EXPIRE.      *)
(* Between reading the clock and the INCR a request may fall behind by any  *)
(* number of windows.  A key with a time to live goes at some moment of a   *)
(* later window than the one it was set in; the same moment of the next, in *)
(* the code.                                                                *)
(***************************************************************************)
EXTENDS Integers

CONSTANTS
    Requests,   \* API requests of the client
    RateLimit,  \* requests admitted per window
    MaxWindow   \* bound on the windows that pass

ASSUME RateAssumption == RateLimit \in Nat \ {0} /\ MaxWindow \in Nat

Windows == 0..MaxWindow

VARIABLES
    window,    \* the present window
    counter,   \* the value of each window's key, 0 when there is none
    expiry,    \* the window in which its EXPIRE was set, or -1
    request,   \* the step of each request, and the window in which it read the clock
    admitted,  \* history: requests let through by a count taken inside their window
    served     \* history: requests let through at all, by the window they read

rateVars == <<window, counter, expiry, request, admitted, served>>

RateInit ==
    /\ window = 0
    /\ counter = [b \in Windows |-> 0] /\ expiry = [b \in Windows |-> -1]
    /\ request = [r \in Requests |-> [at |-> "new", read |-> 0]]
    /\ admitted = [b \in Windows |-> 0] /\ served = [b \in Windows |-> 0]

NextWindow ==
    /\ window < MaxWindow
    /\ window' = window + 1
    /\ UNCHANGED <<counter, expiry, request, admitted, served>>

KeyExpires(b) ==
    /\ counter[b] > 0 /\ expiry[b] # -1 /\ expiry[b] < window
    /\ counter' = [counter EXCEPT ![b] = 0]
    /\ expiry' = [expiry EXCEPT ![b] = -1]
    /\ UNCHANGED <<window, request, admitted, served>>

(* Mutant of BucketOf: one key for all windows.                             *)
BucketConstant(w) == 0
(* The key carries the start of the window.                                 *)
BucketOf(w) == w

ReadClock(r) ==
    /\ request[r].at = "new"
    /\ request' = [request EXCEPT ![r] = [at |-> "counting", read |-> window]]
    /\ UNCHANGED <<window, counter, expiry, admitted, served>>

Bucket(r) == BucketOf(request[r].read)
Serve(r)  == served' = [served EXCEPT ![request[r].read] = @ + 1]
Admits(n) == n <= RateLimit

(* The INCR answers.  The first one sets the expiry next; the answer is     *)
(* already decided.                                                         *)
Count(r) ==
    LET n == counter[Bucket(r)] + 1 IN
    /\ request[r].at = "counting"
    /\ counter' = [counter EXCEPT ![Bucket(r)] = n]
    /\ request' = [request EXCEPT ![r].at =
                     IF n = 1 THEN "expiring" ELSE IF Admits(n) THEN "passed" ELSE "refused"]
    /\ IF Admits(n) THEN Serve(r) ELSE UNCHANGED served
    /\ admitted' = IF Admits(n) /\ request[r].read = window
                     THEN [admitted EXCEPT ![window] = @ + 1] ELSE admitted
    /\ UNCHANGED <<window, expiry>>

(* It fails, or its answer is lost: the request is let through.             *)
FailOpen(r) ==
    /\ request[r].at = "counting"
    /\ counter' \in {counter, [counter EXCEPT ![Bucket(r)] = @ + 1]}
    /\ request' = [request EXCEPT ![r].at = "passed"]
    /\ Serve(r)
    /\ UNCHANGED <<window, expiry, admitted>>

(* A failure of the EXPIRE is ignored; it finds no key that is gone.        *)
SetExpiry(r) ==
    /\ request[r].at = "expiring"
    /\ request' = [request EXCEPT ![r].at = "passed"]
    /\ expiry' \in {expiry, [expiry EXCEPT ![Bucket(r)] =
                               IF counter[Bucket(r)] > 0 THEN window ELSE -1]}
    /\ UNCHANGED <<window, counter, admitted, served>>

RateNext ==
    \/ NextWindow
    \/ \E b \in Windows : KeyExpires(b)
    \/ \E r \in Requests : ReadClock(r) \/ Count(r) \/ FailOpen(r) \/ SetExpiry(r)

RateSpec == RateInit /\ [][RateNext]_rateVars

-----------------------------------------------------------------------------
RateTypeOK ==
    /\ window \in Windows
    /\ counter \in [Windows -> Nat] /\ expiry \in [Windows -> Windows \cup {-1}]
    /\ request \in [Requests -> [at : {"new", "counting", "expiring", "passed", "refused"},
                                 read : Windows]]
    /\ admitted \in [Windows -> Nat] /\ served \in [Windows -> Nat]

(* Requests that keep to their window are admitted up to the limit, whatever *)
(* the delays of others, lost EXPIREs and keys that expire.  Requests let   *)
(* through without a count, and stragglers whose key is gone and starts     *)
(* again, come on top.                                                      *)
AtMostLimit == \A b \in Windows : admitted[b] <= RateLimit

(* A client is refused only after a full limit of requests of the same      *)
(* window was served: neither a counter that never expires nor one left     *)
(* over from another window locks it out.                                   *)
RefusedOnlyWhenFull ==
    \A r \in Requests : request[r].at = "refused" => served[request[r].read] >= RateLimit
=============================================================================

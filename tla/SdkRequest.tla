----------------------------- MODULE SdkRequest -----------------------------
(***************************************************************************)
(* One call of the TypeScript client (src/sdk/src/client.ts): request       *)
(* repeats what was answered with a 5xx and nothing else.  The server is    *)
(* external here: it may carry a request out and answer with an error, or   *)
(* be slower than the client's timer, and carry it out later.               *)
(***************************************************************************)
EXTENDS Integers

CONSTANTS
    Calls,     \* calls of request
    MaxRetries \* maxRetries of the client's configuration

ASSUME RetriesAssumption == MaxRetries \in Nat

VARIABLES
    call,      \* "idle", "waiting", "sleeping", "resolved" or "rejected"
    attempt,   \* the loop's counter
    wire,      \* the requests the server has not answered, timed-out ones included
    carried,   \* history: how often the server carried each call out
    errors5xx  \* history: how many 5xx answers each call received

sdkVars == <<call, attempt, wire, carried, errors5xx>>

SdkInit ==
    /\ call = [c \in Calls |-> "idle"] /\ attempt = [c \in Calls |-> 0]
    /\ wire = [c \in Calls |-> 0]
    /\ carried = [c \in Calls |-> 0] /\ errors5xx = [c \in Calls |-> 0]

Becomes(c, s) == call' = [call EXCEPT ![c] = s]
Bump(f, c)    == [f EXCEPT ![c] = @ + 1]

(* doRequest: fetch, with the abort timer running.                          *)
Fetch(c) ==
    /\ call[c] \in {"idle", "sleeping"} /\ Becomes(c, "waiting")
    /\ wire' = Bump(wire, c)
    /\ UNCHANGED <<attempt, carried, errors5xx>>

(* Mutant of Retryable: every error is repeated.                            *)
RetryableAll(c, error) == attempt[c] < MaxRetries
(* A PushNotifyError with a status of at least 500, and attempts are left.  *)
Retryable(c, error) == error = "5xx" /\ attempt[c] < MaxRetries

Fails(c, error) ==
    IF Retryable(c, error) THEN Becomes(c, "sleeping") /\ attempt' = Bump(attempt, c)
                           ELSE Becomes(c, "rejected") /\ UNCHANGED attempt

(* The server answers in time: with success, with an error of the client,   *)
(* or with a 5xx before or after it did the work.                           *)
ServerAnswers(c) ==
    /\ call[c] = "waiting" /\ wire[c] > 0
    /\ wire' = [wire EXCEPT ![c] = @ - 1]
    /\ \/ Becomes(c, "resolved") /\ carried' = Bump(carried, c) /\ UNCHANGED <<attempt, errors5xx>>
       \/ Fails(c, "4xx") /\ UNCHANGED <<carried, errors5xx>>
       \/ Fails(c, "5xx") /\ errors5xx' = Bump(errors5xx, c) /\ carried' \in {carried, Bump(carried, c)}

(* The timer aborts the fetch, or the network fails; neither is repeated.   *)
TimesOut(c) ==
    /\ call[c] = "waiting" /\ Fails(c, "timeout")
    /\ UNCHANGED <<wire, carried, errors5xx>>

(* A request that was given up may still be carried out.                    *)
ServerLate(c) ==
    /\ call[c] # "waiting" /\ wire[c] > 0
    /\ wire' = [wire EXCEPT ![c] = @ - 1] /\ carried' \in {carried, Bump(carried, c)}
    /\ UNCHANGED <<call, attempt, errors5xx>>

SdkNext == \E c \in Calls : Fetch(c) \/ ServerAnswers(c) \/ TimesOut(c) \/ ServerLate(c)

SdkSpec == SdkInit /\ [][SdkNext]_sdkVars

-----------------------------------------------------------------------------
(* A call is carried out a second time only for a 5xx that was received: a  *)
(* slow server, or a lost answer, duplicates nothing, and a call that       *)
(* resolved was carried out.                                                *)
DuplicatesComeFrom5xx ==
    \A c \in Calls :
        /\ carried[c] + wire[c] <= errors5xx[c] + 1
        /\ call[c] = "resolved" => carried[c] >= 1
=============================================================================

---------------------------- MODULE JobLifecycle ----------------------------
(***************************************************************************)
(* What the delivery queue promises about one job, without lists, workers, *)
(* schedulers or processes: the phases it goes through, how often its      *)
(* handler is called, and which phases a failure can lose it from.  A job  *)
(* that rests in Redis (ready or waiting) is never lost; one that a        *)
(* goroutine holds (promoting or running) is lost with it when a process   *)
(* crashes or a Redis command fails, which `Lossy' allows.                 *)
(***************************************************************************)
EXTENDS Naturals

CONSTANTS Jobs, Unhandled, MaxAttempts, Lossy

VARIABLES
    phase,  \* of each job
    calls   \* of its handler so far

Init == phase = [j \in Jobs |-> "new"] /\ calls = [j \in Jobs |-> 0]

Move(j, from, to) == phase[j] = from /\ phase' = [phase EXCEPT ![j] = to]

Send(j) == (Move(j, "new", "ready") \/ Move(j, "new", "waiting")) /\ UNCHANGED calls

Claim(j)   == Move(j, "waiting", "promoting") /\ UNCHANGED calls
Promote(j) == Move(j, "promoting", "ready") /\ UNCHANGED calls

Begin(j) ==
    /\ Move(j, "ready", "running")
    /\ IF j \in Unhandled
         THEN UNCHANGED calls
         ELSE calls[j] < MaxAttempts /\ calls' = [calls EXCEPT ![j] = @ + 1]

Succeed(j) == j \notin Unhandled /\ Move(j, "running", "done") /\ UNCHANGED calls

Retry(j) ==
    /\ j \notin Unhandled
    /\ calls[j] < MaxAttempts
    /\ Move(j, "running", "waiting")
    /\ UNCHANGED calls

(* A job is given up when its attempts are used up, when nothing handles    *)
(* it, or when Redis refuses its retry.                                     *)
GiveUp(j) ==
    /\ j \in Unhandled \/ calls[j] = MaxAttempts \/ Lossy
    /\ Move(j, "running", "dead")
    /\ UNCHANGED calls

Lose(S) ==
    /\ Lossy
    /\ \A j \in S : phase[j] \in {"promoting", "running"}
    /\ phase' = [j \in Jobs |-> IF j \in S THEN "lost" ELSE phase[j]]
    /\ UNCHANGED calls

Next ==
    \/ \E j \in Jobs :
         \/ Send(j) \/ Claim(j) \/ Promote(j) \/ Begin(j)
         \/ Succeed(j) \/ Retry(j) \/ GiveUp(j)
    \/ \E S \in SUBSET Jobs : Lose(S)

Spec == Init /\ [][Next]_<<phase, calls>>
=============================================================================

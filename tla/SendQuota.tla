------------------------------ MODULE SendQuota ------------------------------
(***************************************************************************)
(* The plan limit of one workspace, as the API's concurrent requests see   *)
(* it: a request reads the usage counter once, works for a while, and adds *)
(* one to the counter at its end if nothing failed in between.  The        *)
(* counter is not a reservation, so the promise is not "usage stays within *)
(* the limit" but the bound below.                                         *)
(***************************************************************************)
EXTENDS Integers, FiniteSets

CONSTANTS
    Slots,  \* requests the API serves at the same time; each serves one after another
    Limit   \* notifications_limit of the workspace's plan

ASSUME SlotsAssumption      == IsFiniteSet(Slots)
ASSUME QuotaLimitAssumption == Limit \in Nat \ {0}

VARIABLES
    stage,  \* "idle", or "sending" from the check to the end of Send
    usage   \* workspaces.notifications_sent

quotaVars == <<stage, usage>>

QuotaInit == stage = [s \in Slots |-> "idle"] /\ usage = 0

(* Mutant of Admit: the limit itself is let through.                        *)
AdmitLate(s) ==
    /\ stage[s] = "idle"
    /\ usage <= Limit
    /\ stage' = [stage EXCEPT ![s] = "sending"]
    /\ UNCHANGED usage

(* The check at the top of Send passes.                                     *)
Admit(s) ==
    /\ stage[s] = "idle"
    /\ usage < Limit
    /\ stage' = [stage EXCEPT ![s] = "sending"]
    /\ UNCHANGED usage

(* The request ends: with an error, or with success and an increment, whose *)
(* own failure is ignored.                                                  *)
Finish(s) ==
    /\ stage[s] = "sending"
    /\ stage' = [stage EXCEPT ![s] = "idle"]
    /\ usage' \in {usage, usage + 1}

QuotaNext == \E s \in Slots : Admit(s) \/ Finish(s)

QuotaSpec == QuotaInit /\ [][QuotaNext]_quotaVars

-----------------------------------------------------------------------------
QuotaTypeOK ==
    /\ stage \in [Slots -> {"idle", "sending"}]
    /\ usage \in Nat

Sending == {s \in Slots : stage[s] = "sending"}

(* Usage passes the limit by less than the number of requests served at the *)
(* same time: those that were admitted by the same reading of the counter.  *)
OvershootBounded == usage + Cardinality(Sending) <= Limit + Cardinality(Slots) - 1
=============================================================================

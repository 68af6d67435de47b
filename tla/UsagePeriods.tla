---------------------------- MODULE UsagePeriods ----------------------------
(***************************************************************************)
(* The usage counter over several billing months.  The plans sell a volume *)
(* per month; the counter of SendQuota is only ever incremented.  What was *)
(* sent in the present month is kept beside it.                            *)
(***************************************************************************)
EXTENDS SendQuota

CONSTANT MaxMonths  \* bound on the months

VARIABLES
    month,  \* external: the calendar
    sent,   \* history: notifications counted in this month
    turned  \* history: what sent was whenever a request was turned away

periodVars == <<quotaVars, month, sent, turned>>

PeriodsInit == QuotaInit /\ month = 1 /\ sent = 0 /\ turned = {}

(* A request that passes the check, and one that ends.                      *)
AdmitCounted(s)  == Admit(s) /\ UNCHANGED <<month, sent, turned>>
FinishCounted(s) == Finish(s) /\ sent' = sent + (usage' - usage) /\ UNCHANGED <<month, turned>>

(* The check at the top of Send fails: "notification limit reached".        *)
TurnAway(s) ==
    /\ stage[s] = "idle" /\ usage >= Limit
    /\ turned' = turned \cup {sent}
    /\ UNCHANGED <<quotaVars, month, sent>>

(* A month ends.  Nothing in the code takes notice.                         *)
NextMonth ==
    /\ month < MaxMonths /\ month' = month + 1 /\ sent' = 0
    /\ UNCHANGED <<quotaVars, turned>>

PeriodsNext ==
    \/ \E s \in Slots : AdmitCounted(s) \/ FinishCounted(s) \/ TurnAway(s)
    \/ NextMonth

PeriodsSpec == PeriodsInit /\ [][PeriodsNext]_periodVars

-----------------------------------------------------------------------------
(* A workspace may send the volume of its plan every month: a request is    *)
(* turned away only when this month's is used up.                           *)
MonthlyVolumeIsServed == \A volume \in turned : volume >= Limit
=============================================================================

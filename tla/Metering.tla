------------------------------ MODULE Metering -------------------------------
(***************************************************************************)
(* Usage metering and plan quotas of one organization                      *)
(* (packages/db/src/metering.ts, the API's QuotaGuard and UsageInterceptor *)
(* and the worker's roll-forward), for one enforced metric and the         *)
(* api_request counter.  A metered request is checked against the counter, *)
(* handled and answered; only then, and without anyone waiting for it, is  *)
(* its usage recorded.  A plan is represented by its quota of the metric.  *)
(* X_Fault is the definition X with a plausible bug (see README.md).       *)
(***************************************************************************)
EXTENDS Integers, FiniteSets

CONSTANTS
    Request,        \* requests, each used once
    Plan,           \* quotas of the plans; 0 is a plan without a quota
    SoftWarnPct,    \* percentage of the quota at which usage is warned about
    LastMonth,      \* bound: the calendar
    MaxPlanChanges  \* bound

MeteringAssumption ==
    /\ IsFiniteSet(Request)
    /\ Plan \subseteq Nat /\ Plan # {}
    /\ SoftWarnPct \in 1..100
    /\ LastMonth \in Nat /\ MaxPlanChanges \in Nat

VARIABLES
    month,       \* the calendar, as the processes' clocks show it
    plan,        \* subscription.planKey
    current,     \* subscription.currentPeriod
    counter,     \* usage_counter.value of the metric, by period
    warnings,    \* usage.threshold_reached entries, by period and plan
    req,         \* the requests
    planChanges,
    plansSeen,   \* history: plans the organization has been on
    slack        \* history: could a check not see the usage admitted before it?

vars == <<month, plan, current, counter, warnings, req,
          planChanges, plansSeen, slack>>

Month == 0..LastMonth
Step == {"new", "check", "handle", "record", "recordApi", "roll", "rolled",
         "refused", "failed", "done"}

Init ==
    /\ month = 0
    /\ plan \in Plan
    /\ current = 0
    /\ counter = [p \in Month |-> 0]
    /\ warnings = [p \in Month |-> [q \in Plan |-> 0]]
    /\ req = [r \in Request |-> [step |-> "new", period |-> 0, lost |-> FALSE]]
    /\ planChanges = 0
    /\ plansSeen = {plan}
    /\ slack = FALSE

Goes(r, step) == req' = [req EXCEPT ![r].step = step]

-----------------------------------------------------------------------------
(* A metered request reaches the guard, or GET /usage or the worker asks    *)
(* for the subscription: now is read before the transaction's first query.  *)
Arrive(r) ==
    /\ req[r].step = "new"
    /\ \E step \in {"check", "roll"} :
         req' = [req EXCEPT ![r].step = step, ![r].period = month]
    /\ UNCHANGED <<month, plan, current, counter, warnings,
                   planChanges, plansSeen, slack>>

EnsureSubscription(r) == current' = req[r].period

RollForward(r) ==
    /\ req[r].step = "roll"
    /\ EnsureSubscription(r)
    /\ Goes(r, "rolled")
    /\ UNCHANGED <<month, plan, counter, warnings, planChanges, plansSeen, slack>>

(* checkQuota: the counter of the period just written, below the quota?     *)
Allowed_OneLate(used, quota) == quota = 0 \/ used <= quota
Allowed(used, quota) == quota = 0 \/ used < quota
InFlight == {r \in Request : req[r].step \in {"handle", "record"}}
CheckQuota(r) ==
    /\ req[r].step = "check"
    /\ EnsureSubscription(r)
    /\ Goes(r, IF Allowed(counter[req[r].period], plan) THEN "handle" ELSE "refused")
    /\ slack' = (slack \/ InFlight # {})
    /\ UNCHANGED <<month, plan, counter, warnings, planChanges, plansSeen>>

(* The handler succeeds and is answered, or fails: a status of 400 and up   *)
(* is not metered.                                                          *)
Respond(r) ==
    /\ req[r].step = "handle"
    /\ \E step \in {"record", "failed"} : Goes(r, step)
    /\ UNCHANGED <<month, plan, current, counter, warnings,
                   planChanges, plansSeen, slack>>

(* crossedSoftWarn: did this write take the counter to the threshold?       *)
Reached(q, value) == q # 0 /\ value * 100 >= q * SoftWarnPct
Crossed(q, value) == Reached(q, value) /\ ~Reached(q, value - 1)

(* recordUsage: one transaction, in the period of the recorder's clock,     *)
(* ordered with the others by the lock of the counter row.                  *)
RecordUsage_Again(r) ==
    /\ req[r].step = "record"
    /\ counter' = [counter EXCEPT ![month] = @ + 1]
    /\ warnings' = IF Crossed(plan, counter'[month])
                   THEN [warnings EXCEPT ![month][plan] = @ + 1] ELSE warnings
    /\ \E step \in {"record", "recordApi"} : Goes(r, step)
    /\ counter[month] < Cardinality(Request)
    /\ slack' = (slack \/ req[r].period # month)
    /\ UNCHANGED <<month, plan, current, planChanges, plansSeen>>
RecordUsage(r) ==
    /\ req[r].step = "record"
    /\ counter' = [counter EXCEPT ![month] = @ + 1]
    /\ warnings' = IF Crossed(plan, counter'[month])
                   THEN [warnings EXCEPT ![month][plan] = @ + 1] ELSE warnings
    /\ Goes(r, "recordApi")
    /\ slack' = (slack \/ req[r].period # month)
    /\ UNCHANGED <<month, plan, current, planChanges, plansSeen>>

(* The recording transaction fails, or the process stops before it: the     *)
(* error is swallowed.                                                      *)
RecordLost(r) ==
    /\ req[r].step = "record"
    /\ req' = [req EXCEPT ![r].step = "recordApi", ![r].lost = TRUE]
    /\ slack' = TRUE
    /\ UNCHANGED <<month, plan, current, counter, warnings, planChanges, plansSeen>>

(* recordApiRequest runs on the plain client, outside withOrgContext: row   *)
(* level security refuses the write to the role the documentation asks for  *)
(* (docs/decisions/ADR-003-multi-tenancy.md:67), and the error is swallowed. *)
(* The interceptor starts it with recordUsage; it touches nothing else, so  *)
(* it follows here.                                                         *)
RecordApiRequest(r) ==
    /\ req[r].step = "recordApi"
    /\ Goes(r, "done")
    /\ UNCHANGED <<month, plan, current, counter, warnings,
                   planChanges, plansSeen, slack>>

SetPlan(q) ==
    /\ q # plan
    /\ planChanges < MaxPlanChanges /\ planChanges' = planChanges + 1
    /\ plan' = q
    /\ plansSeen' = plansSeen \cup {q}
    /\ UNCHANGED <<month, current, counter, warnings, req, slack>>

MonthTurns ==
    /\ month < LastMonth
    /\ month' = month + 1
    /\ UNCHANGED <<plan, current, counter, warnings, req,
                   planChanges, plansSeen, slack>>

Next ==
    \/ \E r \in Request :
         \/ Arrive(r)
         \/ RollForward(r)
         \/ CheckQuota(r)
         \/ Respond(r)
         \/ RecordUsage(r)
         \/ RecordLost(r)
         \/ RecordApiRequest(r)
    \/ \E q \in Plan : SetPlan(q)
    \/ MonthTurns

Spec == Init /\ [][Next]_vars

-----------------------------------------------------------------------------
(* Types of the rows and of the requests' steps.                            *)
TypeOK ==
    /\ month \in Month /\ current \in Month
    /\ plan \in plansSeen /\ plansSeen \subseteq Plan
    /\ counter \in [Month -> 0..Cardinality(Request)]
    /\ warnings \in [Month -> [Plan -> Nat]]
    /\ req \in [Request -> [step : Step, period : Month, lost : BOOLEAN]]
    /\ planChanges \in 0..MaxPlanChanges
    /\ slack \in BOOLEAN

(* However records interleave with checks, plan changes and the turn of the *)
(* month, the counters of all periods add up to the answered requests whose *)
(* record has committed: none is charged twice.                             *)
SumOver(f) ==
    LET upTo[p \in Month] == f[p] + IF p = 0 THEN 0 ELSE upTo[p - 1]
    IN  upTo[LastMonth]
Recorded == {r \in Request : req[r].step \in {"recordApi", "done"} /\ ~req[r].lost}
ChargedOnce == SumOver(counter) = Cardinality(Recorded)

(* Types, and the account of what was charged.                              *)
Consistent == TypeOK /\ ChargedOnce

(* "if the write crosses the plan's soft-warn threshold, one                *)
(* usage.threshold_reached audit entry" (docs/data-model.md:713): concurrent *)
(* records never warn twice for a plan in a period, and while the plan has  *)
(* not changed usage at the threshold has been warned about.                *)
WarnedOnce ==
    \A p \in Month : \A q \in Plan :
       /\ warnings[p][q] <= 1
       /\ warnings[p][q] = 1 => Reached(q, counter[p])
       /\ plansSeen = {q} /\ Reached(q, counter[p]) => warnings[p][q] = 1

(* A request is refused only when usage recorded for its period had reached *)
(* the quota of a plan the organization was on.                             *)
RefusedAtQuota ==
    \A r \in Request :
       req[r].step = "refused" =>
         \E q \in plansSeen : q # 0 /\ counter[req[r].period] >= q

(* "plan quotas with hard enforcement" (ADR-014): no more requests are      *)
(* answered in a month than its plan allows, as long as every check sees    *)
(* what was admitted before it: no other request is between its check and   *)
(* its record, and no record was lost or fell into another month.           *)
Answered(p) ==
    {r \in Request : req[r].period = p /\ req[r].step \in {"record", "recordApi", "done"}}
QuotaIsHard ==
    \A q \in Plan \ {0} :
       plansSeen = {q} /\ ~slack => \A p \in Month : Cardinality(Answered(p)) <= q

(* The quota is kept, from both sides.                                      *)
QuotaIsKept == RefusedAtQuota /\ QuotaIsHard
=============================================================================

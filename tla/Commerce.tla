------------------------------ MODULE Commerce -------------------------------
(***************************************************************************)
(* Metering and Billing in one run.  The two meet only in the subscription *)
(* row: what Billing does to its plan is Metering's ChangePlan.  A         *)
(* behaviour therefore exercises one of them, which `focus' names, and     *)
(* leaves the other where it starts: every state of either is reached, and *)
(* none of the product of the two.                                         *)
(***************************************************************************)
EXTENDS Integers

CONSTANTS Request, Quota, SoftWarnPct, LastMonth, MaxPlanChanges
CONSTANTS Handler, Session, MaxEvents, MaxEdits

VARIABLES focus, month, plan, current, counter, warnings, req, planChanges,
          plansSeen, slack
VARIABLES events, sub, enabled, ledger, checkout, paid, handler, edits,
          applied, overruled

M == INSTANCE Metering WITH Plan <- Quota
B == INSTANCE Billing

ASSUME CommerceAssumption ==
    /\ M!MeteringAssumption
    /\ MaxEvents \in Nat /\ MaxEdits \in Nat

meteringVars == <<month, plan, current, counter, warnings, req, planChanges,
                  plansSeen, slack>>
billingVars == <<events, sub, enabled, ledger, checkout, paid, handler, edits,
                 applied, overruled>>

Init ==
    /\ M!Init /\ B!Init
    /\ focus \in {"metering", "billing"}
    /\ focus = "billing" => plan = 0
Next ==
    /\ \/ focus = "metering" /\ M!Next /\ UNCHANGED billingVars
       \/ focus = "billing" /\ B!Next /\ UNCHANGED meteringVars
    /\ UNCHANGED focus

Spec == Init /\ [][Next]_<<focus, meteringVars, billingVars>>

-----------------------------------------------------------------------------
(* Rows and requests have their types, every answered request is charged at *)
(* most once, a threshold is warned of once, and every provider event is    *)
(* applied at most once, exactly when the ledger has it.                    *)
Consistent == M!Consistent /\ M!WarnedOnce /\ B!Consistent

(* Quotas refuse and admit what they should (Metering), whatever requests   *)
(* and plan changes interleave.                                             *)
QuotaIsKept == M!QuotaIsKept

(* Subscriptions follow the provider, and checkouts are final (Billing).    *)
FollowsInOrder == B!FollowsInOrder
CheckoutIsFinal == B!CheckoutIsFinal
=============================================================================

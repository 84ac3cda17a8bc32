------------------------------- MODULE Billing -------------------------------
(***************************************************************************)
(* The billing provider of one organization (packages/db/src/billing.ts).  *)
(* The provider sends each event at least once, in any order and several   *)
(* at a time; a handler reads the configuration in one transaction and     *)
(* applies the event in another.  The provider and its customers are       *)
(* external.  Plan "free" is BILLING_FALLBACK_PLAN; the price map sends     *)
(* the provider's "growth" price to the growth plan.                       *)
(* X_Fault is the definition X with a plausible bug (see README.md).       *)
(***************************************************************************)
EXTENDS Integers, Sequences, FiniteSets

CONSTANTS
    Handler,      \* requests to POST /billing/webhook at work at once
    Session,      \* checkout sessions
    MaxEvents,    \* bound: events the provider creates
    MaxEdits      \* bound: configuration and plan edits by administrators

VARIABLES
    events,    \* the provider's events, in the order they happened
    sub,       \* subscription row: plan and status
    enabled,   \* billing_config: "on", "off" (disabled) or "none" (deleted)
    ledger,    \* billing_event rows: the positions of their events
    checkout,  \* billing_checkout rows, by session
    paid,      \* history: sessions completed at the provider
    handler,   \* what each handler is doing
    edits,
    applied,   \* history: the events applied, in commit order
    overruled  \* history: has an administrator set the plan?

vars == <<events, sub, enabled, ledger, checkout, paid, handler, edits,
          applied, overruled>>

Plan == {"free", "growth"}
SubStatus == {"active", "past_due", "canceled"}
None == "none"
EventType == {"checkout.completed", "subscription.updated",
              "subscription.canceled", "payment.failed", "unknown"}
Event == [type : EventType, session : Session \cup {None}, mapped : BOOLEAN,
          status : SubStatus]
Waiting == [step |-> "idle", event |-> 0]

Init ==
    /\ events = <<>>
    /\ sub = [plan |-> "free", status |-> "active"]
    /\ enabled = "on"
    /\ ledger = {}
    /\ checkout = [s \in Session |-> "absent"]
    /\ paid = {}
    /\ handler = [h \in Handler |-> Waiting]
    /\ edits = 0
    /\ applied = <<>>
    /\ overruled = FALSE

-----------------------------------------------------------------------------
(* startCheckout inserts the row, calls the provider, stores the session's  *)
(* id and commits: the session exists before the row is visible.            *)
StartCheckout(s) ==
    /\ enabled = "on"
    /\ checkout[s] = "absent"
    /\ checkout' = [checkout EXCEPT ![s] = "uncommitted"]
    /\ UNCHANGED <<events, sub, enabled, ledger, paid, handler, edits, applied, overruled>>

CommitCheckout(s) ==
    /\ checkout[s] = "uncommitted"
    /\ checkout' = [checkout EXCEPT ![s] = "pending"]
    /\ UNCHANGED <<events, sub, enabled, ledger, paid, handler, edits, applied, overruled>>

AbortCheckout(s) ==
    /\ checkout[s] = "uncommitted"
    /\ checkout' = [checkout EXCEPT ![s] = "aborted"]
    /\ UNCHANGED <<events, sub, enabled, ledger, paid, handler, edits, applied, overruled>>

(* expireStaleCheckouts: a pending checkout is an hour old.                 *)
ExpireStaleCheckouts_AnyStatus(s) ==
    /\ checkout[s] \in {"pending", "completed"}
    /\ checkout' = [checkout EXCEPT ![s] = "expired"]
    /\ UNCHANGED <<events, sub, enabled, ledger, paid, handler, edits, applied, overruled>>
ExpireStaleCheckouts(s) ==
    /\ checkout[s] = "pending"
    /\ checkout' = [checkout EXCEPT ![s] = "expired"]
    /\ UNCHANGED <<events, sub, enabled, ledger, paid, handler, edits, applied, overruled>>

(* External: the provider's side.  A customer completes a session; the      *)
(* subscription changes, is canceled, or a payment fails.                   *)
ProviderEvent ==
    /\ Len(events) < MaxEvents
    /\ \/ \E s \in Session \ paid, m \in BOOLEAN :
            /\ checkout[s] # "absent"
            /\ events' = Append(events, [type |-> "checkout.completed", session |-> s,
                                         mapped |-> m, status |-> "active"])
            /\ paid' = paid \cup {s}
       \/ /\ paid # {}
          /\ \E t \in EventType \ {"checkout.completed"}, m \in BOOLEAN, st \in SubStatus :
               /\ t # "subscription.updated" => ~m /\ st = "active"
               /\ events' = Append(events, [type |-> t, session |-> None,
                                            mapped |-> m, status |-> st])
          /\ UNCHANGED paid
    /\ UNCHANGED <<sub, enabled, ledger, checkout, handler, edits, applied, overruled>>

-----------------------------------------------------------------------------
(* billingEventOutcome: what an event means for the subscription.           *)
PlanOutcome_KeepsCanceled(e) ==
    CASE e.type = "checkout.completed" /\ e.mapped -> "growth"
      [] e.type = "subscription.updated" /\ e.mapped -> "growth"
      [] e.type = "subscription.canceled" -> "free"
      [] OTHER -> None
PlanOutcome(e) ==
    CASE e.type = "checkout.completed" /\ e.mapped -> "growth"
      [] e.type = "subscription.updated" /\ e.status = "canceled" -> "free"
      [] e.type = "subscription.updated" /\ e.status # "canceled" /\ e.mapped -> "growth"
      [] e.type = "subscription.canceled" -> "free"
      [] OTHER -> None
StatusOutcome(e) ==
    CASE e.type = "checkout.completed" -> "active"
      [] e.type = "subscription.updated" -> e.status
      [] e.type = "subscription.canceled" -> "canceled"
      [] e.type = "payment.failed" -> "past_due"
      [] OTHER -> None
Patched(old, new) == IF new = None THEN old ELSE new
Outcome(row, e) ==
    [plan |-> Patched(row.plan, PlanOutcome(e)),
     status |-> Patched(row.status, StatusOutcome(e))]

(* The first transaction: the configuration, which must be enabled.         *)
ReadConfig(h, i) ==
    /\ handler[h].step = "idle"
    /\ enabled = "on"
    /\ handler' = [handler EXCEPT ![h] = [step |-> "verified", event |-> i]]
    /\ UNCHANGED <<events, sub, enabled, ledger, checkout, paid, edits, applied, overruled>>

(* The second: has the event been seen?                                     *)
CheckSeen(h) ==
    /\ handler[h].step = "verified"
    /\ handler' = [handler EXCEPT ![h] = IF handler[h].event \in ledger THEN Waiting
                                         ELSE [@ EXCEPT !.step = "unseen"]]
    /\ UNCHANGED <<events, sub, enabled, ledger, checkout, paid, edits, applied, overruled>>

(* The pending checkout of the session, else every pending one.             *)
CompletedBy(e) ==
    IF e.type # "checkout.completed" THEN {}
    ELSE IF checkout[e.session] = "pending" THEN {e.session}
    ELSE {s \in Session : checkout[s] = "pending"}

(* It writes the subscription, the checkouts and the ledger, and commits.   *)
(* The subscription's and the customer's references on billing_config are   *)
(* updated by id, which throws when the row has been deleted.               *)
Apply(h) ==
    LET e == events[handler[h].event]
    IN  /\ handler[h].step = "unseen"
        /\ handler[h].event \notin ledger
        /\ sub' = Outcome(sub, e)
        /\ checkout' = [s \in Session |->
                          IF s \in CompletedBy(e) THEN "completed" ELSE checkout[s]]
        /\ ledger' = ledger \cup {handler[h].event}
        /\ applied' = Append(applied, handler[h].event)
        /\ handler' = [handler EXCEPT ![h] = Waiting]
        /\ UNCHANGED <<events, enabled, paid, edits, overruled>>

(* The unique index refuses a second ledger row, the configuration to patch *)
(* is gone, or the transaction fails for another reason: all rolls back,    *)
(* and the provider will send the event again.                              *)
HandlerFails(h) ==
    /\ handler[h] # Waiting
    /\ handler' = [handler EXCEPT ![h] = Waiting]
    /\ UNCHANGED <<events, sub, enabled, ledger, checkout, paid, edits, applied, overruled>>

-----------------------------------------------------------------------------
(* Administrators: save or delete the configuration, set a plan by hand.    *)
EditConfig ==
    /\ edits < MaxEdits /\ edits' = edits + 1
    /\ enabled' \in {"on", "off", "none"} \ {enabled}
    /\ UNCHANGED <<events, sub, ledger, checkout, paid, handler, applied, overruled>>

SetPlan(p) ==
    /\ edits < MaxEdits /\ edits' = edits + 1
    /\ sub' = [sub EXCEPT !.plan = p]
    /\ overruled' = TRUE
    /\ UNCHANGED <<events, enabled, ledger, checkout, paid, handler, applied>>

Next ==
    \/ \E s \in Session :
         \/ StartCheckout(s)
         \/ CommitCheckout(s)
         \/ AbortCheckout(s)
         \/ ExpireStaleCheckouts(s)
    \/ ProviderEvent
    \/ \E h \in Handler :
         \/ \E i \in DOMAIN events : ReadConfig(h, i)
         \/ CheckSeen(h)
         \/ Apply(h)
         \/ HandlerFails(h)
    \/ EditConfig
    \/ \E p \in Plan : SetPlan(p)

Spec == Init /\ [][Next]_vars

-----------------------------------------------------------------------------
(* Types of the rows and of the handlers' steps.                            *)
TypeOK ==
    /\ events \in Seq(Event)
    /\ sub \in [plan : Plan, status : SubStatus]
    /\ enabled \in {"on", "off", "none"}
    /\ ledger \subseteq DOMAIN events
    /\ checkout \in [Session -> {"absent", "uncommitted", "aborted", "pending",
                                 "completed", "expired"}]
    /\ handler \in [Handler -> [step : {"idle", "verified", "unseen"}, event : 0..MaxEvents]]
    /\ edits \in 0..MaxEdits

(* "globally unique -> idempotent replays" (ADR-019): however often and     *)
(* however many at a time an event arrives, its effects are committed at    *)
(* most once, and exactly when it is in the ledger.                         *)
AppliedOnce ==
    /\ Len(applied) = Cardinality(ledger)
    /\ \A i \in ledger : \E n \in DOMAIN applied : applied[n] = i

(* Types, and the ledger of what was applied.                               *)
Consistent == TypeOK /\ AppliedOnce

(* The plan the provider's own record of the subscription implies.          *)
ProviderSub ==
    LET after[n \in 0..Len(events)] ==
          IF n = 0 THEN [plan |-> "free", status |-> "active"]
          ELSE LET e == events[n]
                   was == after[n - 1]
                   gone == \/ e.type = "subscription.canceled"
                           \/ e.type = "subscription.updated" /\ e.status = "canceled"
               IN  [status |-> IF gone THEN "canceled"
                               ELSE IF e.type = "payment.failed" THEN "past_due"
                               ELSE IF e.type = "checkout.completed" THEN "active"
                               ELSE IF e.type = "unknown" THEN was.status
                               ELSE e.status,
                    plan |-> IF gone THEN "free"
                             ELSE IF e.mapped THEN "growth" ELSE was.plan]
    IN  after[Len(events)]

(* If the events come to be applied in the order in which they happened,    *)
(* the workspace's subscription follows the provider's, replays, concurrent *)
(* duplicates and failing handlers included.  (The code has no other order  *)
(* than that of arrival: an earlier update that arrives after a             *)
(* cancellation restores the paid plan.)                                    *)
InOrder == \A n \in DOMAIN applied : applied[n] = n
Settled == ledger = DOMAIN events /\ ~overruled
FollowsInOrder == InOrder /\ Settled => sub = ProviderSub

(* A completed checkout stays completed, and one that expired or aborted is *)
(* never completed afterwards.                                              *)
CheckoutIsFinal ==
    [][\A s \in Session :
         checkout[s] \in {"completed", "expired", "aborted"}
           => checkout'[s] = checkout[s]]_vars
=============================================================================

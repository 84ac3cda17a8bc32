--------------------------- MODULE WebhookDispatch ---------------------------
(***************************************************************************)
(* Outbound webhooks (packages/db/src/access.ts; the worker runs a pass    *)
(* every 15 s, one at a time).  The dispatcher holds no transaction while  *)
(* it posts: it reads the due batch, then for each delivery reads the      *)
(* endpoint, posts, and writes delivery and endpoint in a short            *)
(* transaction computed from the rows it READ.  Administrators and the     *)
(* retention sweep work on the same rows meanwhile.                        *)
(* X_Fault is the definition X with a plausible bug (see README.md).       *)
(***************************************************************************)
EXTENDS Integers, Sequences, FiniteSets, FiniteSetsExt

CONSTANTS
    Endpoint,     \* webhook endpoints
    Delivery,     \* delivery ids
    Admin,        \* administrators who may be retrying a delivery
    MaxAttempts,  \* WEBHOOK_MAX_ATTEMPTS
    ExtraAttempts,\* attempts a manual retry adds: 3 in the code
    Threshold,    \* WEBHOOK_AUTO_DISABLE_THRESHOLD
    BatchLimit,   \* DISPATCH_BATCH
    MaxRetries,   \* bound: manual retries of the run
    MaxEdits      \* bound: status edits by administrators

ASSUME WebhookAssumption ==
    /\ MaxAttempts \in Nat \ {0} /\ ExtraAttempts \in Nat \ {0}
    /\ Threshold \in Nat /\ Threshold >= 2
    /\ BatchLimit \in Nat \ {0}
    /\ MaxRetries \in Nat /\ MaxEdits \in Nat

VARIABLES
    ep,        \* webhook_endpoint rows
    del,       \* webhook_delivery rows
    pass,      \* the dispatcher's pass: the batch left, and the current step
    admin,     \* the delivery row each administrator's retry has read
    retries, edits,
    received,  \* history: deliveries some receiver has accepted with 2xx
    streak,    \* history: failures recorded in a row since the last recorded
               \* success or manual activation of the endpoint
    overtaken  \* history: deliveries with a retry carried out on a row that
               \* had been attempted again since it was read

vars == <<ep, del, pass, admin, retries, edits, received, streak, overtaken>>

EpStatus == {"active", "paused", "disabled", "deleted"}
DelStatus == {"absent", "pending", "succeeded", "failed", "dead", "deleted"}
EpRow == [status : EpStatus, failures : Nat]
DelRow == [status : DelStatus, to : Endpoint, attempts : Nat, max : Nat,
           due : {"now", "later", "never"}]
Idle == [step |-> "idle", batch |-> {}, rows |-> <<>>]

Init ==
    /\ ep = [e \in Endpoint |-> [status |-> "active", failures |-> 0]]
    /\ del \in {[d \in Delivery |-> [status |-> "absent", to |-> f[d], attempts |-> 0,
                                     max |-> MaxAttempts, due |-> "never"]] :
                  f \in [Delivery -> Endpoint]}
    /\ pass = Idle
    /\ admin = [a \in Admin |-> <<>>]
    /\ retries = 0 /\ edits = 0
    /\ received = {}
    /\ streak = [e \in Endpoint |-> 0]
    /\ overtaken = {}

-----------------------------------------------------------------------------
(* fanOutWebhookDeliveries queues for active endpoints only; a test ping is *)
(* queued for any endpoint that exists.                                     *)
Queue(d) ==
    /\ del[d].status = "absent"
    /\ ep[del[d].to].status # "deleted"
    /\ del' = [del EXCEPT ![d].status = "pending", ![d].due = "now"]
    /\ UNCHANGED <<ep, pass, admin, retries, edits, received, streak, overtaken>>

(* A manual activation clears the failure counter.                          *)
Activated(row) == [row EXCEPT !.status = "active", !.failures = 0]
UpdateWebhookEndpoint(e) ==
    /\ ep[e].status # "deleted"
    /\ edits < MaxEdits /\ edits' = edits + 1
    /\ \/ /\ ep' = [ep EXCEPT ![e] = Activated(@)]
          /\ streak' = [streak EXCEPT ![e] = 0]
       \/ /\ ep' = [ep EXCEPT ![e].status = "paused"]
          /\ UNCHANGED streak
    /\ UNCHANGED <<del, pass, admin, retries, received, overtaken>>

(* ON DELETE CASCADE removes the endpoint's deliveries.                     *)
DeleteWebhookEndpoint(e) ==
    /\ ep[e].status # "deleted"
    /\ edits < MaxEdits /\ edits' = edits + 1
    /\ ep' = [ep EXCEPT ![e].status = "deleted"]
    /\ del' = [d \in Delivery |->
                 IF del[d].to = e THEN [del[d] EXCEPT !.status = "deleted", !.due = "never"]
                 ELSE del[d]]
    /\ UNCHANGED <<pass, admin, retries, received, streak, overtaken>>

ReadForRetry_AnyStatus(a, d) ==
    /\ admin[a] = <<>>
    /\ retries < MaxRetries /\ retries' = retries + 1
    /\ del[d].status \notin {"absent", "deleted"}
    /\ admin' = [admin EXCEPT ![a] = <<[id |-> d, attempts |-> del[d].attempts]>>]
    /\ UNCHANGED <<ep, del, pass, edits, received, streak, overtaken>>
(* retryWebhookDelivery reads the row, checks it, then updates by id.       *)
ReadForRetry(a, d) ==
    /\ admin[a] = <<>>
    /\ retries < MaxRetries /\ retries' = retries + 1
    /\ del[d].status \in {"failed", "dead"}
    /\ admin' = [admin EXCEPT ![a] = <<[id |-> d, attempts |-> del[d].attempts]>>]
    /\ UNCHANGED <<ep, del, pass, edits, received, streak, overtaken>>

(* What the retry has read is out of date: the delivery was attempted since. *)
Outdated(a, d) ==
    admin[a] # <<>> /\ admin[a][1].id = d /\ admin[a][1].attempts < del[d].attempts

Granted(attempts) == attempts + ExtraAttempts
RetryWebhookDelivery(a) ==
    /\ admin[a] # <<>>
    /\ LET d == admin[a][1].id
       IN  del' = IF del[d].status = "deleted" THEN del
                  ELSE [del EXCEPT ![d].status = "pending", ![d].due = "now",
                                   ![d].max = Granted(admin[a][1].attempts)]
    /\ overtaken' = overtaken \cup {d \in Delivery : Outdated(a, d)}
    /\ admin' = [admin EXCEPT ![a] = <<>>]
    /\ UNCHANGED <<ep, pass, retries, edits, received, streak>>

(* The retention sweep deletes deliveries by age, whatever their status.    *)
SweepDelivery(d) ==
    /\ del[d].status \notin {"absent", "deleted"}
    /\ edits < MaxEdits /\ edits' = edits + 1
    /\ del' = [del EXCEPT ![d].status = "deleted", ![d].due = "never"]
    /\ UNCHANGED <<ep, pass, admin, retries, received, streak, overtaken>>

BackoffElapses(d) ==
    /\ del[d].due = "later"
    /\ del' = [del EXCEPT ![d].due = "now"]
    /\ UNCHANGED <<ep, pass, admin, retries, edits, received, streak, overtaken>>

-----------------------------------------------------------------------------
(* The dispatcher.                                                          *)
Due == {d \in Delivery : del[d].status = "pending" /\ del[d].due = "now"}
Smaller(m, n) == IF m <= n THEN m ELSE n

BeginPass ==
    /\ pass.step = "idle"
    /\ \E batch \in kSubset(Smaller(BatchLimit, Cardinality(Due)), Due) :
         pass' = [step |-> "next", batch |-> batch, rows |-> del]
    /\ UNCHANGED <<ep, del, admin, retries, edits, received, streak, overtaken>>

EndPass ==
    /\ pass.step = "next" /\ pass.batch = {}
    /\ pass' = Idle
    /\ UNCHANGED <<ep, del, admin, retries, edits, received, streak, overtaken>>

(* The endpoint is read; a disabled or missing one fails the delivery for   *)
(* good.  An update of a row that is gone throws, which ends the pass.      *)
Refuses(s) == s \in {"disabled", "deleted"}
ReadEndpoint(d) ==
    LET e == del[d].to
    IN  /\ pass.step = "next" /\ d \in pass.batch
        /\ ~Refuses(ep[e].status)
        /\ pass' = [step |-> "post", batch |-> pass.batch \ {d}, rows |-> pass.rows,
                    id |-> d, snap |-> ep[e]]
        /\ UNCHANGED <<ep, del, admin, retries, edits, received, streak, overtaken>>

EndpointRefuses(d) ==
    /\ pass.step = "next" /\ d \in pass.batch
    /\ Refuses(ep[del[d].to].status)
    /\ IF del[d].status = "deleted"
       THEN pass' = Idle /\ UNCHANGED del
       ELSE /\ pass' = [pass EXCEPT !.batch = @ \ {d}]
            /\ del' = [del EXCEPT ![d].status = "failed", ![d].due = "never"]
    /\ UNCHANGED <<ep, admin, retries, edits, received, streak, overtaken>>

(* "retry" is an error or timeout, 408, 425, 429 or 5xx; "fatal" any other  *)
(* status that is not 2xx.                                                  *)
Post ==
    /\ pass.step = "post"
    /\ \E o \in {"ok", "retry", "fatal"} :
         /\ pass' = [pass EXCEPT !.step = o]
         /\ received' = IF o = "ok" THEN received \cup {pass.id} ELSE received
    /\ UNCHANGED <<ep, del, admin, retries, edits, streak, overtaken>>

(* The outcome, from the delivery row as the batch was read.                *)
CanRetry_OneMore(o, attempt, max) == o = "retry" /\ attempt <= max
CanRetry(o, attempt, max) == o = "retry" /\ attempt < max
StatusAfter(o, attempt, max) ==
    IF o = "ok" THEN "succeeded"
    ELSE IF CanRetry(o, attempt, max) THEN "pending"
    ELSE IF attempt >= max THEN "dead" ELSE "failed"
DelAfter_NoDate(d, o) ==
    LET attempt == pass.rows[d].attempts + 1
    IN  [del[d] EXCEPT !.status = StatusAfter(o, attempt, pass.rows[d].max),
                       !.attempts = attempt, !.due = "never"]
DelAfter(d, o) ==
    LET attempt == pass.rows[d].attempts + 1
        next == StatusAfter(o, attempt, pass.rows[d].max)
    IN  [del[d] EXCEPT !.status = next, !.attempts = attempt,
                       !.due = IF next = "pending" THEN "later" ELSE "never"]

(* Endpoint health, from the endpoint row as it was read before the post.   *)
EpAfter_OneLate(e, o) ==
    IF o = "ok" THEN [ep[e] EXCEPT !.failures = 0]
    ELSE [ep[e] EXCEPT !.failures = pass.snap.failures + 1,
                       !.status = IF /\ pass.snap.failures >= Threshold
                                     /\ pass.snap.status = "active"
                                  THEN "disabled" ELSE @]
EpAfter(e, o) ==
    LET failures == pass.snap.failures + 1
    IN  IF o = "ok" THEN [ep[e] EXCEPT !.failures = 0]
        ELSE [ep[e] EXCEPT !.failures = failures,
                           !.status = IF failures >= Threshold /\ pass.snap.status = "active"
                                      THEN "disabled" ELSE @]

Recorded == pass.step \in {"ok", "retry", "fatal"}
Persist ==
    LET d == pass.id
        e == del[d].to
    IN  /\ Recorded
        /\ del[d].status # "deleted"
        /\ del' = [del EXCEPT ![d] = DelAfter(d, pass.step)]
        /\ ep' = [ep EXCEPT ![e] = EpAfter(e, pass.step)]
        /\ streak' = [streak EXCEPT ![e] = IF pass.step = "ok" THEN 0 ELSE @ + 1]
        /\ pass' = [step |-> "next", batch |-> pass.batch, rows |-> pass.rows]
        /\ UNCHANGED <<admin, retries, edits, received, overtaken>>

PersistThrows ==
    /\ Recorded
    /\ del[pass.id].status = "deleted"
    /\ pass' = Idle
    /\ UNCHANGED <<ep, del, admin, retries, edits, received, streak, overtaken>>

(* The worker dies; a post in flight may have been accepted.                *)
Crash ==
    /\ pass.step # "idle"
    /\ pass' = Idle
    /\ \E taken \in IF pass.step = "post" THEN {{}, {pass.id}} ELSE {{}} :
         received' = received \cup taken
    /\ UNCHANGED <<ep, del, admin, retries, edits, streak, overtaken>>

(* What the API offers those who manage webhooks.                           *)
AdministratorNext ==
    \/ \E e \in Endpoint : UpdateWebhookEndpoint(e) \/ DeleteWebhookEndpoint(e)
    \/ \E a \in Admin : RetryWebhookDelivery(a) \/ \E d \in Delivery : ReadForRetry(a, d)
Next ==
    \/ \E d \in Delivery :
         \/ Queue(d)
         \/ SweepDelivery(d)
         \/ BackoffElapses(d)
         \/ ReadEndpoint(d)
         \/ EndpointRefuses(d)
    \/ AdministratorNext
    \/ BeginPass
    \/ EndPass
    \/ Post
    \/ Persist
    \/ PersistThrows
    \/ Crash

Spec == Init /\ [][Next]_vars

(* The interval keeps starting passes and a pass keeps executing (a post    *)
(* ends within its 10 s timeout); backoffs run out; a retry that was begun  *)
(* is carried out.                                                          *)
Dispatch ==
    \/ BeginPass
    \/ EndPass
    \/ \E d \in Delivery : ReadEndpoint(d) \/ EndpointRefuses(d)
    \/ Post
    \/ Persist
    \/ PersistThrows
Fairness ==
    /\ WF_vars(Dispatch)
    /\ \A d \in Delivery : WF_vars(BackoffElapses(d))
    /\ \A a \in Admin : WF_vars(RetryWebhookDelivery(a))

FairSpec == Spec /\ Fairness

-----------------------------------------------------------------------------
(* Types of the rows; a pass works on one delivery at a time.               *)
TypeOK ==
    /\ ep \in [Endpoint -> EpRow]
    /\ del \in [Delivery -> DelRow]
    /\ pass.step \in {"idle", "next", "post", "ok", "retry", "fatal"}
    /\ pass.batch \subseteq Delivery
    /\ pass.step \in {"post", "ok", "retry", "fatal"} => pass.id \in Delivery \ pass.batch
    /\ \A a \in Admin : Len(admin[a]) <= 1
    /\ retries \in 0..MaxRetries /\ edits \in 0..MaxEdits
    /\ received \subseteq Delivery
    /\ streak \in [Endpoint -> Nat]
    /\ overtaken \subseteq Delivery

(* The dispatcher re-schedules a delivery exactly while attempts are left:  *)
(* pending rows have a date, the later ones an attempt to use, and dead     *)
(* rows have used all of theirs.  (A row that is due at once may have none  *)
(* left.)  A retry that is out of date when it is carried out breaks the    *)
(* count: it changes the maximum of a row in hand, in either direction.     *)
PendingIsScheduled ==
    \A d \in Delivery :
       LET r == del[d]
       IN  /\ r.status = "pending" <=> r.due # "never"
           /\ r.due = "later" /\ d \notin overtaken => r.attempts < r.max
           /\ r.status = "dead" /\ d \notin overtaken => r.attempts >= r.max

(* The copies the dispatcher decides from are still true when it uses them: *)
(* a delivery of the batch is still pending and due, with the attempts that *)
(* were read, or it has been deleted; and nothing is posted to an endpoint  *)
(* that is disabled, although its status was read in an earlier transaction. *)
InHand == pass.batch \cup IF pass.step \in {"post", "ok", "retry", "fatal"} THEN {pass.id} ELSE {}
BatchIsCurrent ==
    /\ \A d \in InHand :
         \/ del[d].status = "deleted"
         \/ del[d] = [pass.rows[d] EXCEPT !.max = del[d].max]
    /\ pass.step = "post" => ep[del[pass.id].to].status # "disabled"

(* Types, the schedule of every delivery, and the dispatcher's copies.      *)
Consistent == TypeOK /\ PendingIsScheduled /\ BatchIsCurrent

(* A failing endpoint is cut off in time whatever the administrator edits   *)
(* while a post is in flight: an active endpoint has fewer than Threshold   *)
(* failures in a row on record.                                             *)
FailingEndpointIsDisabled ==
    \A e \in Endpoint : ep[e].status = "active" => streak[e] < Threshold

(* What is recorded as succeeded was accepted by the receiver, and stays    *)
(* recorded so until the row is deleted: no second attempt overwrites it.   *)
(* Only a retry can, whose check is out of date: it has read the delivery   *)
(* as failed before an attempt that another retry has granted.              *)
SuccessIsFinal ==
    [][\A d \in Delivery :
         /\ del'[d].status = "succeeded" => d \in received
         /\ del[d].status = "succeeded"
              => \/ del'[d].status \in {"succeeded", "deleted"}
                 \/ \E a \in Admin : Outdated(a, d) /\ RetryWebhookDelivery(a)]_vars

(* Every queued delivery is settled (succeeded, failed, dead or deleted),   *)
(* unless the worker crashes again and again.  (A crash that loses nothing  *)
(* is the same step as EndPass and does not count.)                         *)
EveryDeliverySettles ==
    \/ []<><<Crash /\ ~EndPass>>_vars
    \/ \A d \in Delivery : del[d].status = "pending" ~> del[d].status # "pending"
=============================================================================

----------------------- MODULE WebhookDispatchProofs -------------------------
(***************************************************************************)
(* Proofs about WebhookDispatch: for any number of endpoints, deliveries   *)
(* and administrators, what the dispatcher decides from is still true when *)
(* it uses it, failing endpoints are cut off, and successes are final.     *)
(***************************************************************************)
EXTENDS WebhookDispatch, TLAPS

PostStep == {"post", "ok", "retry", "fatal"}
NextPass == [step : {"next"}, batch : SUBSET Delivery, rows : [Delivery -> DelRow]]
PostPass == [step : PostStep, batch : SUBSET Delivery, rows : [Delivery -> DelRow],
             id : Delivery, snap : EpRow]
Read == [id : Delivery, attempts : Nat]
Types ==
    /\ ep \in [Endpoint -> EpRow]
    /\ del \in [Delivery -> DelRow]
    /\ pass \in {Idle} \cup NextPass \cup PostPass
    /\ pass.step \in PostStep => pass.id \notin pass.batch
    /\ admin \in [Admin -> {<<>>} \cup {<<r>> : r \in Read}]
    /\ retries \in 0..MaxRetries /\ edits \in 0..MaxEdits
    /\ received \in SUBSET Delivery
    /\ streak \in [Endpoint -> Nat]
    /\ overtaken \in SUBSET Delivery

RowSound(d) ==
    LET r == del[d]
    IN  /\ r.status = "pending" <=> r.due # "never"
        /\ r.due = "later" /\ d \notin overtaken => r.attempts < r.max
        /\ r.status = "dead" /\ d \notin overtaken => r.attempts >= r.max
        /\ r.status = "succeeded" => d \in received

(* The counter of an endpoint is at least its streak, so that it reaches    *)
(* the threshold first.                                                     *)
EndpointSound(e) ==
    /\ streak[e] <= ep[e].failures
    /\ ep[e].status = "active" => streak[e] < Threshold

(* A retry that has read the number of attempts the row still has finds it  *)
(* as it was, or as another retry of the same number has left it.           *)
ReadSound(a) ==
    admin[a] # <<>> =>
      LET d == admin[a][1].id
          n == admin[a][1].attempts
      IN  /\ del[d].status # "absent"
          /\ n <= del[d].attempts
          /\ n = del[d].attempts =>
               \/ del[d].status \in {"failed", "dead", "deleted"}
               \/ /\ del[d].status = "pending"
                  /\ d \notin overtaken => del[d].max = Granted(n)

(* A delivery in hand is as the pass has read it, or gone; only a retry     *)
(* that was overtaken gives it another maximum.                             *)
HandSound(d) ==
    /\ pass.rows[d].status = "pending" /\ pass.rows[d].due = "now"
    /\ \/ del[d].status = "deleted"
       \/ /\ del[d].status = "pending" /\ del[d].due = "now"
          /\ del[d].attempts = pass.rows[d].attempts /\ del[d].to = pass.rows[d].to
          /\ d \notin overtaken => del[d].max = pass.rows[d].max

(* While a post is in flight the endpoint may be edited: its streak is what *)
(* was read at most, and none if it has been activated meanwhile.           *)
PostSound ==
    pass.step \in PostStep =>
      LET e == del[pass.id].to
      IN  /\ pass.snap.status \in {"active", "paused"}
          /\ streak[e] <= pass.snap.failures
          /\ pass.snap.status = "paused" /\ ep[e].status = "active" => streak[e] = 0
          /\ pass.step = "post" => ep[e].status # "disabled"
          /\ pass.step = "ok" => pass.id \in received

DispatchInv ==
    /\ Types
    /\ \A d \in Delivery : RowSound(d)
    /\ \A e \in Endpoint : EndpointSound(e)
    /\ \A a \in Admin : ReadSound(a)
    /\ \A d \in InHand : HandSound(d)
    /\ PostSound

-----------------------------------------------------------------------------
(* Nothing is queued, read or in hand at first.                             *)
LEMMA DispatchInit == Init => DispatchInv
<1> SUFFICES ASSUME Init PROVE DispatchInv
  OBVIOUS
<1>1. PICK f \in [Delivery -> Endpoint] :
        del = [d \in Delivery |-> [status |-> "absent", to |-> f[d], attempts |-> 0,
                                   max |-> MaxAttempts, due |-> "never"]]
  BY DEF Init
<1>2. MaxAttempts \in Nat /\ Threshold \in Nat /\ Threshold >= 2
      /\ MaxRetries \in Nat /\ MaxEdits \in Nat
  BY WebhookAssumption
<1>3. ep \in [Endpoint -> EpRow] /\ del \in [Delivery -> DelRow]
  BY <1>1, <1>2 DEF Init, EpRow, EpStatus, DelRow, DelStatus
<1>4. Types
  BY <1>2, <1>3 DEF Init, Types, Idle, PostStep
<1>5. \A d \in Delivery : RowSound(d)
  BY <1>1 DEF RowSound
<1>6. \A e \in Endpoint : EndpointSound(e)
  BY <1>2 DEF Init, EndpointSound
<1>7. (\A a \in Admin : ReadSound(a)) /\ (\A d \in InHand : HandSound(d)) /\ PostSound
  BY DEF Init, ReadSound, InHand, Idle, PostSound, PostStep
<1> QED BY <1>4, <1>5, <1>6, <1>7 DEF DispatchInv

(* One delivery changes, and not by the dispatcher.                        *)
LEMMA RowKeeps ==
    ASSUME DispatchInv, UNCHANGED <<ep, pass, received, streak>>,
           NEW d \in Delivery, NEW r \in DelRow, r.to = del[d].to,
           del' = [del EXCEPT ![d] = r],
           retries' \in 0..MaxRetries, edits' \in 0..MaxEdits,
           admin' \in [Admin -> {<<>>} \cup {<<x>> : x \in Read}],
           overtaken' \in SUBSET Delivery, overtaken \subseteq overtaken',
           RowSound(d)', \A a \in Admin : ReadSound(a)',
           d \in InHand => HandSound(d)'
    PROVE  DispatchInv'
<1>1. del' \in [Delivery -> DelRow] /\ \A x \in Delivery \ {d} : del'[x] = del[x]
  BY DEF DispatchInv, Types
<1>2. \A x \in Delivery : del'[x].to = del[x].to
  BY <1>1 DEF DispatchInv, Types
<1>3. Types'
  BY <1>1 DEF DispatchInv, Types
<1>4. \A x \in Delivery : RowSound(x)'
  BY <1>1 DEF DispatchInv, RowSound
<1>5. \A e \in Endpoint : EndpointSound(e)'
  BY DEF DispatchInv, EndpointSound
<1>6. InHand' = InHand /\ InHand \subseteq Delivery
  BY DEF InHand, DispatchInv, Types, Idle, NextPass, PostPass, PostStep
<1>7. \A x \in InHand' : HandSound(x)'
  BY <1>1, <1>6 DEF DispatchInv, HandSound
<1>8. PostSound'
  <2>1. pass.step \in PostStep => pass.id \in Delivery
    BY DEF DispatchInv, Types, Idle, NextPass, PostPass, PostStep
  <2> QED BY <1>2, <2>1 DEF DispatchInv, PostSound
<1> QED BY <1>3, <1>4, <1>5, <1>7, <1>8 DEF DispatchInv

(* What a retry writes to the row.                                          *)
LEMMA RetriedRow ==
    ASSUME NEW row \in DelRow, NEW m \in Nat
    PROVE  LET x == [row EXCEPT !.status = "pending", !.due = "now", !.max = m]
           IN  /\ x \in DelRow /\ x.to = row.to /\ x.attempts = row.attempts
               /\ x.status = "pending" /\ x.due = "now" /\ x.max = m
  BY DEF DelRow, DelStatus

(* A delivery is queued, swept, comes due or is retried.                    *)
LEMMA RequestKeeps ==
    ASSUME DispatchInv,
           \/ \E d \in Delivery : Queue(d) \/ SweepDelivery(d) \/ BackoffElapses(d)
           \/ \E a \in Admin : RetryWebhookDelivery(a)
    PROVE  DispatchInv'
<1>0. /\ \A d \in Delivery : del[d] \in DelRow
      /\ retries \in 0..MaxRetries /\ edits \in 0..MaxEdits
      /\ admin \in [Admin -> {<<>>} \cup {<<x>> : x \in Read}]
      /\ overtaken \in SUBSET Delivery /\ InHand \subseteq Delivery
  BY DEF DispatchInv, Types, InHand, Idle, NextPass, PostPass, PostStep
<1>1. ASSUME NEW d \in Delivery, Queue(d) PROVE DispatchInv'
  <2> DEFINE r == [del[d] EXCEPT !.status = "pending", !.due = "now"]
  <2>1. /\ del' = [del EXCEPT ![d] = r] /\ del[d].status = "absent"
        /\ UNCHANGED <<ep, pass, admin, retries, edits, received, streak, overtaken>>
    BY <1>1 DEF Queue
  <2>2. /\ r \in DelRow /\ r.to = del[d].to /\ r.status = "pending" /\ r.due = "now"
    BY <1>0 DEF DelRow, DelStatus
  <2> HIDE DEF r
  <2>3. /\ del'[d] = r /\ \A x \in Delivery \ {d} : del'[x] = del[x]
    BY <2>1 DEF DispatchInv, Types
  <2>4. RowSound(d)'
    BY <2>2, <2>3 DEF RowSound
  <2>5. \A a \in Admin : ReadSound(a)'
    <3> SUFFICES ASSUME NEW a \in Admin, admin[a] # <<>> PROVE ReadSound(a)'
      BY <2>1 DEF ReadSound
    <3>1. admin[a][1].id \in Delivery \ {d}
      BY <1>0, <2>1 DEF DispatchInv, ReadSound, Read
    <3> QED BY <2>1, <2>3, <3>1 DEF DispatchInv, ReadSound
  <2>6. d \notin InHand
    BY <2>1 DEF DispatchInv, HandSound
  <2> QED BY <1>0, <2>1, <2>2, <2>4, <2>5, <2>6, RowKeeps
<1>2. ASSUME NEW d \in Delivery, SweepDelivery(d) PROVE DispatchInv'
  <2> DEFINE r == [del[d] EXCEPT !.status = "deleted", !.due = "never"]
  <2>1. /\ del' = [del EXCEPT ![d] = r] /\ edits' = edits + 1 /\ edits < MaxEdits
        /\ UNCHANGED <<ep, pass, admin, retries, received, streak, overtaken>>
    BY <1>2 DEF SweepDelivery
  <2>2. /\ r \in DelRow /\ r.to = del[d].to /\ r.status = "deleted" /\ r.due = "never"
        /\ r.attempts = del[d].attempts
    BY <1>0 DEF DelRow, DelStatus
  <2> HIDE DEF r
  <2>3. /\ del'[d] = r /\ \A x \in Delivery \ {d} : del'[x] = del[x]
    BY <2>1 DEF DispatchInv, Types
  <2>4. RowSound(d)'
    BY <2>2, <2>3 DEF RowSound
  <2>5. \A a \in Admin : ReadSound(a)'
    <3> SUFFICES ASSUME NEW a \in Admin, admin[a] # <<>> PROVE ReadSound(a)'
      BY <2>1 DEF ReadSound
    <3>1. admin[a][1].id \in Delivery
      BY <1>0 DEF Read
    <3>2. CASE admin[a][1].id = d
      BY <2>1, <2>2, <2>3, <3>2 DEF DispatchInv, ReadSound
    <3>3. CASE admin[a][1].id # d
      BY <2>1, <2>3, <3>1, <3>3 DEF DispatchInv, ReadSound
    <3> QED BY <3>2, <3>3
  <2>6. d \in InHand => HandSound(d)'
    BY <2>1, <2>2, <2>3 DEF DispatchInv, HandSound
  <2>7. edits' \in 0..MaxEdits
    BY <1>0, <2>1, WebhookAssumption
  <2> QED BY <1>0, <2>1, <2>2, <2>4, <2>5, <2>6, <2>7, RowKeeps
<1>3. ASSUME NEW d \in Delivery, BackoffElapses(d) PROVE DispatchInv'
  <2> DEFINE r == [del[d] EXCEPT !.due = "now"]
  <2>1. /\ del' = [del EXCEPT ![d] = r] /\ del[d].due = "later"
        /\ UNCHANGED <<ep, pass, admin, retries, edits, received, streak, overtaken>>
    BY <1>3 DEF BackoffElapses
  <2>2. /\ r \in DelRow /\ r.to = del[d].to /\ r.status = del[d].status /\ r.due = "now"
        /\ r.attempts = del[d].attempts /\ r.max = del[d].max
    BY <1>0 DEF DelRow, DelStatus
  <2> HIDE DEF r
  <2>3. /\ del'[d] = r /\ \A x \in Delivery \ {d} : del'[x] = del[x]
    BY <2>1 DEF DispatchInv, Types
  <2>4. RowSound(d)'
    BY <2>1, <2>2, <2>3 DEF DispatchInv, RowSound
  <2>5. \A a \in Admin : ReadSound(a)'
    <3> SUFFICES ASSUME NEW a \in Admin, admin[a] # <<>> PROVE ReadSound(a)'
      BY <2>1 DEF ReadSound
    <3>1. admin[a][1].id \in Delivery
      BY <1>0 DEF Read
    <3>2. CASE admin[a][1].id = d
      BY <2>1, <2>2, <2>3, <3>2 DEF DispatchInv, ReadSound
    <3>3. CASE admin[a][1].id # d
      BY <2>1, <2>3, <3>1, <3>3 DEF DispatchInv, ReadSound
    <3> QED BY <3>2, <3>3
  <2>6. d \in InHand => HandSound(d)'
    BY <2>1, <2>2, <2>3 DEF DispatchInv, HandSound
  <2> QED BY <1>0, <2>1, <2>2, <2>4, <2>5, <2>6, RowKeeps
<1>4. ASSUME NEW a \in Admin, RetryWebhookDelivery(a) PROVE DispatchInv'
  <2> DEFINE d == admin[a][1].id
             n == admin[a][1].attempts
             r == IF del[d].status = "deleted" THEN del[d]
                  ELSE [del[d] EXCEPT !.status = "pending", !.due = "now", !.max = Granted(n)]
  <2>1. /\ admin[a] # <<>> /\ admin' = [admin EXCEPT ![a] = <<>>]
        /\ overtaken' = overtaken \cup {x \in Delivery : Outdated(a, x)}
        /\ UNCHANGED <<ep, pass, retries, edits, received, streak>>
    BY <1>4 DEF RetryWebhookDelivery
  <2>2. d \in Delivery /\ n \in Nat /\ Granted(n) \in Nat
    BY <1>0, <2>1, WebhookAssumption DEF Read, Granted
  <2>3. del' = [del EXCEPT ![d] = r]
    BY <1>4, <2>2 DEF RetryWebhookDelivery, DispatchInv, Types
  <2>4. /\ r \in DelRow /\ r.to = del[d].to /\ r.attempts = del[d].attempts
        /\ del[d].status = "deleted" => r = del[d]
        /\ del[d].status # "deleted" => r.status = "pending" /\ r.due = "now" /\ r.max = Granted(n)
    <3>1. CASE del[d].status = "deleted"
      BY <1>0, <2>2, <3>1
    <3>2. CASE del[d].status # "deleted"
      <4> DEFINE x == [del[d] EXCEPT !.status = "pending", !.due = "now", !.max = Granted(n)]
      <4>1. /\ x \in DelRow /\ x.to = del[d].to /\ x.attempts = del[d].attempts
            /\ x.status = "pending" /\ x.due = "now" /\ x.max = Granted(n)
        <5> DEFINE row == del[d]
                   m == Granted(n)
        <5>1. row \in DelRow /\ m \in Nat /\ x = [row EXCEPT !.status = "pending", !.due = "now", !.max = m]
          BY <1>0, <2>2
        <5> HIDE DEF row, m, x
        <5>2. x \in DelRow /\ x.to = row.to /\ x.attempts = row.attempts
              /\ x.status = "pending" /\ x.due = "now" /\ x.max = m
          BY <5>1, RetriedRow
        <5> QED BY <5>2 DEF row, m
      <4> QED BY <3>2, <4>1
    <3> QED BY <3>1, <3>2
  <2>5. d \notin overtaken' => n = del[d].attempts /\ d \notin overtaken
    <3>1. n <= del[d].attempts /\ del[d].attempts \in Nat
      BY <1>0, <2>1, <2>2 DEF DispatchInv, ReadSound, DelRow
    <3> QED BY <2>1, <2>2, <3>1 DEF Outdated
  <2>6. ReadSound(a)
    BY DEF DispatchInv
  <2>7. \A x \in Admin : admin[x] # <<>> => admin[x][1].id \in Delivery /\ admin[x][1].attempts \in Nat
    BY <1>0 DEF Read
  <2>8. del[d].attempts \in Nat /\ del[d].status # "absent" /\ n <= del[d].attempts
    BY <1>0, <2>1, <2>2, <2>6 DEF ReadSound, DelRow
  <2> HIDE DEF r
  <2>9. /\ del'[d] = r /\ \A x \in Delivery \ {d} : del'[x] = del[x]
    BY <2>2, <2>3 DEF DispatchInv, Types
  <2> SUFFICES ASSUME NEW e \in Delivery, e = d PROVE DispatchInv'
    BY <2>2
  <2>10. RowSound(e)'
    <3>1. CASE del[d].status = "deleted"
      BY <2>1, <2>4, <2>9, <3>1 DEF DispatchInv, RowSound
    <3>2. CASE del[d].status # "deleted"
      BY <2>4, <2>9, <3>2 DEF RowSound
    <3> QED BY <3>1, <3>2
  <2>11. ASSUME NEW x \in Admin PROVE ReadSound(x)'
    <3> SUFFICES ASSUME x # a, admin[x] # <<>>, admin'[x] = admin[x] PROVE ReadSound(x)'
      BY <1>0, <2>1 DEF ReadSound
    <3>1. ReadSound(x)
      BY DEF DispatchInv
    <3>2. CASE admin[x][1].id # d
      BY <2>1, <2>7, <2>9, <3>1, <3>2 DEF ReadSound
    <3>3. CASE admin[x][1].id = d /\ del[d].status = "deleted"
      BY <2>4, <2>9, <3>1, <3>3 DEF ReadSound
    <3>4. CASE admin[x][1].id = d /\ del[d].status # "deleted"
      <4>1. admin[x][1].attempts <= r.attempts /\ r.status = "pending" /\ r.max = Granted(n)
        BY <2>4, <3>1, <3>4 DEF ReadSound
      <4>2. d \notin overtaken' /\ admin[x][1].attempts = r.attempts
              => r.max = Granted(admin[x][1].attempts)
        BY <2>4, <2>5, <4>1
      <4> QED BY <2>9, <3>4, <4>1, <4>2 DEF ReadSound
    <3> QED BY <3>2, <3>3, <3>4
  <2>12. e \in InHand => HandSound(e)'
    <3> SUFFICES ASSUME e \in InHand, del[d].status # "deleted" PROVE HandSound(e)'
      BY <2>1, <2>4, <2>9 DEF DispatchInv, HandSound
    <3>1. HandSound(e) /\ del[d].status = "pending"
      BY DEF DispatchInv, HandSound
    <3>2. e \notin overtaken' => r.max = pass.rows[e].max
      BY <2>4, <2>5, <2>6, <3>1, <2>1 DEF ReadSound, HandSound
    <3> QED BY <2>1, <2>4, <2>9, <3>1, <3>2 DEF HandSound
  <2>13. admin' \in [Admin -> {<<>>} \cup {<<x>> : x \in Read}]
    BY <1>0, <2>1
  <2>14. overtaken' \in SUBSET Delivery /\ overtaken \subseteq overtaken'
    BY <1>0, <2>1
  <2>15. del' = [del EXCEPT ![e] = r] /\ r.to = del[e].to /\ r \in DelRow
    BY <2>3, <2>4
  <2>16. UNCHANGED <<ep, pass, received, streak, retries, edits>>
    BY <2>1
  <2> HIDE DEF d, n
  <2> QED BY <1>0, <2>10, <2>11, <2>12, <2>13, <2>14, <2>15, <2>16, RowKeeps
<1> QED BY <1>1, <1>2, <1>3, <1>4

(* An administrator edits or deletes an endpoint.                          *)
LEMMA EditKeeps ==
    ASSUME DispatchInv, NEW e \in Endpoint,
           UpdateWebhookEndpoint(e) \/ DeleteWebhookEndpoint(e)
    PROVE  DispatchInv'
<1>0. /\ ep \in [Endpoint -> EpRow] /\ del \in [Delivery -> DelRow]
      /\ streak \in [Endpoint -> Nat] /\ edits \in 0..MaxEdits
      /\ InHand \subseteq Delivery /\ \A x \in Endpoint : EndpointSound(x)
      /\ pass.step \in PostStep => pass.id \in Delivery
      /\ Threshold \in Nat /\ Threshold >= 2 /\ MaxEdits \in Nat
  BY WebhookAssumption
     DEF DispatchInv, Types, InHand, Idle, NextPass, PostPass, PostStep
<1>1. CASE UpdateWebhookEndpoint(e)
  <2>1. /\ edits' = edits + 1 /\ edits < MaxEdits
        /\ UNCHANGED <<del, pass, admin, retries, received, overtaken>>
    BY <1>1 DEF UpdateWebhookEndpoint
  <2>2. PICK row \in EpRow : ep' = [ep EXCEPT ![e] = row]
          /\ \/ row.status = "active" /\ row.failures = 0 /\ streak' = [streak EXCEPT ![e] = 0]
             \/ row.status = "paused" /\ row.failures = ep[e].failures /\ streak' = streak
    <3>1. CASE /\ ep' = [ep EXCEPT ![e] = Activated(@)]
               /\ streak' = [streak EXCEPT ![e] = 0]
      <4>1. /\ Activated(ep[e]) \in EpRow /\ Activated(ep[e]).status = "active"
            /\ Activated(ep[e]).failures = 0 /\ ep' = [ep EXCEPT ![e] = Activated(ep[e])]
        BY <1>0, <3>1 DEF EpRow, EpStatus, Activated
      <4> QED BY <3>1, <4>1
    <3>2. CASE ep' = [ep EXCEPT ![e].status = "paused"] /\ UNCHANGED streak
      <4> DEFINE row == [ep[e] EXCEPT !.status = "paused"]
      <4>1. /\ row \in EpRow /\ row.status = "paused" /\ row.failures = ep[e].failures
            /\ ep' = [ep EXCEPT ![e] = row]
        BY <1>0, <3>2 DEF EpRow, EpStatus
      <4> HIDE DEF row
      <4> QED BY <3>2, <4>1
    <3> QED BY <1>1, <3>1, <3>2 DEF UpdateWebhookEndpoint
  <2>3. /\ ep'[e] = row /\ \A x \in Endpoint \ {e} : ep'[x] = ep[x] /\ streak'[x] = streak[x]
        /\ ep' \in [Endpoint -> EpRow] /\ streak' \in [Endpoint -> Nat]
    BY <1>0, <2>2
  <2>4. Types'
    BY <1>0, <2>1, <2>3 DEF DispatchInv, Types
  <2>5. \A d \in Delivery : RowSound(d)'
    BY <2>1 DEF DispatchInv, RowSound
  <2>6. \A x \in Endpoint : EndpointSound(x)'
    BY <1>0, <2>2, <2>3 DEF EndpointSound
  <2>7. \A a \in Admin : ReadSound(a)'
    BY <2>1 DEF DispatchInv, ReadSound
  <2>8. \A d \in InHand' : HandSound(d)'
    BY <2>1 DEF DispatchInv, HandSound, InHand
  <2>9. PostSound'
    <3> SUFFICES ASSUME pass.step \in PostStep PROVE PostSound'
      BY <2>1 DEF PostSound
    <3>1. del[pass.id].to \in Endpoint
      BY <1>0 DEF DelRow
    <3>2. PostSound /\ pass.snap \in EpRow
      BY DEF DispatchInv, Types, Idle, NextPass, PostPass, PostStep
    <3> QED BY <1>0, <2>1, <2>2, <2>3, <3>1, <3>2 DEF PostSound, EpRow
  <2> QED BY <2>4, <2>5, <2>6, <2>7, <2>8, <2>9 DEF DispatchInv
<1>2. CASE DeleteWebhookEndpoint(e)
  <2>1. /\ edits' = edits + 1 /\ edits < MaxEdits
        /\ ep' = [ep EXCEPT ![e].status = "deleted"]
        /\ UNCHANGED <<pass, admin, retries, received, streak, overtaken>>
    BY <1>2 DEF DeleteWebhookEndpoint
  <2>2. \A d \in Delivery :
          del'[d] = IF del[d].to = e THEN [del[d] EXCEPT !.status = "deleted", !.due = "never"]
                    ELSE del[d]
    BY <1>2 DEF DeleteWebhookEndpoint
  <2>3. \A d \in Delivery :
          /\ del'[d] \in DelRow /\ del'[d].to = del[d].to /\ del'[d].attempts = del[d].attempts
          /\ \/ del'[d] = del[d]
             \/ del'[d].status = "deleted" /\ del'[d].due = "never"
    <3> SUFFICES ASSUME NEW d \in Delivery
                 PROVE  /\ del'[d] \in DelRow /\ del'[d].to = del[d].to
                        /\ del'[d].attempts = del[d].attempts
                        /\ \/ del'[d] = del[d]
                           \/ del'[d].status = "deleted" /\ del'[d].due = "never"
      OBVIOUS
    <3>1. CASE del[d].to = e
      <4> DEFINE r == [del[d] EXCEPT !.status = "deleted", !.due = "never"]
      <4>1. /\ r \in DelRow /\ r.to = del[d].to /\ r.attempts = del[d].attempts
            /\ r.status = "deleted" /\ r.due = "never"
        BY <1>0 DEF DelRow, DelStatus
      <4>2. del'[d] = r
        BY <2>2, <3>1
      <4> HIDE DEF r
      <4> QED BY <4>1, <4>2
    <3>2. CASE del[d].to # e
      BY <1>0, <2>2, <3>2
    <3> QED BY <3>1, <3>2
  <2>4. del' \in [Delivery -> DelRow]
    BY <1>2, <2>3 DEF DeleteWebhookEndpoint
  <2>5. /\ ep' \in [Endpoint -> EpRow] /\ ep'[e].status = "deleted"
        /\ \A x \in Endpoint \ {e} : ep'[x] = ep[x]
        /\ ep'[e].failures = ep[e].failures
    BY <1>0, <2>1 DEF EpRow, EpStatus
  <2>6. Types'
    BY <1>0, <2>1, <2>4, <2>5 DEF DispatchInv, Types
  <2>7. \A d \in Delivery : RowSound(d)'
    BY <2>1, <2>3 DEF DispatchInv, RowSound
  <2>8. \A x \in Endpoint : EndpointSound(x)'
    BY <1>0, <2>1, <2>5 DEF EndpointSound
  <2>9. ASSUME NEW a \in Admin, admin[a] # <<>> PROVE ReadSound(a)'
    <3>1. admin[a][1].id \in Delivery /\ ReadSound(a)
      BY <2>9 DEF DispatchInv, Types, Read
    <3> QED BY <2>1, <2>3, <2>9, <3>1 DEF ReadSound
  <2>10. \A a \in Admin : ReadSound(a)'
    BY <2>1, <2>9 DEF ReadSound
  <2>11. \A d \in InHand' : HandSound(d)'
    <3>1. InHand' = InHand
      BY <2>1 DEF InHand
    <3> QED BY <1>0, <2>1, <2>3, <3>1 DEF DispatchInv, HandSound
  <2>12. PostSound'
    <3> SUFFICES ASSUME pass.step \in PostStep PROVE PostSound'
      BY <2>1 DEF PostSound
    <3>1. del'[pass.id].to = del[pass.id].to /\ del[pass.id].to \in Endpoint
      BY <1>0, <2>3 DEF DelRow
    <3>2. PostSound
      BY DEF DispatchInv
    <3> QED BY <1>0, <2>1, <2>5, <3>1, <3>2 DEF PostSound
  <2> QED BY <2>6, <2>7, <2>8, <2>10, <2>11, <2>12 DEF DispatchInv
<1> QED BY <1>1, <1>2

(* An administrator reads the row to be retried.                           *)
LEMMA ReadKeeps ==
    ASSUME DispatchInv, NEW a \in Admin, NEW d \in Delivery, ReadForRetry(a, d)
    PROVE  DispatchInv'
<1>1. /\ retries' = retries + 1 /\ retries < MaxRetries
      /\ del[d].status \in {"failed", "dead"}
      /\ admin' = [admin EXCEPT ![a] = <<[id |-> d, attempts |-> del[d].attempts]>>]
      /\ UNCHANGED <<ep, del, pass, edits, received, streak, overtaken>>
  BY DEF ReadForRetry
<1>2. /\ admin \in [Admin -> {<<>>} \cup {<<r>> : r \in Read}]
      /\ del[d].attempts \in Nat /\ MaxRetries \in Nat /\ retries \in 0..MaxRetries
  BY WebhookAssumption DEF DispatchInv, Types, DelRow
<1>3. [id |-> d, attempts |-> del[d].attempts] \in Read
  BY <1>2 DEF Read
<1>4. admin' \in [Admin -> {<<>>} \cup {<<r>> : r \in Read}]
  BY <1>1, <1>2, <1>3
<1>5. Types'
  BY <1>1, <1>2, <1>4 DEF DispatchInv, Types
<1>6. ASSUME NEW x \in Admin PROVE ReadSound(x)'
  <2>1. CASE x = a
    <3>1. admin'[x][1].id = d /\ admin'[x][1].attempts = del[d].attempts
      BY <1>1, <1>2, <2>1
    <3> QED BY <1>1, <1>2, <3>1 DEF ReadSound
  <2>2. CASE x # a
    BY <1>1, <1>2, <2>2 DEF DispatchInv, ReadSound
  <2> QED BY <2>1, <2>2
<1>7. (\A x \in Delivery : RowSound(x)') /\ (\A e \in Endpoint : EndpointSound(e)') /\ PostSound'
  BY <1>1 DEF DispatchInv, RowSound, EndpointSound, PostSound
<1>8. \A x \in InHand' : HandSound(x)'
  BY <1>1 DEF DispatchInv, HandSound, InHand
<1> QED BY <1>5, <1>6, <1>7, <1>8 DEF DispatchInv

(* The dispatcher takes a step that leaves the rows as they are.           *)
LEMMA PassKeeps ==
    ASSUME DispatchInv, UNCHANGED <<ep, del, admin, retries, edits, streak, overtaken>>,
           received \subseteq received', received' \in SUBSET Delivery,
           pass' \in {Idle} \cup NextPass \cup PostPass,
           pass'.step \in PostStep => pass'.id \notin pass'.batch,
           \A d \in InHand' : HandSound(d)', PostSound'
    PROVE  DispatchInv'
<1>1. Types'
  BY DEF DispatchInv, Types
<1>2. \A d \in Delivery : RowSound(d)'
  BY DEF DispatchInv, RowSound
<1>3. (\A e \in Endpoint : EndpointSound(e)') /\ (\A a \in Admin : ReadSound(a)')
  BY DEF DispatchInv, EndpointSound, ReadSound
<1> QED BY <1>1, <1>2, <1>3 DEF DispatchInv

(* The dispatcher begins, goes on, posts, ends or dies: it writes no row.   *)
LEMMA DispatcherKeeps ==
    ASSUME DispatchInv,
           \/ BeginPass \/ EndPass \/ Post \/ PersistThrows \/ Crash
           \/ \E d \in Delivery : ReadEndpoint(d)
    PROVE  DispatchInv'
<1>0. /\ pass \in {Idle} \cup NextPass \cup PostPass
      /\ del \in [Delivery -> DelRow] /\ ep \in [Endpoint -> EpRow]
      /\ received \in SUBSET Delivery
      /\ \A d \in InHand : HandSound(d)
  BY DEF DispatchInv, Types
<1>1. ASSUME pass' = Idle, received \subseteq received', received' \in SUBSET Delivery,
             UNCHANGED <<ep, del, admin, retries, edits, streak, overtaken>>
      PROVE  DispatchInv'
  <2>1. InHand' = {} /\ PostSound' /\ pass'.step \notin PostStep
    BY <1>1 DEF InHand, Idle, PostSound, PostStep
  <2> QED BY <1>1, <2>1, PassKeeps
<1>2. CASE BeginPass
  <2>1. PICK batch \in kSubset(Smaller(BatchLimit, Cardinality(Due)), Due) :
          pass' = [step |-> "next", batch |-> batch, rows |-> del]
    BY <1>2 DEF BeginPass
  <2>2. batch \subseteq Due /\ Due \subseteq Delivery
    BY <2>1 DEF kSubset, Due
  <2>3. UNCHANGED <<ep, del, admin, retries, edits, received, streak, overtaken>>
    BY <1>2 DEF BeginPass
  <2>4. pass' \in NextPass /\ pass'.step \notin PostStep /\ InHand' = batch
    BY <1>0, <2>1, <2>2 DEF NextPass, PostStep, InHand
  <2>5. \A d \in InHand' : HandSound(d)'
    BY <2>1, <2>2, <2>3, <2>4 DEF HandSound, Due
  <2>6. PostSound'
    BY <2>4 DEF PostSound
  <2> QED BY <1>0, <2>3, <2>4, <2>5, <2>6, PassKeeps
<1>3. CASE EndPass \/ PersistThrows
  BY <1>0, <1>1, <1>3 DEF EndPass, PersistThrows
<1>4. CASE Crash
  <2>1. pass' = Idle /\ UNCHANGED <<ep, del, admin, retries, edits, streak, overtaken>>
    BY <1>4 DEF Crash
  <2>2. received \subseteq received' /\ received' \in SUBSET Delivery
    BY <1>0, <1>4 DEF Crash, Idle, NextPass, PostPass, PostStep
  <2> QED BY <1>1, <2>1, <2>2
<1>5. CASE Post
  <2>1. PICK o \in {"ok", "retry", "fatal"} :
          /\ pass' = [pass EXCEPT !.step = o]
          /\ received' = IF o = "ok" THEN received \cup {pass.id} ELSE received
    BY <1>5 DEF Post
  <2>2. pass.step = "post" /\ UNCHANGED <<ep, del, admin, retries, edits, streak, overtaken>>
    BY <1>5 DEF Post
  <2>3. pass \in PostPass /\ pass.id \notin pass.batch
    BY <1>0, <2>2 DEF DispatchInv, Types, Idle, NextPass, PostStep
  <2>4. /\ pass' \in PostPass /\ pass'.step = o
        /\ pass'.id = pass.id /\ pass'.batch = pass.batch /\ pass'.rows = pass.rows
        /\ pass'.snap = pass.snap
    BY <2>1, <2>3 DEF PostPass, PostStep
  <2>5. received \subseteq received' /\ received' \in SUBSET Delivery
        /\ (o = "ok" => pass.id \in received')
    BY <1>0, <2>1, <2>3 DEF PostPass
  <2>6. InHand' = InHand
    BY <2>2, <2>4 DEF InHand
  <2>7. \A d \in InHand' : HandSound(d)'
    BY <1>0, <2>2, <2>4, <2>6 DEF HandSound
  <2>8. PostSound'
    <3>1. PostSound /\ pass.step \in PostStep
      BY <2>2 DEF DispatchInv, PostStep
    <3> QED BY <2>2, <2>4, <2>5, <3>1 DEF PostSound, PostStep
  <2> QED BY <2>2, <2>3, <2>4, <2>5, <2>7, <2>8, PassKeeps
<1>6. ASSUME NEW d \in Delivery, ReadEndpoint(d) PROVE DispatchInv'
  <2> DEFINE e == del[d].to
  <2>1. /\ pass.step = "next" /\ d \in pass.batch /\ ~Refuses(ep[e].status)
        /\ pass' = [step |-> "post", batch |-> pass.batch \ {d}, rows |-> pass.rows,
                    id |-> d, snap |-> ep[e]]
        /\ UNCHANGED <<ep, del, admin, retries, edits, received, streak, overtaken>>
    BY <1>6 DEF ReadEndpoint
  <2>2. pass \in NextPass /\ e \in Endpoint /\ ep[e] \in EpRow
    BY <1>0, <2>1 DEF Idle, PostPass, PostStep, DelRow
  <2>3. pass' \in PostPass /\ pass'.id \notin pass'.batch
    BY <2>1, <2>2 DEF NextPass, PostPass, PostStep
  <2>4. InHand' \subseteq InHand /\ pass'.rows = pass.rows
    BY <2>1 DEF InHand
  <2>5. \A x \in InHand' : HandSound(x)'
    BY <1>0, <2>1, <2>4 DEF HandSound
  <2>6. PostSound'
    <3>1. d \in InHand
      BY <2>1 DEF InHand
    <3>2. EndpointSound(e) /\ streak[e] \in Nat /\ Threshold \in Nat
      BY <2>2, WebhookAssumption DEF DispatchInv, Types
    <3>3. ep[e].status # "deleted"
      BY <2>1 DEF Refuses
    <3>4. ep[e].status \in {"active", "paused"}
      BY <2>1, <2>2 DEF EpRow, EpStatus, Refuses
    <3>5. /\ pass'.step = "post" /\ pass'.id = d /\ pass'.snap = ep[e]
      BY <2>1
    <3>6. streak[e] <= ep[e].failures
      BY <3>2 DEF EndpointSound
    <3>7. /\ del'[pass'.id].to = e /\ ep' = ep /\ streak' = streak
      BY <2>1, <3>5
    <3> HIDE DEF e
    <3> QED BY <3>4, <3>5, <3>6, <3>7 DEF PostSound
  <2> QED BY <1>0, <2>1, <2>3, <2>5, <2>6, PassKeeps
<1> QED BY <1>2, <1>3, <1>4, <1>5, <1>6

(* The dispatcher has settled one delivery in hand, which leaves the rows   *)
(* of the others alone.  It goes on with the rest of the batch.             *)
LEMMA SettleKeeps ==
    ASSUME DispatchInv, UNCHANGED <<admin, retries, edits, received, overtaken>>,
           NEW d \in InHand, NEW r \in DelRow, r.to = del[d].to,
           del' = [del EXCEPT ![d] = r],
           pass' \in NextPass, pass'.rows = pass.rows, pass'.batch = pass.batch \ {d},
           ep' \in [Endpoint -> EpRow], streak' \in [Endpoint -> Nat],
           \A e \in Endpoint : EndpointSound(e)',
           RowSound(d)', del[d].status # "deleted",
           \A a \in Admin : admin[a] # <<>> /\ admin[a][1].id = d => ReadSound(a)'
    PROVE  DispatchInv'
<1>1. InHand \subseteq Delivery /\ d \in Delivery
  BY DEF InHand, DispatchInv, Types, Idle, NextPass, PostPass, PostStep
<1>2. del' \in [Delivery -> DelRow] /\ \A x \in Delivery \ {d} : del'[x] = del[x]
  BY <1>1 DEF DispatchInv, Types
<1>3. pass'.step = "next" /\ InHand' = pass.batch \ {d} /\ InHand' \subseteq InHand
  BY DEF NextPass, InHand
<1>4. Types'
  BY <1>2, <1>3 DEF DispatchInv, Types, PostStep
<1>5. \A x \in Delivery : RowSound(x)'
  BY <1>2 DEF DispatchInv, RowSound
<1>6. ASSUME NEW a \in Admin PROVE ReadSound(a)'
  <2> SUFFICES ASSUME admin[a] # <<>>, admin[a][1].id # d PROVE ReadSound(a)'
    BY DEF ReadSound
  <2>1. admin[a][1].id \in Delivery /\ ReadSound(a)
    BY DEF DispatchInv, Types, Read
  <2> QED BY <1>2, <2>1 DEF ReadSound
<1>7. \A x \in InHand' : HandSound(x)'
  BY <1>1, <1>2, <1>3 DEF DispatchInv, HandSound
<1>8. PostSound'
  BY <1>3 DEF PostSound, PostStep
<1> QED BY <1>4, <1>5, <1>6, <1>7, <1>8 DEF DispatchInv

(* A disabled or missing endpoint fails the delivery, which was pending.    *)
LEMMA RefuseKeeps ==
    ASSUME DispatchInv, NEW d \in Delivery, EndpointRefuses(d)
    PROVE  DispatchInv'
<1>1. /\ pass.step = "next" /\ d \in pass.batch /\ d \in InHand
      /\ UNCHANGED <<ep, admin, retries, edits, received, streak, overtaken>>
  BY DEF EndpointRefuses, InHand
<1>2. pass \in NextPass /\ del \in [Delivery -> DelRow] /\ received \in SUBSET Delivery
  BY <1>1 DEF DispatchInv, Types, Idle, PostPass, PostStep
<1>3. CASE del[d].status = "deleted"
  <2>1. pass' = Idle /\ UNCHANGED del
    BY <1>3 DEF EndpointRefuses
  <2>2. InHand' = {} /\ PostSound' /\ pass'.step \notin PostStep
    BY <2>1 DEF InHand, Idle, PostSound, PostStep
  <2> QED BY <1>1, <1>2, <2>1, <2>2, PassKeeps
<1>4. CASE del[d].status # "deleted"
  <2> DEFINE r == [del[d] EXCEPT !.status = "failed", !.due = "never"]
  <2>1. pass' = [pass EXCEPT !.batch = @ \ {d}] /\ del' = [del EXCEPT ![d] = r]
    BY <1>4 DEF EndpointRefuses
  <2>2. /\ r \in DelRow /\ r.to = del[d].to /\ r.attempts = del[d].attempts
        /\ r.status = "failed" /\ r.due = "never"
    BY <1>2 DEF DelRow, DelStatus
  <2>3. /\ pass' \in NextPass /\ pass'.rows = pass.rows /\ pass'.batch = pass.batch \ {d}
    BY <1>2, <2>1 DEF NextPass
  <2> HIDE DEF r
  <2>4. del'[d] = r
    BY <1>2, <2>1
  <2>5. RowSound(d)'
    BY <2>2, <2>4 DEF RowSound
  <2>6. \A e \in Endpoint : EndpointSound(e)'
    BY <1>1 DEF DispatchInv, EndpointSound
  <2>7. ASSUME NEW a \in Admin, admin[a] # <<>>, admin[a][1].id = d PROVE ReadSound(a)'
    BY <1>1, <2>2, <2>4, <2>7 DEF DispatchInv, ReadSound
  <2>8. ep' \in [Endpoint -> EpRow] /\ streak' \in [Endpoint -> Nat]
    BY <1>1 DEF DispatchInv, Types
  <2> QED BY <1>1, <1>4, <2>1, <2>2, <2>3, <2>5, <2>6, <2>7, <2>8, SettleKeeps
<1> QED BY <1>3, <1>4

(* What Persist writes to the row: one attempt more, and a status that      *)
(* agrees with the attempts left.                                           *)
LEMMA WrittenRow ==
    ASSUME NEW o \in {"ok", "retry", "fatal"}, NEW row \in DelRow, NEW n \in Nat, NEW m \in Nat
    PROVE  LET next == StatusAfter(o, n, m)
               x == [row EXCEPT !.status = next, !.attempts = n,
                                !.due = IF next = "pending" THEN "later" ELSE "never"]
           IN  /\ x \in DelRow /\ x.to = row.to /\ x.attempts = n /\ x.max = row.max
               /\ x.status \in {"succeeded", "pending", "dead", "failed"}
               /\ x.status = "pending" <=> x.due # "never"
               /\ x.due = "later" => n < m
               /\ x.status = "dead" => n >= m
               /\ x.status = "succeeded" => o = "ok"
  BY DEF StatusAfter, CanRetry, DelRow, DelStatus

(* What Persist writes to the endpoint: an endpoint left active has fewer   *)
(* failures in a row than the threshold.                                    *)
LEMMA WrittenEndpoint ==
    ASSUME DispatchInv, Persist, NEW e \in Endpoint, e = del[pass.id].to
    PROVE  /\ ep' \in [Endpoint -> EpRow] /\ streak' \in [Endpoint -> Nat]
           /\ \A x \in Endpoint : EndpointSound(x)'
<1>1. /\ Recorded
      /\ ep' = [ep EXCEPT ![e] = EpAfter(e, pass.step)]
      /\ streak' = [streak EXCEPT ![e] = IF pass.step = "ok" THEN 0 ELSE @ + 1]
  BY DEF Persist
<1>2. /\ pass.step \in PostStep /\ pass \in PostPass /\ PostSound
      /\ ep \in [Endpoint -> EpRow] /\ streak \in [Endpoint -> Nat]
      /\ \A x \in Endpoint : EndpointSound(x)
      /\ Threshold \in Nat /\ Threshold >= 2
  BY <1>1, WebhookAssumption
     DEF Recorded, DispatchInv, Types, Idle, NextPass, PostStep
<1>3. /\ pass.snap \in EpRow /\ pass.snap.failures \in Nat /\ ep[e] \in EpRow
      /\ streak[e] \in Nat /\ ep[e].status \in EpStatus
  BY <1>2 DEF PostPass, EpRow
<1>4. /\ pass.snap.status \in {"active", "paused"} /\ streak[e] <= pass.snap.failures
      /\ pass.snap.status = "paused" /\ ep[e].status = "active" => streak[e] = 0
  BY <1>2 DEF PostSound
<1>5. PICK row \in EpRow :
        /\ ep' = [ep EXCEPT ![e] = row]
        /\ pass.step = "ok" => row.failures = 0 /\ row.status = ep[e].status
        /\ pass.step # "ok" =>
             /\ row.failures = pass.snap.failures + 1
             /\ row.status = IF pass.snap.failures + 1 >= Threshold /\ pass.snap.status = "active"
                             THEN "disabled" ELSE ep[e].status
  <2> DEFINE row == EpAfter(e, pass.step)
  <2>1. CASE pass.step = "ok"
    <3>1. row = [ep[e] EXCEPT !.failures = 0]
      BY <2>1 DEF EpAfter
    <3>2. row \in EpRow /\ row.failures = 0 /\ row.status = ep[e].status
      BY <1>3, <3>1 DEF EpRow
    <3> QED BY <1>1, <2>1, <3>2
  <2>2. CASE pass.step # "ok"
    <3> DEFINE s == IF pass.snap.failures + 1 >= Threshold /\ pass.snap.status = "active"
                    THEN "disabled" ELSE ep[e].status
    <3>1. row = [ep[e] EXCEPT !.failures = pass.snap.failures + 1, !.status = s]
      BY <1>3, <2>2 DEF EpAfter, EpRow
    <3>2. s \in EpStatus /\ pass.snap.failures + 1 \in Nat
      BY <1>3 DEF EpStatus
    <3> HIDE DEF s, row
    <3>3. row \in EpRow /\ row.failures = pass.snap.failures + 1 /\ row.status = s
      BY <1>3, <3>1, <3>2 DEF EpRow
    <3> QED BY <1>1, <2>2, <3>3 DEF s, row
  <2> QED BY <2>1, <2>2
<1>6. /\ ep' \in [Endpoint -> EpRow] /\ ep'[e] = row
      /\ streak' \in [Endpoint -> Nat]
      /\ streak'[e] = IF pass.step = "ok" THEN 0 ELSE streak[e] + 1
      /\ \A x \in Endpoint \ {e} : ep'[x] = ep[x] /\ streak'[x] = streak[x]
  BY <1>1, <1>2, <1>3, <1>5
<1>7. EndpointSound(e)'
  <2>1. row.failures \in Nat
    BY DEF EpRow
  <2>2. CASE pass.step = "ok"
    BY <1>2, <1>5, <1>6, <2>2 DEF EndpointSound
  <2>3. CASE pass.step # "ok"
    <3>1. streak'[e] = streak[e] + 1 /\ ep'[e].failures = pass.snap.failures + 1
      BY <1>5, <1>6, <2>3
    <3>2. ep'[e].status = "active" => streak[e] + 1 < Threshold
      BY <1>2, <1>3, <1>4, <1>5, <1>6, <2>3
    <3> QED BY <1>3, <1>4, <3>1, <3>2 DEF EndpointSound
  <2> QED BY <2>2, <2>3
<1>8. \A x \in Endpoint : EndpointSound(x)'
  BY <1>2, <1>6, <1>7 DEF EndpointSound
<1> QED BY <1>6, <1>8

(* The outcome is recorded.                                                 *)
LEMMA PersistKeeps ==
    ASSUME DispatchInv, Persist
    PROVE  DispatchInv'
<1>0. PICK d \in Delivery : d = pass.id
  BY DEF Persist, Recorded, DispatchInv, Types, Idle, NextPass, PostPass, PostStep
<1>1. /\ Recorded /\ del[d].status # "deleted"
      /\ del' = [del EXCEPT ![d] = DelAfter(d, pass.step)]
      /\ pass' = [step |-> "next", batch |-> pass.batch, rows |-> pass.rows]
      /\ UNCHANGED <<admin, retries, edits, received, overtaken>>
  BY <1>0 DEF Persist
<1>2. /\ pass.step \in {"ok", "retry", "fatal"} /\ pass.step \in PostStep
      /\ pass \in PostPass /\ del \in [Delivery -> DelRow] /\ pass.rows \in [Delivery -> DelRow]
      /\ d \in InHand /\ d \notin pass.batch
  BY <1>0, <1>1 DEF Recorded, DispatchInv, Types, Idle, NextPass, PostPass, PostStep, InHand
<1>3. /\ HandSound(d) /\ PostSound
  BY <1>2 DEF DispatchInv
<1>4. /\ pass.rows[d] \in DelRow /\ pass.rows[d].max \in Nat /\ pass.rows[d].attempts \in Nat
      /\ del[d] \in DelRow /\ del[d].to \in Endpoint
      /\ del[d].attempts = pass.rows[d].attempts
      /\ d \notin overtaken => del[d].max = pass.rows[d].max
  BY <1>1, <1>2, <1>3 DEF DelRow, HandSound
<1>5. PICK r \in DelRow :
        /\ r = DelAfter(d, pass.step) /\ r.to = del[d].to /\ r.max = del[d].max
        /\ r.attempts = pass.rows[d].attempts + 1
        /\ r.status \in {"succeeded", "pending", "dead", "failed"}
        /\ r.status = "pending" <=> r.due # "never"
        /\ r.due = "later" => r.attempts < pass.rows[d].max
        /\ r.status = "dead" => r.attempts >= pass.rows[d].max
        /\ r.status = "succeeded" => pass.step = "ok"
  <2> DEFINE o == pass.step
             row == del[d]
             n == pass.rows[d].attempts + 1
             m == pass.rows[d].max
             next == StatusAfter(o, n, m)
             x == [row EXCEPT !.status = next, !.attempts = n,
                              !.due = IF next = "pending" THEN "later" ELSE "never"]
  <2>1. o \in {"ok", "retry", "fatal"} /\ row \in DelRow /\ n \in Nat /\ m \in Nat
    BY <1>2, <1>4
  <2>2. DelAfter(d, o) = x
    BY DEF DelAfter
  <2>3. row.to = del[d].to /\ row.max = del[d].max
    OBVIOUS
  <2>4. /\ x \in DelRow /\ x.to = row.to /\ x.attempts = n /\ x.max = row.max
        /\ x.status \in {"succeeded", "pending", "dead", "failed"}
        /\ x.status = "pending" <=> x.due # "never"
        /\ x.due = "later" => n < m
        /\ x.status = "dead" => n >= m
        /\ x.status = "succeeded" => o = "ok"
    <3> HIDE DEF o, row, n, m
    <3> QED BY <2>1, WrittenRow
  <2> HIDE DEF x
  <2> QED BY <2>2, <2>4
<1>6. del' = [del EXCEPT ![d] = r] /\ del'[d] = r
  BY <1>1, <1>2, <1>5
<1>7. RowSound(d)'
  <2>1. r.status = "succeeded" => d \in received'
    BY <1>0, <1>1, <1>2, <1>3, <1>5 DEF PostSound
  <2> QED BY <1>1, <1>4, <1>5, <1>6, <2>1 DEF RowSound
<1>8. ASSUME NEW a \in Admin, admin[a] # <<>>, admin[a][1].id = d PROVE ReadSound(a)'
  <2>1. admin[a][1].attempts <= del[d].attempts /\ admin[a][1].attempts \in Nat
    BY <1>8 DEF DispatchInv, ReadSound, Types, Read
  <2>2. admin[a][1].attempts < r.attempts
    BY <1>4, <1>5, <2>1
  <2> QED BY <1>1, <1>5, <1>6, <1>8, <2>1, <2>2 DEF ReadSound, DelRow
<1>9. /\ pass' \in NextPass /\ pass'.rows = pass.rows /\ pass'.batch = pass.batch \ {d}
  BY <1>1, <1>2 DEF NextPass, PostPass
<1>10. /\ ep' \in [Endpoint -> EpRow] /\ streak' \in [Endpoint -> Nat]
       /\ \A e \in Endpoint : EndpointSound(e)'
  BY <1>0, <1>4, WrittenEndpoint
<1> QED BY <1>1, <1>2, <1>5, <1>6, <1>7, <1>8, <1>9, <1>10, SettleKeeps

-----------------------------------------------------------------------------
(* Every step keeps the invariant.                                          *)
LEMMA DispatchStep == DispatchInv /\ [Next]_vars => DispatchInv'
<1> SUFFICES ASSUME DispatchInv, [Next]_vars PROVE DispatchInv'
  OBVIOUS
<1>1. CASE UNCHANGED vars
  BY <1>1 DEF vars, DispatchInv, Types, RowSound, EndpointSound, ReadSound, HandSound,
              PostSound, InHand
<1>2. CASE Next
  <2>1. ASSUME NEW d \in Delivery, ReadEndpoint(d) PROVE DispatchInv'
    BY <2>1, DispatcherKeeps
  <2>2. ASSUME NEW d \in Delivery, EndpointRefuses(d) PROVE DispatchInv'
    BY <2>2, RefuseKeeps
  <2>3. ASSUME NEW d \in Delivery, NEW a \in Admin, ReadForRetry(a, d) PROVE DispatchInv'
    BY <2>3, ReadKeeps
  <2>4. ASSUME NEW d \in Delivery, Queue(d) \/ SweepDelivery(d) \/ BackoffElapses(d)
        PROVE  DispatchInv'
    BY <2>4, RequestKeeps
  <2>5. ASSUME NEW a \in Admin, RetryWebhookDelivery(a) PROVE DispatchInv'
    BY <2>5, RequestKeeps
  <2>6. ASSUME NEW e \in Endpoint, UpdateWebhookEndpoint(e) \/ DeleteWebhookEndpoint(e)
        PROVE  DispatchInv'
    BY <2>6, EditKeeps
  <2>7. CASE BeginPass \/ EndPass \/ Post \/ PersistThrows \/ Crash
    BY <2>7, DispatcherKeeps
  <2>8. CASE Persist
    BY <2>8, PersistKeeps
  <2> QED BY <1>2, <2>1, <2>2, <2>3, <2>4, <2>5, <2>6, <2>7, <2>8 DEF Next, AdministratorNext
<1> QED BY <1>1, <1>2

(* So it holds always.                                                      *)
LEMMA DispatchAlways == Spec => []DispatchInv
<1> QED BY DispatchInit, DispatchStep, PTL DEF Spec

(* Whatever administrators, the sweep, crashes and the dispatcher's stale   *)
(* reads do, the rows a pass decides from are still true when it uses them, *)
(* and the schedule of every delivery agrees with its attempts.             *)
THEOREM DecidesFromCurrentRows == Spec => []Consistent
<1>1. DispatchInv => Consistent
  <2> SUFFICES ASSUME DispatchInv PROVE Consistent
    OBVIOUS
  <2>1. TypeOK
    <3>1. pass.step \in {"idle", "next", "post", "ok", "retry", "fatal"}
          /\ pass.batch \subseteq Delivery
          /\ (pass.step \in {"post", "ok", "retry", "fatal"} => pass.id \in Delivery \ pass.batch)
      BY DEF DispatchInv, Types, Idle, NextPass, PostPass, PostStep
    <3>2. ASSUME NEW a \in Admin PROVE Len(admin[a]) <= 1
      <4>1. admin[a] = <<>> \/ \E r \in Read : admin[a] = <<r>>
        BY DEF DispatchInv, Types
      <4>2. CASE admin[a] = <<>>
        <5>1. Len(<<>>) = 0
          OBVIOUS
        <5> QED BY <4>2, <5>1
      <4>3. ASSUME NEW r \in Read, admin[a] = <<r>> PROVE Len(admin[a]) <= 1
        <5>1. Len(<<r>>) = 1
          OBVIOUS
        <5> QED BY <4>3, <5>1
      <4> QED BY <4>1, <4>2, <4>3
    <3> QED BY <3>1, <3>2 DEF DispatchInv, Types, TypeOK
  <2>2. PendingIsScheduled
    BY DEF DispatchInv, RowSound, PendingIsScheduled
  <2>3. ASSUME NEW d \in InHand, del[d].status # "deleted"
        PROVE  del[d] = [pass.rows[d] EXCEPT !.max = del[d].max]
    <3>1. d \in Delivery /\ del[d] \in DelRow /\ pass.rows[d] \in DelRow
      BY DEF DispatchInv, Types, InHand, Idle, NextPass, PostPass, PostStep
    <3>2. /\ del[d].status = pass.rows[d].status /\ del[d].due = pass.rows[d].due
          /\ del[d].attempts = pass.rows[d].attempts /\ del[d].to = pass.rows[d].to
      BY <2>3 DEF DispatchInv, HandSound
    <3> DEFINE r == [pass.rows[d] EXCEPT !.max = del[d].max]
    <3>3. /\ r \in DelRow /\ r.status = pass.rows[d].status /\ r.due = pass.rows[d].due
          /\ r.attempts = pass.rows[d].attempts /\ r.to = pass.rows[d].to
          /\ r.max = del[d].max
      BY <3>1 DEF DelRow
    <3> HIDE DEF r
    <3>4. del[d] = r
      BY <3>1, <3>2, <3>3 DEF DelRow
    <3> QED BY <3>4 DEF r
  <2>4. pass.step = "post" => ep[del[pass.id].to].status # "disabled"
    BY DEF DispatchInv, PostSound, PostStep
  <2>5. BatchIsCurrent
    BY <2>3, <2>4 DEF BatchIsCurrent
  <2> QED BY <2>1, <2>2, <2>5 DEF Consistent
<1> QED BY <1>1, DispatchAlways, PTL

(* An endpoint that keeps failing is cut off in time, although its status   *)
(* and counter are read before the post and written after it: its counter   *)
(* never lags behind its failures in a row.                                 *)
THEOREM FailingIsCutOff == Spec => []FailingEndpointIsDisabled
<1>1. DispatchInv => FailingEndpointIsDisabled
  BY DEF DispatchInv, EndpointSound, FailingEndpointIsDisabled
<1> QED BY <1>1, DispatchAlways, PTL

(* A delivery recorded as succeeded was accepted, and only deletion or an   *)
(* outdated retry ends that: no attempt in flight overwrites it.            *)
THEOREM SuccessStays == Spec => SuccessIsFinal
<1> DEFINE Final(d) ==
        /\ del'[d].status = "succeeded" => d \in received
        /\ del[d].status = "succeeded"
             => \/ del'[d].status \in {"succeeded", "deleted"}
                \/ \E a \in Admin : Outdated(a, d) /\ RetryWebhookDelivery(a)
<1>1. ASSUME DispatchInv, [Next]_vars, NEW d \in Delivery PROVE Final(d)
  <2>0. /\ RowSound(d) /\ del \in [Delivery -> DelRow] /\ del[d] \in DelRow
        /\ InHand \subseteq Delivery
    BY <1>1 DEF DispatchInv, Types, InHand, Idle, NextPass, PostPass, PostStep
  <2>1. CASE del'[d] = del[d]
    BY <2>0, <2>1 DEF RowSound
  <2>2. ASSUME NEW x \in Delivery, Queue(x) \/ SweepDelivery(x) \/ BackoffElapses(x)
        PROVE  Final(d)
    <3> SUFFICES ASSUME x = d PROVE Final(d)
      BY <2>0, <2>1, <2>2 DEF Queue, SweepDelivery, BackoffElapses
    <3>1. CASE Queue(x)
      BY <2>0, <3>1 DEF Queue, DelRow
    <3>2. CASE SweepDelivery(x)
      BY <2>0, <3>2 DEF SweepDelivery, DelRow
    <3>3. CASE BackoffElapses(x)
      BY <2>0, <3>3 DEF BackoffElapses, RowSound, DelRow
    <3> QED BY <2>2, <3>1, <3>2, <3>3
  <2>3. ASSUME NEW a \in Admin, RetryWebhookDelivery(a) PROVE Final(d)
    <3>1. admin[a] # <<>> /\ ReadSound(a) /\ admin[a][1].id \in Delivery
          /\ admin[a][1].attempts \in Nat /\ del[d].attempts \in Nat
      BY <1>1, <2>0, <2>3 DEF RetryWebhookDelivery, DispatchInv, Types, Read, DelRow
    <3>2. CASE admin[a][1].id # d \/ del[d].status = "deleted"
      BY <2>0, <2>1, <2>3, <3>1, <3>2 DEF RetryWebhookDelivery
    <3>3. CASE admin[a][1].id = d /\ del[d].status # "deleted"
      <4>1. del'[d].status = "pending"
        BY <2>0, <2>3, <3>3 DEF RetryWebhookDelivery, DelRow
      <4>2. del[d].status = "succeeded" => Outdated(a, d)
        BY <3>1, <3>3 DEF ReadSound, Outdated
      <4> QED BY <2>3, <4>1, <4>2
    <3> QED BY <3>2, <3>3
  <2>4. ASSUME NEW e \in Endpoint, DeleteWebhookEndpoint(e) PROVE Final(d)
    <3>1. CASE del[d].to = e
      BY <2>0, <2>4, <3>1 DEF DeleteWebhookEndpoint, DelRow
    <3>2. CASE del[d].to # e
      BY <2>0, <2>1, <2>4, <3>2 DEF DeleteWebhookEndpoint
    <3> QED BY <3>1, <3>2
  <2>5. ASSUME NEW x \in Delivery, EndpointRefuses(x) PROVE Final(d)
    <3>1. x \in InHand
      BY <2>5 DEF EndpointRefuses, InHand
    <3>2. CASE del[x].status = "deleted" \/ x # d
      BY <2>0, <2>1, <2>5, <3>2 DEF EndpointRefuses
    <3>3. CASE del[x].status # "deleted" /\ x = d
      <4>1. del[d].status = "pending"
        BY <1>1, <3>1, <3>3 DEF DispatchInv, HandSound
      <4>2. del'[d].status = "failed"
        BY <2>0, <2>5, <3>3 DEF EndpointRefuses, DelRow
      <4> QED BY <4>1, <4>2
    <3> QED BY <3>2, <3>3
  <2>6. ASSUME Persist PROVE Final(d)
    <3>1. /\ pass.id \in InHand /\ del[pass.id].status # "deleted"
          /\ del' = [del EXCEPT ![pass.id] = DelAfter(pass.id, pass.step)]
          /\ pass.step \in PostStep
      BY <2>6 DEF Persist, Recorded, InHand, PostStep
    <3>2. CASE pass.id # d
      BY <2>0, <2>1, <3>1, <3>2
    <3>3. CASE pass.id = d
      <4>1. del[d].status = "pending"
        BY <1>1, <3>1, <3>3 DEF DispatchInv, HandSound
      <4>2. del'[d].status = "succeeded" => d \in received
        <5>1. DispatchInv'
          BY <1>1, DispatchStep
        <5>2. RowSound(d)' /\ received' = received
          BY <2>6, <5>1 DEF DispatchInv, Persist
        <5> QED BY <5>2 DEF RowSound
      <4> QED BY <4>1, <4>2
    <3> QED BY <3>2, <3>3
  <2>7. CASE UNCHANGED del
    BY <2>1, <2>7
  <2>8. CASE Next
    <3>1. ASSUME NEW x \in Delivery, ReadEndpoint(x) \/ \E a \in Admin : ReadForRetry(a, x)
          PROVE  Final(d)
      BY <2>7, <3>1 DEF ReadEndpoint, ReadForRetry
    <3>2. ASSUME NEW e \in Endpoint, UpdateWebhookEndpoint(e) PROVE Final(d)
      BY <2>7, <3>2 DEF UpdateWebhookEndpoint
    <3>3. CASE BeginPass \/ EndPass \/ Post \/ PersistThrows \/ Crash
      BY <2>7, <3>3 DEF BeginPass, EndPass, Post, PersistThrows, Crash
    <3> HIDE DEF Final
    <3> QED BY <2>2, <2>3, <2>4, <2>5, <2>6, <2>8, <3>1, <3>2, <3>3 DEF Next, AdministratorNext
  <2> HIDE DEF Final
  <2> QED BY <1>1, <2>7, <2>8 DEF vars
<1>2. DispatchInv /\ [Next]_vars => [\A d \in Delivery : Final(d)]_vars
  BY <1>1
<1> HIDE DEF Final
<1>3. Spec => [][\A d \in Delivery : Final(d)]_vars
  BY <1>2, DispatchAlways, PTL DEF Spec
<1> QED BY <1>3 DEF SuccessIsFinal, Final
=============================================================================

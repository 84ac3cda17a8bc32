------------------------------ MODULE AuditLog ------------------------------
(***************************************************************************)
(* The audit log of one organization (packages/db/src/audit.ts): request   *)
(* transactions append hash-chained entries under the row lock of          *)
(* audit_head, queue webhook deliveries in the same transaction, and       *)
(* commit or roll back as a whole.  Every transaction may also write other *)
(* rows; the webhook_endpoint rows, which the fan-out reads, stand for all *)
(* of them.  Isolation is READ COMMITTED: a statement sees what is         *)
(* committed plus its own transaction's writes, and a row written or       *)
(* selected FOR UPDATE stays locked until its transaction ends.            *)
(* A definition X_Fault is the definition X with a plausible bug: the       *)
(* project checks that X_Fault in place of X breaks a property.             *)
(***************************************************************************)
EXTENDS Integers, Sequences, FiniteSets

CONSTANTS
    Txn,         \* the transactions of the run, each used once
    Endpoint,    \* the webhook endpoints of the organization
    EventTxn,    \* the transactions whose action maps to a webhook event
    Id,          \* the uuids of audit_log rows: a finite set of numbers
    MaxAppends,  \* bound: entries appended by one transaction
    MaxTime,     \* bound: the clock, in milliseconds
    Skew,        \* how far a process's clock may lag the fastest one
    NoTxn        \* a free lock

ASSUME TxnAssumption ==
    /\ NoTxn \notin Txn
    /\ EventTxn \subseteq Txn
    /\ "provision" \notin Txn
ASSUME LockAssumption == "audit_head" \notin Endpoint
ASSUME BoundAssumption ==
    /\ Id \subseteq Nat /\ 0 \in Id
    /\ MaxAppends \in Nat /\ MaxTime \in Nat /\ Skew \in Nat

VARIABLES
    log,         \* committed audit_log rows, in commit order
    head,        \* committed audit_head.hash of the organization
    epStatus,    \* committed webhook_endpoint.status of each endpoint
    deliveries,  \* committed webhook_delivery rows
    holder,      \* lock table: the transaction holding each row lock
    tx,          \* the transactions: status, wanted lock, uncommitted writes
    now          \* the fastest clock of the API and worker processes

vars == <<log, head, epStatus, deliveries, holder, tx, now>>

HEAD == "audit_head"
Lockable == Endpoint \cup {HEAD}
Author == Txn \cup {"provision"}

(* sha256 is taken as collision free: a hash IS the chain it was computed   *)
(* from.  The row id is not part of the hashed payload (AuditEntryInput).   *)
Payload == [by : Author, at : 0..MaxTime]
Hash == Seq(Payload)
Genesis == <<>>
HashOf_StampOnly(prev, p) == Append(prev, [p EXCEPT !.by = "provision"])
HashOf(prev, p) == Append(prev, p)

Row == [id : Id, by : Author, at : 0..MaxTime, prev : Hash, hash : Hash]
PayloadOf(e) == [by |-> e.by, at |-> e.at]
NewRow(id, t, at, prev) ==
    [id |-> id, by |-> t, at |-> at, prev |-> prev,
     hash |-> HashOf(prev, [by |-> t, at |-> at])]

Delivery == [entry : Id, endpoint : Endpoint]

EpStatus == {"active", "paused", "disabled"}
(* What an edit stores over status s: the status it asks for, and nothing   *)
(* when it asks for none (Prisma leaves out an undefined field).            *)
Asked == {"active", "paused", "none"}
Written_AsAsked(s, asked) == asked
Written(s, asked) == IF asked = "none" THEN s ELSE asked
TxnState ==
    [status : {"idle", "open", "committed", "aborted"},
     want : Lockable \cup {NoTxn},
     head : Hash, rows : Seq(Row), queued : SUBSET Delivery,
     set : [Endpoint -> EpStatus]]

(* provisionOrganization writes the first entry, and with it the head row,  *)
(* in the transaction that makes the organization visible.                  *)
FirstRow == NewRow(0, "provision", 0, Genesis)

Init ==
    /\ log = <<FirstRow>>
    /\ head = FirstRow.hash
    /\ epStatus \in [Endpoint -> EpStatus]
    /\ deliveries = {}
    /\ holder = [l \in Lockable |-> NoTxn]
    /\ tx = [t \in Txn |->
               [status |-> "idle", want |-> NoTxn, head |-> Genesis,
                rows |-> <<>>, queued |-> {},
                set |-> epStatus]]
    /\ now = 0

-----------------------------------------------------------------------------
UsedIds == {log[i].id : i \in DOMAIN log}
             \cup UNION {{tx[t].rows[i].id : i \in DOMAIN tx[t].rows} : t \in Txn}
Ready(t) == tx[t].status = "open" /\ tx[t].want = NoTxn

Begin(t) ==
    /\ tx[t].status = "idle"
    /\ tx' = [tx EXCEPT ![t].status = "open"]
    /\ UNCHANGED <<log, head, epStatus, deliveries, holder, now>>

(* The transaction reaches a statement that needs a row lock it lacks.      *)
Request(t, l) ==
    /\ Ready(t)
    /\ holder[l] # t
    /\ l = HEAD => Len(tx[t].rows) < MaxAppends
    /\ tx' = [tx EXCEPT ![t].want = l]
    /\ UNCHANGED <<log, head, epStatus, deliveries, holder, now>>

(* UPDATE of an endpoint row, which asks for a status or for none.          *)
WriteEndpoint(t, e) ==
    /\ tx[t].status = "open"
    /\ tx[t].want = e
    /\ holder[e] = NoTxn
    /\ holder' = [holder EXCEPT ![e] = t]
    /\ \E asked \in Asked :
         tx' = [tx EXCEPT ![t].want = NoTxn,
                          ![t].set = [@ EXCEPT ![e] = Written(epStatus[e], asked)]]
    /\ UNCHANGED <<log, head, epStatus, deliveries, now>>

(* What a SELECT of t sees: committed rows overlaid with t's own writes.    *)
SeenActive(t) ==
    {e \in Endpoint :
       (IF holder[e] = t THEN tx[t].set[e] ELSE epStatus[e]) = "active"}

LockHead_Unlocked(t) == tx[t].want \in {HEAD, NoTxn}
(* SELECT hash ... FOR UPDATE returns the committed head once the lock is   *)
(* granted, or t's own uncommitted head when t appended before.             *)
LockHead(t) ==
    \/ tx[t].want = HEAD /\ holder[HEAD] = NoTxn
    \/ tx[t].want = NoTxn /\ holder[HEAD] = t
SeenHead(t) == IF holder[HEAD] = t THEN tx[t].head ELSE head

FanOut(t, id) ==
    IF t \in EventTxn THEN {[entry |-> id, endpoint |-> e] : e \in SeenActive(t)}
    ELSE {}

(* writeAuditLog: lock and read the head, stamp, insert the entry, upsert   *)
(* the head, queue the deliveries.                                          *)
WriteAuditLog(t) ==
    /\ tx[t].status = "open"
    /\ LockHead(t)
    /\ Len(tx[t].rows) < MaxAppends
    /\ \E id \in Id \ UsedIds, at \in {x \in 0..now : x + Skew >= now} :
         LET row == NewRow(id, t, at, SeenHead(t))
         IN  /\ holder' = [holder EXCEPT ![HEAD] = t]
             /\ tx' = [tx EXCEPT ![t].want = NoTxn,
                                 ![t].head = row.hash,
                                 ![t].rows = Append(@, row),
                                 ![t].queued = @ \cup FanOut(t, id)]
    /\ UNCHANGED <<log, head, epStatus, deliveries, now>>

Released_None(t) == holder
Released(t) == [l \in Lockable |-> IF holder[l] = t THEN NoTxn ELSE holder[l]]

Commit(t) ==
    /\ Ready(t)
    /\ log' = log \o tx[t].rows
    /\ head' = IF holder[HEAD] = t THEN tx[t].head ELSE head
    /\ epStatus' = [e \in Endpoint |->
                    IF holder[e] = t THEN tx[t].set[e] ELSE epStatus[e]]
    /\ deliveries' = deliveries \cup tx[t].queued
    /\ holder' = Released(t)
    /\ tx' = [tx EXCEPT ![t].status = "committed"]
    /\ UNCHANGED now

(* Faulty: the rows go through the pool's client instead of the tx client. *)
Abort_KeepsDeliveries(t) ==
    /\ tx[t].status = "open"
    /\ holder' = Released(t)
    /\ tx' = [tx EXCEPT ![t].status = "aborted", ![t].want = NoTxn,
                        ![t].rows = <<>>, ![t].queued = {}]
    /\ deliveries' = deliveries \cup tx[t].queued
    /\ UNCHANGED <<log, head, epStatus, now>>

(* A thrown error, Prisma's 5 s transaction timeout, a lost connection, or  *)
(* Postgres choosing t as a deadlock victim: nothing t wrote survives.      *)
Abort(t) ==
    /\ tx[t].status = "open"
    /\ holder' = Released(t)
    /\ tx' = [tx EXCEPT ![t].status = "aborted", ![t].want = NoTxn,
                        ![t].rows = <<>>, ![t].queued = {}]
    /\ UNCHANGED <<log, head, epStatus, deliveries, now>>

Tick ==
    /\ now < MaxTime
    /\ now' = now + 1
    /\ UNCHANGED <<log, head, epStatus, deliveries, holder, tx>>

Next ==
    \/ \E t \in Txn :
         \/ Begin(t)
         \/ \E l \in Lockable : Request(t, l)
         \/ \E e \in Endpoint : WriteEndpoint(t, e)
         \/ WriteAuditLog(t)
         \/ Commit(t)
         \/ Abort(t)
    \/ Tick

Spec == Init /\ [][Next]_vars

-----------------------------------------------------------------------------
(* Fairness: an open transaction keeps executing statements and ends, and   *)
(* Postgres aborts a transaction of every cycle of lock waits (its deadlock *)
(* detector runs after deadlock_timeout).                                   *)
WaitsOn(t) == IF tx[t].want \in Lockable THEN holder[tx[t].want] ELSE NoTxn
Deadlocked(t) ==
    \E S \in SUBSET Txn :
       t \in S /\ {WaitsOn(u) : u \in S} = S
BreakDeadlock(t) == Deadlocked(t) /\ Abort(t)

Fairness ==
    \A t \in Txn :
       /\ WF_vars(WriteAuditLog(t) /\ tx[t].want = HEAD)
       /\ \A e \in Endpoint : WF_vars(WriteEndpoint(t, e))
       /\ SF_vars(Commit(t))
       /\ WF_vars(BreakDeadlock(t))

FairSpec == Spec /\ Fairness

-----------------------------------------------------------------------------
(* Types of the committed and uncommitted state of audit.ts.                *)
TypeOK ==
    /\ log \in Seq(Row)
    /\ head \in Hash
    /\ epStatus \in [Endpoint -> EpStatus]
    /\ deliveries \in SUBSET Delivery
    /\ holder \in [Lockable -> Txn \cup {NoTxn}]
    /\ tx \in [Txn -> TxnState]
    /\ now \in 0..MaxTime

(* rows form a chain that starts from hash h, each link computed from the   *)
(* row's own payload.                                                       *)
LinkedFrom(rows, h) ==
    \A i \in DOMAIN rows :
       /\ rows[i].prev = IF i = 1 THEN h ELSE rows[i - 1].hash
       /\ rows[i].hash = HashOf(rows[i].prev, PayloadOf(rows[i]))
EndHash(rows, h) == IF rows = <<>> THEN h ELSE rows[Len(rows)].hash

(* "concurrent appends to the same scope serialize and the hash chain stays *)
(* linear" (audit.ts:22): the committed rows, in commit order, are one      *)
(* chain from genesis, and audit_head holds the hash of its last row.       *)
ChainLinear ==
    /\ LinkedFrom(log, Genesis)
    /\ head = EndHash(log, Genesis)

(* All or nothing: a committed transaction's entries are all in the log,    *)
(* adjacent and in the order it wrote them, and any other transaction has   *)
(* none there; a delivery "is never queued for a change that rolls back"    *)
(* (audit.ts:99), and only for an action that has a webhook event.          *)
Block(t, k) ==
    LET rows == tx[t].rows
    IN  /\ \A i \in DOMAIN log : log[i].by = t <=> i \in (k + 1)..(k + Len(rows))
        /\ \A i \in DOMAIN rows : k + i \in DOMAIN log /\ log[k + i] = rows[i]
AllOrNothing ==
    /\ \A t \in Txn :
         IF tx[t].status = "committed" THEN \E k \in 0..Len(log) : Block(t, k)
         ELSE \A i \in DOMAIN log : log[i].by # t
    /\ \A d \in deliveries :
         \E i \in DOMAIN log : log[i].id = d.entry /\ log[i].by \in EventTxn

(* Every request transaction that opened ends, even when two of them wait   *)
(* for each other's endpoint row and audit_head.                            *)
EveryTxnEnds ==
    \A t \in Txn :
       tx[t].status = "open" ~> tx[t].status \in {"committed", "aborted"}

-----------------------------------------------------------------------------
(* verifyAuditChain and exportAuditLog read the rows ORDER BY created_at,   *)
(* id and walk them with verifyChain.                                       *)
OrderBefore(a, b) == a.at < b.at \/ (a.at = b.at /\ a.id < b.id)
Rank(rows, i) == 1 + Cardinality({j \in DOMAIN rows : OrderBefore(rows[j], rows[i])})
OrderedRows(rows) ==
    [n \in DOMAIN rows |-> rows[CHOOSE i \in DOMAIN rows : Rank(rows, i) = n]]

Broken(rows) ==
    {i \in DOMAIN rows :
       \/ rows[i].prev # IF i = 1 THEN Genesis ELSE rows[i - 1].hash
       \/ rows[i].hash # HashOf(rows[i].prev, PayloadOf(rows[i]))}
VerifyChain(rows) ==
    IF Broken(rows) = {} THEN [intact |-> TRUE, brokenAt |-> -1]
    ELSE [intact |-> FALSE,
          brokenAt |-> (CHOOSE i \in Broken(rows) : \A j \in Broken(rows) : i <= j) - 1]
VerifyAuditChain == VerifyChain(OrderedRows(log))

(* When the stamps of the chain are strictly increasing, verification of    *)
(* an untouched log reports it intact; altering the payload of any one row  *)
(* is reported, at that row.  (Of stamps that tie or go back, verification  *)
(* and the export may report a break in an untouched log.)                  *)
StampsIncrease == \A i \in 1..(Len(log) - 1) : log[i].at < log[i + 1].at
Tampered(i) == [log EXCEPT ![i].by = IF @ = "provision" THEN "tamper" ELSE "provision"]
VerificationIsSound ==
    /\ StampsIncrease => VerifyAuditChain.intact
    /\ \A i \in DOMAIN log :
         LET v == VerifyChain(Tampered(i))
         IN  ~v.intact /\ v.brokenAt = i - 1
=============================================================================

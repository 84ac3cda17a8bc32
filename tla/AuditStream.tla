----------------------------- MODULE AuditStream -----------------------------
(***************************************************************************)
(* Forwarding one organization's audit log to its SIEM streams             *)
(* (packages/db/src/audit-stream.ts, run by the worker every 20 s from     *)
(* apps/worker/src/processors/audit-stream.ts).  A pass of the dispatcher  *)
(* over the organization is ONE database transaction that also performs    *)
(* the HTTP posts: what it writes is private until it commits, and is lost *)
(* when it crashes, errors, or runs past the transaction timeout.          *)
(* An entry of the log is its kind (action and resource), and a stream's   *)
(* filters are the kinds they let through; they may be edited at any time.  *)
(* X_Fault is the definition X with a plausible bug (see README.md).       *)
(***************************************************************************)
EXTENDS Integers, Sequences, FiniteSets, SequencesExt

CONSTANTS
    Stream,          \* stream ids; each is created at most once
    Kind, Own,       \* kinds of entries, and that of entries about streams
    Filter,          \* filters a stream may be given, sets of kinds
    BatchSize,       \* AUDIT_STREAM_BATCH_SIZE
    MaxAttempts,     \* AUDIT_STREAM_MAX_ATTEMPTS
    PauseThreshold,  \* AUDIT_STREAM_AUTO_PAUSE_THRESHOLD
    Outcomes,        \* what a post may end with, see Outcome
    MaxLog,          \* bound: entries in the log
    MaxDeliveries    \* bound: deliveries of one stream yet to be retried

(* "ok" is a 2xx answer, "retry" a refused or timed-out connection, 408,    *)
(* 425, 429 or 5xx, "fatal" any other status.  "slow" is an answer (or the  *)
(* 10 s request timeout) that arrives after Prisma's default 5 s limit for  *)
(* the surrounding interactive transaction.                                 *)
Outcome == {"ok", "retry", "fatal", "slow"}

ASSUME StreamAssumption ==
    /\ Own \in Kind /\ Filter \subseteq SUBSET Kind
    /\ BatchSize \in Nat \ {0}
    /\ MaxAttempts \in Nat \ {0}
    /\ PauseThreshold \in Nat \ {0}
    /\ Outcomes \subseteq Outcome
    /\ MaxLog \in Nat \ {0} /\ MaxDeliveries \in Nat

VARIABLES
    log,       \* audit_log of the organization, in (createdAt, id) order
    row,       \* committed audit_stream rows
    dels,      \* the committed audit_stream_delivery rows of each stream that
               \* may still be retried, by age; what is settled is never read
    pass,      \* the dispatcher transaction in progress
    dead,      \* log positions in the windows of deliveries kept as dead
    born,      \* history: position of each stream's audit_stream.created entry
    always,    \* history: positions that all filters since they were recorded
               \* let through, those of the pass that was running included
    ever,      \* history: positions that one of these filters let through
    received   \* history: log positions each SIEM has been handed

vars == <<log, row, dels, pass, dead, born, always, ever, received>>
filtered == <<always, ever>>

Row == [status : {"absent", "active", "paused", "deleted"},
        cursor : Nat, failures : Nat, filters : SUBSET Kind]
Delivery ==
    [test : BOOLEAN, from : Nat, to : Nat, attempts : Nat,
     status : {"pending", "failed"}, due : {"now", "later", "never"}]

(* pass.snap holds the rows as findMany returned them when the pass began;  *)
(* row, dels and dead hold the pass's own uncommitted writes to the streams of    *)
(* held, whose committed rows it keeps locked; share holds the streams on   *)
(* which an inserted delivery keeps a foreign-key lock.                     *)
Idle == [on |-> FALSE]
PassOn == pass.on
Posting == PassOn /\ pass.post # <<>>

Init ==
    /\ log = <<Own>>
    /\ row = [s \in Stream |->
                [status |-> "absent", cursor |-> 0, failures |-> 0, filters |-> {}]]
    /\ dels = [s \in Stream |-> <<>>]
    /\ pass = Idle
    /\ born = [s \in Stream |-> 0]
    /\ dead = [s \in Stream |-> {}] /\ received = dead /\ always = dead /\ ever = dead

-----------------------------------------------------------------------------
(* Requests.  Each is one transaction that also appends its own audit entry.*)
Exists(s) == row[s].status \in {"active", "paused"}
Held(s) == PassOn /\ s \in pass.held
Shared(s) == PassOn /\ s \in pass.share

(* The filters in use: those of the row, and those a running pass has read. *)
InUse(s) == {row[s].filters} \cup (IF PassOn THEN {pass.snap[s].filters} ELSE {})
Record(kind) ==
    /\ Len(log) < MaxLog
    /\ log' = Append(log, kind)
    /\ always' = [s \in Stream |-> {p \in always[s] \cup {Len(log')} :
                                     \A f \in InUse(s)' : log'[p] \in f}]
    /\ ever' = [s \in Stream |-> ever[s] \cup {p \in 1..Len(log') :
                                               \E f \in InUse(s)' : log'[p] \in f}]

(* Any other audited request of the organization.                          *)
OtherEntry ==
    /\ UNCHANGED <<row, dels, pass, dead, born, received>>
    /\ \E kind \in Kind : Record(kind)

(* The cursor is first set to the head, then moved past the stream's own   *)
(* audit_stream.created entry.                                             *)
CreateAuditStream(s, filters) ==
    /\ row[s].status = "absent"
    /\ row' = [row EXCEPT ![s] = [status |-> "active", cursor |-> Len(log) + 1,
                                  failures |-> 0, filters |-> filters]]
    /\ born' = [born EXCEPT ![s] = Len(log) + 1]
    /\ UNCHANGED <<dels, pass, dead, received>>
    /\ Record(Own)

(* An edit gives a status, filters, both or neither (the rest of the row is *)
(* not modelled).                                                           *)
Reactivated(r) == [r EXCEPT !.status = "active", !.failures = 0]
Paused(r) == [r EXCEPT !.status = "paused"]
UpdateAuditStream(s, filters) ==
    /\ Exists(s) /\ ~Held(s)
    /\ \E r \in {row[s], Reactivated(row[s]), Paused(row[s])} :
         row' = [row EXCEPT ![s] = [r EXCEPT !.filters = filters]]
    /\ UNCHANGED <<dels, pass, dead, born, received>>
    /\ Record(Own)

(* The delete cascades to the stream's deliveries.                         *)
DeleteAuditStream(s) ==
    /\ Exists(s) /\ ~Held(s) /\ ~Shared(s)
    /\ row' = [row EXCEPT ![s].status = "deleted"]
    /\ dels' = [dels EXCEPT ![s] = <<>>]
    /\ dead' = [dead EXCEPT ![s] = {}]
    /\ UNCHANGED <<pass, born, received>>
    /\ Record(Own)

(* The ~Held guard of the next two actions is no lock of the code (they     *)
(* write delivery rows only): within a pass a stream is taken once, so a    *)
(* delivery added or due after that commutes with the commit of the pass.   *)
TestDelivery == [test |-> TRUE, from |-> 0, to |-> 0, attempts |-> 0,
                 status |-> "pending", due |-> "now"]
SendTestAuditStream(s) ==
    /\ Exists(s) /\ ~Held(s)
    /\ Len(dels[s]) < MaxDeliveries
    /\ dels' = [dels EXCEPT ![s] = Append(@, TestDelivery)]
    /\ UNCHANGED <<row, pass, dead, born, received>>
    /\ Record(Own)

(* Time passes until a retry with a backoff beyond the next pass is due.   *)
BackoffElapses(s) ==
    /\ ~Held(s)
    /\ \E i \in DOMAIN dels[s] :
         /\ dels[s][i].due = "later"
         /\ dels' = [dels EXCEPT ![s][i].due = "now"]
    /\ UNCHANGED <<log, row, pass, dead, born, filtered, received>>

-----------------------------------------------------------------------------
(* The dispatcher.  setInterval starts a pass unless one is running; the   *)
(* pass reads the active streams once.  Unless something is due, a stream   *)
(* may need room for a new delivery: the bound delays the pass till then.   *)
DueIndexes(s) == {i \in DOMAIN dels[s] : dels[s][i].due = "now"}
HasRoom(s) ==
    row[s].status = "active" => Len(dels[s]) < MaxDeliveries \/ DueIndexes(s) # {}
BeginPass ==
    /\ ~PassOn
    /\ \A s \in Stream : HasRoom(s)
    /\ pass' = [on |-> TRUE, todo |-> {s \in Stream : row[s].status = "active"},
                snap |-> row, row |-> row, dels |-> dels, dead |-> dead,
                held |-> {}, share |-> {}, post |-> <<>>]
    /\ UNCHANGED <<log, row, dels, dead, born, filtered, received>>

(* audit_log after position c: take batchSize, keep what matches the        *)
(* filters the pass has read.                                               *)
WindowEnd(c) == IF c + BatchSize <= Len(log) THEN c + BatchSize ELSE Len(log)
Matching(s, c) == {p \in (c + 1)..WindowEnd(c) : log[p] \in pass.snap[s].filters}

Post(s, i, d, entries) ==
    <<[stream |-> s, index |-> i, del |-> d, entries |-> entries]>>

(* A due delivery is retried; its window is read again from its from       *)
(* cursor, batchSize rows, whatever its to cursor and its filters were.    *)
Retry(s) ==
    \E i \in DueIndexes(s) :
      LET d == dels[s][i]
      IN  /\ \A j \in DueIndexes(s) : i <= j
          /\ pass' = [pass EXCEPT
                        !.todo = @ \ {s},
                        !.post = Post(s, i, d, IF d.test THEN {} ELSE Matching(s, d.from))]

(* Otherwise the next window after the cursor of the snapshot: nothing new, *)
(* nothing that matches (only the cursor moves), or a new delivery.         *)
CaughtUp(s) ==
    /\ pass.snap[s].cursor = Len(log)
    /\ pass' = [pass EXCEPT !.todo = @ \ {s}]

SkipWindow_Stays(s) ==
    LET c == pass.snap[s].cursor
    IN  /\ c < Len(log) /\ Matching(s, c) = {} /\ Exists(s)
        /\ pass' = [pass EXCEPT !.todo = @ \ {s}]
SkipWindow(s) ==
    LET c == pass.snap[s].cursor
    IN  /\ c < Len(log) /\ Matching(s, c) = {} /\ Exists(s)
        /\ pass' = [pass EXCEPT !.todo = @ \ {s},
                                !.held = @ \cup {s},
                                !.row[s] = [row[s] EXCEPT !.cursor = WindowEnd(c)],
                                !.dels[s] = dels[s], !.dead[s] = dead[s]]

NewDelivery(c) == [test |-> FALSE, from |-> c, to |-> WindowEnd(c), attempts |-> 0,
                   status |-> "pending", due |-> "never"]
OpenWindow(s) ==
    LET c == pass.snap[s].cursor
    IN  /\ c < Len(log) /\ Matching(s, c) # {} /\ Exists(s)
        /\ pass' = [pass EXCEPT !.todo = @ \ {s},
                                !.share = @ \cup {s},
                                !.post = Post(s, 0, NewDelivery(c), Matching(s, c))]

NextWindow(s) ==
    /\ DueIndexes(s) = {}
    /\ CaughtUp(s) \/ SkipWindow(s) \/ OpenWindow(s)

TakeStream(s) ==
    /\ PassOn /\ ~Posting /\ s \in pass.todo
    /\ Retry(s) \/ NextWindow(s)
    /\ UNCHANGED <<log, row, dels, dead, born, filtered, received>>

(* The delivery and the stream row after an answer.  A failed first        *)
(* attempt is due again in 15 s, before the next pass; later ones are not. *)
(* A delivery is settled once it succeeded or is dead.                     *)
DueAfter(attempts) == IF attempts = 1 THEN "now" ELSE "later"
CanRetry(o, attempts) == o = "retry" /\ attempts < MaxAttempts
Failed(d) == [d EXCEPT !.attempts = @ + 1, !.status = "failed", !.due = DueAfter(d.attempts + 1)]
Settles(d, o) == ~CanRetry(o, d.attempts + 1)

RowAfter_MovesOnFailure(s, d, o) ==
    [row[s] EXCEPT !.cursor = IF d.test THEN @ ELSE d.to,
                   !.failures = IF o = "ok" THEN 0 ELSE @ + 1]
RowAfter_NeverPauses(s, d, o) ==
    [row[s] EXCEPT !.cursor = IF o = "ok" /\ ~d.test THEN d.to ELSE @,
                   !.failures = IF o = "ok" THEN 0 ELSE @ + 1]
(* consecutive_failures is recomputed from the snapshot, not from the row. *)
RowAfter(s, d, o) ==
    LET failures == pass.snap[s].failures + 1
        moved == IF ~d.test /\ Settles(d, o) THEN d.to ELSE row[s].cursor
    IN  IF o = "ok" THEN [row[s] EXCEPT !.cursor = moved, !.failures = 0]
        ELSE [row[s] EXCEPT !.cursor = moved, !.failures = failures,
                            !.status = IF failures >= PauseThreshold
                                       THEN "paused" ELSE @]

DelsAfter(s, i, d, o) ==
    IF i = 0 THEN IF Settles(d, o) THEN dels[s] ELSE Append(dels[s], Failed(d))
    ELSE IF Settles(d, o) THEN RemoveAt(dels[s], i) ELSE [dels[s] EXCEPT ![i] = Failed(d)]
Window(d) == (d.from + 1)..d.to
DeadAfter(s, d, o) ==
    dead[s] \cup IF o # "ok" /\ ~d.test /\ Settles(d, o) THEN Window(d) ELSE {}

(* The endpoint answers in time and the pass records the outcome.          *)
Answer(o) ==
    LET p == pass.post[1]
        s == p.stream
    IN  /\ Posting
        /\ o \in Outcomes \ {"slow"}
        /\ Exists(s)
        /\ pass' = [pass EXCEPT
                      !.post = <<>>,
                      !.held = @ \cup {s},
                      !.row[s] = RowAfter(s, p.del, o),
                      !.dels[s] = DelsAfter(s, p.index, p.del, o),
                      !.dead[s] = DeadAfter(s, p.del, o)]
        /\ received' = [received EXCEPT ![s] = @ \cup
                          IF o = "ok" THEN p.entries ELSE {}]
        /\ UNCHANGED <<log, row, dels, dead, born, filtered>>

CommitPass ==
    /\ PassOn /\ ~Posting /\ pass.todo = {}
    /\ row' = [s \in Stream |-> IF s \in pass.held THEN pass.row[s] ELSE row[s]]
    /\ dels' = [s \in Stream |-> IF s \in pass.held THEN pass.dels[s] ELSE dels[s]]
    /\ dead' = [s \in Stream |-> IF s \in pass.held THEN pass.dead[s] ELSE dead[s]]
    /\ pass' = Idle
    /\ UNCHANGED <<log, born, filtered, received>>

RollBack == pass' = Idle /\ UNCHANGED <<log, row, dels, dead, born, filtered>>

(* The post outlives the transaction, which Prisma has rolled back when    *)
(* the outcome is to be written; the endpoint may have taken the batch.    *)
SlowAnswer ==
    /\ Posting
    /\ "slow" \in Outcomes
    /\ \E taken \in {{}, pass.post[1].entries} :
         received' = [received EXCEPT ![pass.post[1].stream] = @ \cup taken]
    /\ RollBack

(* A write to a stream an administrator has deleted meanwhile throws, and  *)
(* so does an insert of a delivery for it.                                 *)
StreamGone ==
    /\ PassOn
    /\ \/ Posting /\ ~Exists(pass.post[1].stream)
       \/ /\ ~Posting
          /\ \E s \in pass.todo :
               /\ ~Exists(s) /\ DueIndexes(s) = {}
               /\ pass.snap[s].cursor < Len(log)
    /\ RollBack
    /\ UNCHANGED received

(* The worker dies; a post in flight may or may not have arrived.          *)
Crash ==
    /\ PassOn
    /\ IF Posting
       THEN \E taken \in {{}, pass.post[1].entries} :
              received' = [received EXCEPT ![pass.post[1].stream] = @ \cup taken]
       ELSE UNCHANGED received
    /\ RollBack

(* What the API offers those who manage streams.                            *)
AdministratorNext ==
    \E s \in Stream :
       \/ \E filters \in Filter : CreateAuditStream(s, filters)
       \/ \E filters \in Filter \cup {row[s].filters} : UpdateAuditStream(s, filters)
       \/ DeleteAuditStream(s)
       \/ SendTestAuditStream(s)
Next ==
    \/ OtherEntry
    \/ AdministratorNext
    \/ \E s \in Stream : BackoffElapses(s) \/ TakeStream(s)
    \/ BeginPass
    \/ \E o \in Outcome : Answer(o)
    \/ CommitPass
    \/ SlowAnswer
    \/ StreamGone
    \/ Crash

Spec == Init /\ [][Next]_vars

(* The worker's interval keeps starting passes, a pass keeps executing,     *)
(* posts end one way or the other (the request timeout), backoffs run out.  *)
PostEnds == (\E o \in Outcome : Answer(o)) \/ SlowAnswer
Dispatch ==
    \/ BeginPass
    \/ \E s \in Stream : TakeStream(s)
    \/ PostEnds
    \/ StreamGone
    \/ CommitPass
Fairness == WF_vars(Dispatch) /\ \A s \in Stream : SF_vars(BackoffElapses(s))

FairSpec == Spec /\ Fairness

-----------------------------------------------------------------------------
(* Types, and the pass's snapshot only ever holds what it may lock.        *)
TypeOK ==
    /\ log \in Seq(Kind)
    /\ row \in [Stream -> Row]
    /\ \A s \in Stream :
         /\ row[s].cursor <= Len(log)
         /\ \A i \in DOMAIN dels[s] : dels[s][i] \in Delivery
    /\ PassOn => pass.held \subseteq Stream /\ pass.todo \cap pass.held = {}
    /\ born \in [Stream -> 0..Len(log)]
    /\ \A s \in Stream : received[s] \cup dead[s] \subseteq 1..Len(log)

(* At least once: behind a stream's cursor, every entry recorded since the *)
(* stream began that its filters never excluded was handed to the SIEM, or *)
(* lies in the window of a delivery kept as dead (the loss ADR-015 accepts *)
(* and records).  One that was excluded for a while may be lost: a retry   *)
(* reads its window with the filters of that moment.                       *)
Handled(s, p) == p \in received[s] \cup dead[s]
NoGap ==
    \A s \in Stream :
       Exists(s) => \A p \in (born[s] + 1)..row[s].cursor : p \in always[s] => Handled(s, p)

(* "A stream only ever forwards entries recorded after it was created"     *)
(* (ADR-015 Consequences), and none that its filters always excluded.      *)
NoBackfill ==
    \A s \in Stream : \A p \in received[s] : p > born[s] /\ p \in ever[s]

(* Neither a gap behind the cursor nor entries from before the stream: what *)
(* was sent is what had to be.                                              *)
NoSilentGap == NoGap /\ NoBackfill

(* A delivery gives up only when its attempts are used up or the endpoint  *)
(* refused for good; one that can still be retried always has a retry date, *)
(* so no window is left behind between the two.                             *)
RetryableIsScheduled ==
    \A s \in Stream : \A i \in DOMAIN dels[s] :
       LET d == dels[s][i]
       IN  d.due # "never" /\ d.attempts < MaxAttempts

(* An active stream never carries a full count of consecutive failures:    *)
(* reaching the threshold pauses it in the same write.                     *)
FailingStreamIsPaused ==
    \A s \in Stream : row[s].status = "active" => row[s].failures < PauseThreshold

(* Types, and what the rows say together.                                  *)
Consistent == TypeOK /\ RetryableIsScheduled /\ FailingStreamIsPaused

(* Every entry a live stream's filters let through is eventually sent, or  *)
(* accounted for by a dead delivery, unless the stream is paused, deleted  *)
(* or given filters that exclude it.                                        *)
(* The endpoint may fail in any way but one, and the worker may crash: only *)
(* crashes or answers that again and again outlive the transaction, which   *)
(* roll the pass back with its attempts, can hold an entry up for ever.  (A *)
(* roll-back that loses nothing, a CommitPass without changes, is no crash.) *)
EntriesEventuallyHandled ==
    \/ []<><<(SlowAnswer \/ Crash) /\ ~CommitPass>>_vars
    \/ \A s \in Stream : \A p \in 1..MaxLog :
         (row[s].status = "active" /\ p > born[s] /\ p <= Len(log) /\ p \in always[s])
           ~> (Handled(s, p) \/ row[s].status # "active" \/ p \notin always[s])

(* "On success the cursor advances" (ADR-015): no dispatcher commit moves  *)
(* a stream's cursor backwards.                                            *)
CursorNeverRegresses ==
    [][\A s \in Stream : Exists(s) => row'[s].cursor >= row[s].cursor]_vars
=============================================================================

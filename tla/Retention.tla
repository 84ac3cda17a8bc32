------------------------------ MODULE Retention ------------------------------
(***************************************************************************)
(* Data retention of one organization (packages/db/src/governance.ts): the *)
(* policies, the legal hold, and retention runs.  A run is one READ        *)
(* COMMITTED transaction of many statements; a row it deletes, and a       *)
(* policy row it stamps, stays locked until it ends.  The rows of the      *)
(* retention targets are created by other parts of the system.             *)
(* X_Fault is the definition X with a plausible bug (see README.md).       *)
(***************************************************************************)
EXTENDS Integers, FiniteSets

CONSTANTS
    Row,        \* operational rows, each created at most once
    Target,     \* RETENTION_TARGETS
    MinAge,     \* the floor of a target, in days
    MaxAge,     \* the ceiling of validateRetentionPolicy
    Run,        \* retention runs, each used once
    MaxDay,     \* bound: the calendar
    MaxEdits    \* bound: policy edits and changes of the legal hold

RetentionAssumption ==
    /\ IsFiniteSet(Row)
    /\ MinAge \in Nat /\ MaxAge \in Nat /\ MinAge <= MaxAge
    /\ MaxDay \in Nat /\ MaxEdits \in Nat

VARIABLES
    today,
    row,      \* the rows: target, day of creation, state
    hold,     \* organization.legalHold
    policy,   \* retention_policy of each target
    run,      \* the run transactions
    ledger,   \* retention_run rows committed by apply and dry runs
    late,     \* history: runs under way when the legal hold was changed
    edits

vars == <<today, row, hold, policy, run, ledger, late, edits>>

Day == 0..MaxDay
Age == MinAge..MaxAge
Mode == {"dry_run", "apply"}
NoPolicy == [status |-> "none", age |-> MinAge]
NotStarted == [step |-> "idle", mode |-> "dry_run", at |-> 0, todo |-> {},
               matched |-> 0, marked |-> {}, counted |-> 0, stamped |-> {},
               rows |-> {}]

Init ==
    /\ today = 0
    /\ row = [r \in Row |-> [state |-> "absent", target |-> "none", born |-> 0]]
    /\ hold = FALSE
    /\ policy = [t \in Target |-> NoPolicy]
    /\ run = [u \in Run |-> NotStarted]
    /\ ledger = {}
    /\ late = {}
    /\ edits = 0

-----------------------------------------------------------------------------
NextDay ==
    /\ today < MaxDay
    /\ today' = today + 1
    /\ UNCHANGED <<row, hold, policy, run, ledger, late, edits>>

(* External: another component records a row of a target.                   *)
CreateRow(r, t) ==
    /\ row[r].state = "absent"
    /\ row' = [row EXCEPT ![r] = [state |-> "present", target |-> t, born |-> today]]
    /\ UNCHANGED <<today, hold, policy, run, ledger, late, edits>>

Edited == edits < MaxEdits /\ edits' = edits + 1

Running(u) == run[u].step \in {"begun", "sweep", "counted", "swept"}

SetLegalHold ==
    /\ Edited
    /\ hold' = ~hold
    /\ late' = late \cup {u \in Run : Running(u)}
    /\ UNCHANGED <<today, row, policy, run, ledger>>

Stamped(t) == \E u \in Run : Running(u) /\ t \in run[u].stamped

ValidateRetentionPolicy(age) == age \in Age
UpsertRetentionPolicy(t) ==
    /\ Edited
    /\ ~Stamped(t)
    /\ \E status \in {"on", "off"}, age \in 0..MaxAge :
         /\ ValidateRetentionPolicy(age)
         /\ policy' = [policy EXCEPT ![t] = [status |-> status, age |-> age]]
    /\ UNCHANGED <<today, row, hold, run, ledger, late>>

DeleteRetentionPolicy(t) ==
    /\ Edited
    /\ policy[t].status # "none" /\ ~Stamped(t)
    /\ policy' = [policy EXCEPT ![t] = NoPolicy]
    /\ UNCHANGED <<today, row, hold, run, ledger, late>>

-----------------------------------------------------------------------------
(* runRetention: now and the legal hold; an apply under a hold is refused.  *)
Refused(mode) == mode = "apply" /\ hold
BeginRun(u, mode) ==
    /\ run[u].step = "idle"
    /\ run' = [run EXCEPT ![u].step = IF Refused(mode) THEN "over" ELSE "begun",
                          ![u].mode = mode, ![u].at = today]
    /\ UNCHANGED <<today, row, hold, policy, ledger, late, edits>>

(* The enabled policies, of one target or of all, with their cutoffs.       *)
Cutoff(u, t) == run[u].at - policy[t].age
ReadPolicies(u) ==
    /\ run[u].step = "begun"
    /\ \E targets \in {Target} \cup {{t} : t \in Target} :
         LET todo == {[target |-> t, cutoff |-> Cutoff(u, t)] :
                        t \in {x \in targets : policy[x].status = "on"}}
         IN  run' = [run EXCEPT ![u].todo = todo,
                                ![u].step = IF todo = {} THEN "over" ELSE "sweep"]
    /\ UNCHANGED <<today, row, hold, policy, ledger, late, edits>>

(* sweepTarget: count, then delete what is older than the cutoff.           *)
Older_Inclusive(r, p) == row[r].target = p.target /\ row[r].born <= p.cutoff
Older(r, p) == row[r].target = p.target /\ row[r].born < p.cutoff
Eligible(p) == {r \in Row : row[r].state = "present" /\ Older(r, p)}

CountRows(u, p) ==
    /\ run[u].step = "sweep"
    /\ p \in run[u].todo
    /\ run' = [run EXCEPT ![u].todo = @ \ {p},
                          ![u].step = "counted",
                          ![u].rows = {p},
                          ![u].matched = Cardinality(Eligible(p))]
    /\ UNCHANGED <<today, row, hold, policy, ledger, late, edits>>

(* deleteMany waits for the rows another run has deleted and not committed; *)
(* its count is of the rows it deleted itself.                              *)
MarkedByOthers(u) == UNION {run[v].marked : v \in {w \in Run : w # u /\ Running(w)}}
DeleteRows_CountsMatched(u) ==
    /\ run[u].step = "counted"
    /\ \E p \in run[u].rows :
         LET gone == IF run[u].mode = "apply" THEN Eligible(p) ELSE {}
         IN  /\ gone \cap MarkedByOthers(u) = {}
             /\ run' = [run EXCEPT ![u].step = "swept",
                                   ![u].marked = @ \cup gone,
                                   ![u].counted = IF run[u].mode = "apply"
                                                  THEN run[u].matched ELSE 0]
    /\ UNCHANGED <<today, row, hold, policy, ledger, late, edits>>
DeleteRows(u) ==
    /\ run[u].step = "counted"
    /\ \E p \in run[u].rows :
         LET gone == IF run[u].mode = "apply" THEN Eligible(p) ELSE {}
         IN  /\ gone \cap MarkedByOthers(u) = {}
             /\ run' = [run EXCEPT ![u].step = "swept",
                                   ![u].marked = @ \cup gone,
                                   ![u].counted = Cardinality(gone)]
    /\ UNCHANGED <<today, row, hold, policy, ledger, late, edits>>

(* The retention_run row and the policy's lastRunAt, which needs the policy *)
(* to exist and waits for another run that stamped it.                      *)
Recorded(u, t) == [run |-> u, target |-> t, mode |-> run[u].mode,
                   matched |-> run[u].matched, deleted |-> run[u].counted]
RecordRun(u) ==
    /\ run[u].step = "swept"
    /\ \E p \in run[u].rows :
         /\ policy[p.target].status # "none"
         /\ ~\E v \in Run \ {u} : Running(v) /\ p.target \in run[v].stamped
         /\ run' = [run EXCEPT ![u].step = "sweep",
                               ![u].stamped = @ \cup {p.target},
                               ![u].rows = {}]
         /\ ledger' = ledger \cup {Recorded(u, p.target)}
    /\ UNCHANGED <<today, row, hold, policy, late, edits>>

(* After the last policy the run's audit entry is written and it commits.   *)
CommitRun(u) ==
    /\ run[u].step = "sweep" /\ run[u].todo = {}
    /\ row' = [r \in Row |-> IF r \in run[u].marked
                             THEN [row[r] EXCEPT !.state = "gone"] ELSE row[r]]
    /\ run' = [run EXCEPT ![u].step = "over", ![u].marked = {}]
    /\ UNCHANGED <<today, hold, policy, ledger, late, edits>>

(* A policy deleted meanwhile, a failed statement (whose error is caught,   *)
(* but Postgres refuses the rest of the transaction), a deadlock of two     *)
(* runs, the transaction timeout or a crash: everything rolls back.         *)
AbortRun(u) ==
    /\ Running(u)
    /\ run' = [run EXCEPT ![u].step = "over", ![u].marked = {}]
    /\ ledger' = {l \in ledger : l.run # u}
    /\ UNCHANGED <<today, row, hold, policy, late, edits>>

Next ==
    \/ NextDay
    \/ SetLegalHold
    \/ \E t \in Target :
         \/ \E r \in Row : CreateRow(r, t)
         \/ UpsertRetentionPolicy(t)
         \/ DeleteRetentionPolicy(t)
    \/ \E u \in Run :
         \/ \E mode \in Mode : BeginRun(u, mode)
         \/ ReadPolicies(u)
         \/ \E p \in run[u].todo : CountRows(u, p)
         \/ DeleteRows(u)
         \/ RecordRun(u)
         \/ CommitRun(u)
         \/ AbortRun(u)

Spec == Init /\ [][Next]_vars

-----------------------------------------------------------------------------
(* Types of the rows, the policies and the runs; a policy's age is within   *)
(* its target's limits.                                                     *)
TypeOK ==
    /\ today \in Day
    /\ row \in [Row -> [state : {"absent", "present", "gone"},
                        target : Target \cup {"none"}, born : Day]]
    /\ hold \in BOOLEAN
    /\ policy \in [Target -> [status : {"none", "on", "off"}, age : Age]]
    /\ \A u \in Run :
         /\ run[u].step \in {"idle", "begun", "sweep", "counted", "swept", "over"}
         /\ run[u].mode \in Mode /\ run[u].at \in Day
         /\ run[u].marked \subseteq Row /\ run[u].stamped \subseteq Target
    /\ late \subseteq Run
    /\ edits \in 0..MaxEdits

(* The committed retention_run rows account for every row that is gone:     *)
(* two runs that sweep the same target at once never both count a row, and  *)
(* a run that rolls back counts none.                                       *)
Committed == {l \in ledger : run[l.run].step = "over"}
Gone == {r \in Row : row[r].state = "gone"}
SumDeleted ==
    Cardinality(UNION {{<<l, i>> : i \in 1..l.deleted} : l \in Committed})
DeletedOnce == SumDeleted = Cardinality(Gone)

(* What a run deletes never exceeds what it counted, though the two are     *)
(* separate statements, and a dry run deletes nothing.                      *)
DeletedWasMatched ==
    \A l \in ledger : l.deleted <= IF l.mode = "apply" THEN l.matched ELSE 0

(* Types, and the two accounts of what was deleted.                         *)
Consistent == TypeOK /\ DeletedOnce /\ DeletedWasMatched

(* "min is a floor no policy may go below" (retention.ts:11): whatever the  *)
(* policies do while runs are under way, a row goes only when it is older   *)
(* than the target's floor.                                                 *)
FloorRespected ==
    [][\A r \in Row :
         row[r].state = "present" /\ row'[r].state = "gone"
           => row[r].born + MinAge < today]_vars

(* "This organization is under legal hold -- retention deletion is          *)
(* disabled" (governance.ts:526), which is read once at the start of a run: *)
(* rows go under a hold only by a run that was under way when it was set.   *)
HoldKeepsRowsUnlessLate ==
    [][\A u \in Run \ late :
         hold /\ run[u].marked # {} /\ run'[u].step = "over" => row' = row]_vars
=============================================================================

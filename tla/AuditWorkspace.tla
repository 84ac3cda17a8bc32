--------------------------- MODULE AuditWorkspace ---------------------------
(***************************************************************************)
(* Readiness simulations, audit findings, engagements and audit packages   *)
(* of one organization (packages/db/src/audit-workspace.ts).  A simulation *)
(* and a package are each one READ COMMITTED transaction; what a           *)
(* simulation writes appears when it commits, what a package reads is read *)
(* statement by statement while others commit.                             *)
(* X_Fault is the definition X with a plausible bug (see README.md).       *)
(***************************************************************************)
EXTENDS Integers, FiniteSets, FiniteSetsExt

CONSTANTS
    Subject,     \* what findings are about, 1..n in the order of assessment
    Runner,      \* transactions that simulate or package
    Period,
    PeriodOf,    \* [Subject -> Period]
    None,
    MaxCalls     \* bound: requests and changes of the data

AuditWorkspaceAssumption ==
    /\ Subject \subseteq Nat \ {0} /\ IsFiniteSet(Subject)
    /\ PeriodOf \in [Subject -> Period]

VARIABLES
    problem,     \* subjects the assessment would itemise now
    finding,     \* audit_finding rows: of source "simulation" by dedupeKey,
                 \* and Manual, one of source "manual"
    engagement,  \* an audit row: its status and whether closedAt is set
    latest,      \* the audit_simulation_run that started last: what it itemised
    package,     \* the audit_package rows and their objects
    trail,       \* number of committed audit entries
    run,         \* the transactions: what they have read and written
    update,      \* what a person's update of a finding has read
    calls

vars == <<problem, finding, engagement, latest, package, trail, run, update, calls>>

Idle == [op |-> "idle"]
Manual == 0
Finding == Subject \cup {Manual}
NoFinding == [status |-> "none", note |-> "none"]
AutoResolution == [status |-> "resolved", note |-> "auto"]

(* Earlier simulations have found and then no longer found `past'.          *)
Init ==
    /\ problem \in SUBSET Subject
    /\ \E past \in SUBSET (Subject \ problem) :
         finding = [f \in Finding |-> IF f \in past THEN AutoResolution ELSE NoFinding]
    /\ engagement = [status |-> "none", closed |-> FALSE]
    /\ latest = [startedAt |-> 0, itemised |-> {}]
    /\ package = {}
    /\ trail = 0
    /\ run = [r \in Runner |-> Idle]
    /\ update = Idle
    /\ calls = 0

Called == calls < MaxCalls /\ calls' = calls + 1
(* A transaction ends, with its audit entry.  `since' and `meanwhile' are    *)
(* history: the findings others have changed while a simulation ran, and    *)
(* whether an entry came between a package's last two reads.                *)
Logged(ended, fs) ==
    /\ trail' = trail + 1
    /\ run' = [q \in Runner |->
                 IF q = ended THEN Idle
                 ELSE IF run[q].op \in {"look", "upsert", "resolve"}
                      THEN [run[q] EXCEPT !.since = @ \cup fs]
                      ELSE IF run[q].op = "verified" THEN [run[q] EXCEPT !.meanwhile = TRUE]
                           ELSE run[q]]

(* Evidence, calculations, issues, mappings: what the assessment looks at.  *)
DataChanges(f) ==
    /\ Called
    /\ problem' = IF f \in problem THEN problem \ {f} ELSE problem \cup {f}
    /\ Logged(None, {})
    /\ UNCHANGED <<finding, engagement, latest, package, update>>

-----------------------------------------------------------------------------
(* The simulation.                                                          *)
Simulating == {r \in Runner : run[r].op \in {"look", "upsert", "resolve"}}
Locked(r, f) == \E q \in Simulating \ {r} : f \in DOMAIN run[q].rows
Writes(rows, f, row) == [k \in DOMAIN rows \cup {f} |-> IF k = f THEN row ELSE rows[k]]
IsOpen(row) == row.status \in {"open", "acknowledged", "remediating"}
AutoResolved(row) == row = AutoResolution
Itemised(p) == {f \in problem : PeriodOf[f] = p}

RunAuditSimulation(r, p) ==
    /\ Called
    /\ run[r] = Idle
    /\ run' = [run EXCEPT ![r] =
                 [op |-> "look", startedAt |-> calls',
                  found |-> Itemised(p), todo |-> Itemised(p), looked |-> NoFinding,
                  rows |-> <<>>, since |-> {}]]
    /\ UNCHANGED <<problem, finding, engagement, latest, package, trail, update>>

LookUpFinding(r) ==
    /\ run[r].op = "look" /\ run[r].todo # {}
    /\ run' = [run EXCEPT ![r].op = "upsert", ![r].looked = finding[Min(run[r].todo)]]
    /\ UNCHANGED <<problem, finding, engagement, latest, package, trail, update, calls>>

(* A finding created meanwhile meets the unique key: only Abort is left.    *)
Refreshed(looked, row) ==
    IF looked.status = "none" \/ AutoResolved(looked)
    THEN [status |-> "open", note |-> "none"] ELSE row
UpsertFinding(r) ==
    LET f == Min(run[r].todo)
        looked == run[r].looked
    IN  /\ run[r].op = "upsert"
        /\ ~Locked(r, f)
        /\ looked = NoFinding => finding[f] = NoFinding
        /\ run' = [run EXCEPT ![r].op = "look", ![r].todo = @ \ {f}, ![r].looked = NoFinding,
                              ![r].rows = Writes(@, f, Refreshed(looked, finding[f]))]
        /\ UNCHANGED <<problem, finding, engagement, latest, package, trail,
                       update, calls>>

(* Every open finding the run has not itemised, of whatever period.         *)
Stale_ManualToo(r) == {f \in Finding \ run[r].found : IsOpen(finding[f])}
Stale(r) == {f \in Subject \ run[r].found : IsOpen(finding[f])}
ListStaleFindings(r) ==
    /\ run[r].op = "look" /\ run[r].todo = {}
    /\ run' = [run EXCEPT ![r].op = "resolve", ![r].todo = Stale(r)]
    /\ UNCHANGED <<problem, finding, engagement, latest, package, trail, update, calls>>
AutoResolve(r, f) ==
    /\ run[r].op = "resolve"
    /\ f \in run[r].todo
    /\ ~Locked(r, f)
    /\ run' = [run EXCEPT ![r].todo = @ \ {f}, ![r].rows = Writes(@, f, AutoResolution)]
    /\ UNCHANGED <<problem, finding, engagement, latest, package, trail, update, calls>>

FindingsAfter(r) ==
    [f \in Finding |-> IF f \in DOMAIN run[r].rows THEN run[r].rows[f] ELSE finding[f]]
CompleteSimulation(r) ==
    /\ run[r].op = "resolve" /\ run[r].todo = {}
    /\ finding' = FindingsAfter(r)
    /\ latest' = IF latest.startedAt > run[r].startedAt THEN latest
                 ELSE [startedAt |-> run[r].startedAt, itemised |-> run[r].found]
    /\ Logged(r, DOMAIN run[r].rows)
    /\ UNCHANGED <<problem, engagement, package, update, calls>>

(* A failure, a deadlock or the transaction's timeout.                      *)
Abort(r) ==
    /\ run[r] # Idle
    /\ run' = [run EXCEPT ![r] = Idle]
    /\ UNCHANGED <<problem, finding, engagement, latest, package, trail, update, calls>>

-----------------------------------------------------------------------------
(* Engagements.  closedAt stays when a complete engagement is taken up again. *)
CreateAudit ==
    /\ Called
    /\ engagement.status = "none"
    /\ engagement' = [status |-> "planning", closed |-> FALSE]
    /\ Logged(None, {})
    /\ UNCHANGED <<problem, finding, latest, package, update>>
UpdateAudit(status) ==
    /\ Called
    /\ engagement.status # "none"
    /\ engagement' = [status |-> status, closed |-> engagement.closed \/ status = "complete"]
    /\ Logged(None, {})
    /\ UNCHANGED <<problem, finding, latest, package, update>>

(* Findings raised and updated by people.  An update reads the row first;   *)
(* one that gives no status ("kept") writes none, and the note as read.     *)
CreateFinding ==
    /\ Called
    /\ finding[Manual] = NoFinding
    /\ finding' = [finding EXCEPT ![Manual] = [status |-> "open", note |-> "none"]]
    /\ Logged(None, {})
    /\ UNCHANGED <<problem, engagement, latest, package, update>>

Closing == {"resolved", "accepted_risk", "dismissed"}
Reopening == {"open", "acknowledged"}
Updated(row, read, status, note) ==
    [status |-> IF status = "kept" THEN row.status ELSE status,
     note |-> IF status \in Reopening THEN "none"
              ELSE IF note # "none" THEN note ELSE read.note]
BeginUpdate(f) ==
    /\ Called
    /\ update = Idle
    /\ finding[f] # NoFinding
    /\ update' = [op |-> "update", finding |-> f, read |-> finding[f]]
    /\ UNCHANGED <<problem, finding, engagement, latest, package, trail, run>>
UpdateFinding(status, note) ==
    LET f == update.finding
    IN  /\ update # Idle
        /\ \A r \in Simulating : f \notin DOMAIN run[r].rows
        /\ finding' = [finding EXCEPT ![f] = Updated(finding[f], update.read, status, note)]
        /\ update' = Idle
        /\ Logged(None, {f})
        /\ UNCHANGED <<problem, engagement, latest, package, calls>>

-----------------------------------------------------------------------------
(* A package.  Its reads see what is committed when each is made: the open  *)
(* findings and the latest simulation, then the chain's verification, then  *)
(* the chain's head.                                                        *)
GenerateAuditPackage(r) ==
    /\ Called
    /\ run[r] = Idle
    /\ run' = [run EXCEPT ![r] =
                 [op |-> "read", open |-> {f \in Finding : IsOpen(finding[f])},
                  readiness |-> latest.itemised, entries |-> 0, head |-> 0,
                  meanwhile |-> FALSE]]
    /\ UNCHANGED <<problem, finding, engagement, latest, package, trail, update>>
ReadAuditTrail(r) ==
    /\ run[r].op = "read"
    /\ run' = [run EXCEPT ![r].op = "verified", ![r].entries = trail]
    /\ UNCHANGED <<problem, finding, engagement, latest, package, trail, update, calls>>
ReadHead(r) ==
    /\ run[r].op = "verified"
    /\ run' = [run EXCEPT ![r].op = "put", ![r].head = trail]
    /\ UNCHANGED <<problem, finding, engagement, latest, package, trail, update, calls>>

(* The object first, then the row: it appears, ready, with the commit.  A   *)
(* failed put is rethrown after the row was marked `failed', which rolls    *)
(* the mark back with the row: that is Abort.                               *)
Object(r) == [open |-> run[r].open, readiness |-> run[r].readiness,
              entries |-> run[r].entries, head |-> run[r].head,
              meanwhile |-> run[r].meanwhile]
CompletePackage(r) ==
    /\ run[r].op = "put"
    /\ package' = package \cup {Object(r)}
    /\ Logged(r, {})
    /\ UNCHANGED <<problem, finding, engagement, latest, update, calls>>

-----------------------------------------------------------------------------
(* Requests about findings, and those that generate packages.               *)
FindingNext ==
    \/ \E f \in Finding : BeginUpdate(f)
    \/ \E status \in {"kept", "open", "remediating", "resolved", "accepted_risk"},
          note \in {"none", "person"} : UpdateFinding(status, note)
    \/ CreateFinding
PackageNext(r) == GenerateAuditPackage(r) \/ ReadAuditTrail(r) \/ ReadHead(r) \/ CompletePackage(r)
Next ==
    \/ \E f \in Subject : DataChanges(f)
    \/ FindingNext
    \/ CreateAudit
    \/ \E status \in {"review", "complete"} : UpdateAudit(status)
    \/ \E r \in Runner :
         \/ \E p \in Period : RunAuditSimulation(r, p)
         \/ LookUpFinding(r)
         \/ UpsertFinding(r)
         \/ ListStaleFindings(r)
         \/ \E f \in Finding : AutoResolve(r, f)
         \/ CompleteSimulation(r)
         \/ Abort(r)
         \/ PackageNext(r)

Spec == Init /\ [][Next]_vars

-----------------------------------------------------------------------------
(* Types of the rows, and an engagement once completed has its date.        *)
TypeOK ==
    /\ \A f \in Finding :
         /\ finding[f].status \in Closing \cup Reopening \cup {"none", "remediating"}
         /\ finding[f].note \in {"none", "auto", "person"}
    /\ engagement.status = "complete" => engagement.closed
    /\ latest.itemised \subseteq Subject /\ latest.startedAt <= calls

(* What a package says of the audit trail is one state of it: the head hash *)
(* is that of the last of the entries it counts, unless an entry was        *)
(* committed between its two reads.                                         *)
PackageShowsOneTrail ==
    \A object \in package : object.meanwhile \/ object.head = object.entries

(* "leaves accepted_risk / dismissed alone", and manual findings are "never *)
(* auto-resolved" (docs/data-model.md:464): only a person changes those,    *)
(* or a simulation that was under way when they were decided.               *)
Decided(row) == row.status \in {"accepted_risk", "dismissed"}
Person(f) == update # Idle /\ update' = Idle /\ update.finding = f
Completes(r) ==
    /\ run[r].op = "resolve" /\ run[r].todo = {} /\ run'[r] = Idle
    /\ finding' = FindingsAfter(r)
DecisionsStand ==
    [][\A f \in Finding :
         finding'[f] # finding[f] =>
           /\ Decided(finding[f]) =>
                Person(f) \/ \E r \in Runner : Completes(r) /\ f \in run[r].since
           /\ f = Manual => Person(f) \/ finding[f] = NoFinding]_vars

(* When a simulation commits, what it itemised is not auto-resolved and     *)
(* what it did not is not open, but for findings changed while it ran.      *)
SimulationDecides ==
    [][\A r \in Runner :
         Completes(r) =>
           \A f \in Subject \ run[r].since :
             /\ f \in run[r].found => finding'[f] # NoFinding /\ ~AutoResolved(finding'[f])
             /\ f \notin run[r].found => ~IsOpen(finding'[f])]_vars
=============================================================================

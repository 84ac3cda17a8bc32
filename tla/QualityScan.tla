---------------------------- MODULE QualityScan -----------------------------
(***************************************************************************)
(* Trust scores, data-quality issues and anomalies of one organization     *)
(* (packages/db/src/trust.ts).  A scan is one READ COMMITTED transaction:  *)
(* it reads the datapoints, scores them, refreshes the issues it detects,  *)
(* resolves those it does not and records anomalies, and all it has        *)
(* written appears when it commits.  Other scans and people triaging       *)
(* issues run meanwhile.  A row written by an open transaction is locked;  *)
(* a row that was only read is not.                                        *)
(* X_Fault is the definition X with a plausible bug (see README.md).       *)
(***************************************************************************)
EXTENDS Integers, FiniteSets, FiniteSetsExt

CONSTANTS
    Datapoint,   \* 1..n, in the order of their creation
    Scanner,     \* transactions that scan or score
    Period,
    PeriodOf,    \* [Datapoint -> Period]
    None,
    MaxCalls     \* bound: requests and changes of the data

QualityScanAssumption ==
    /\ Datapoint \subseteq Nat \ {0} /\ IsFiniteSet(Datapoint)
    /\ PeriodOf \in [Datapoint -> Period]
    /\ None \notin Period

VARIABLES
    inputs,      \* what a datapoint's score and issues are computed from
    score,       \* trust_score rows: [n, digest, prev], n in creation order
    issue,       \* data_quality_issue rows, one per dedupeKey
    anomaly,     \* anomaly rows
    scan,        \* the transactions: what they have read and written
    triage,      \* what a person's update of an issue has read
    calls,
    forked       \* history: datapoints scored by two transactions at a time

vars == <<inputs, score, issue, anomaly, scan, triage, calls, forked>>

Idle == [op |-> "idle"]
NoIssue == [status |-> "none", note |-> "none"]

AutoResolution == [status |-> "resolved", note |-> "auto"]

(* Earlier scans have found the datapoints in `past' poor, later ones good. *)
Init ==
    /\ inputs \in [Datapoint -> {"good", "poor"}]
    /\ \E past \in SUBSET {d \in Datapoint : inputs[d] = "good"} :
         /\ score = [d \in Datapoint |->
                       IF d \in past THEN {[n |-> 1, digest |-> "poor", prev |-> 0],
                                           [n |-> 2, digest |-> "good", prev |-> 1]} ELSE {}]
         /\ issue = [d \in Datapoint |-> IF d \in past THEN AutoResolution ELSE NoIssue]
         /\ anomaly = [d \in Datapoint |-> IF d \in past THEN "open" ELSE "none"]
    /\ scan = [s \in Scanner |-> Idle]
    /\ triage = Idle
    /\ calls = 0 /\ forked = {}

Called == calls < MaxCalls /\ calls' = calls + 1

(* Evidence, factors or values of a datapoint change, by other modules.     *)
DataChanges(d) ==
    /\ Called
    /\ inputs' = [inputs EXCEPT ![d] = IF @ = "good" THEN "poor" ELSE "good"]
    /\ UNCHANGED <<score, issue, anomaly, scan, triage, forked>>

-----------------------------------------------------------------------------
(* Trust scores.  The current score is the latest one nothing supersedes.   *)
Current(d) == {row \in score[d] : \A next \in score[d] : next.prev # row.n}
Latest(rows) == CHOOSE row \in rows : \A other \in rows : other.n <= row.n
Active == {s \in Scanner : scan[s] # Idle}
RowsEver(d) == score[d] \cup UNION {scan[s].scores[d] : s \in Active}
NextScore(d) == 1 + Max({0} \cup {row.n : row \in RowsEver(d)})

(* Evidence, factor and methodology, and what else a score is made of.      *)
Digest(d) == inputs[d]
PersistTrustScore_Unlinked(d) == {[n |-> NextScore(d), digest |-> Digest(d), prev |-> 0]}
PersistTrustScore(d) ==
    IF \E row \in Current(d) : row = Latest(Current(d)) /\ row.digest = Digest(d)
    THEN {}
    ELSE {[n |-> NextScore(d), digest |-> Digest(d),
           prev |-> IF Current(d) = {} THEN 0 ELSE Latest(Current(d)).n]}
Scores(ds) == [d \in Datapoint |-> IF d \in ds THEN PersistTrustScore(d) ELSE {}]
AtATime(ds) == {d \in ds : \E s \in Active : scan[s].scores[d] # {}}

ScoreDatapointTrust(s, d) ==
    /\ Called
    /\ scan[s] = Idle
    /\ scan' = [scan EXCEPT ![s] =
                  [op |-> "done", period |-> None, found |-> {}, missed |-> {},
                   scores |-> Scores({d}), rows |-> <<>>, since |-> {},
                   anomalies |-> {}]]
    /\ forked' = forked \cup AtATime({d})
    /\ UNCHANGED <<inputs, score, issue, anomaly, triage>>

-----------------------------------------------------------------------------
(* The scan.  `found' is what it detects, `todo' what is left of its loop,  *)
(* `looked' the row read last, `rows' the rows written so far; `since' is   *)
(* history: the issues others have changed since it started.                *)
InScope(d, p) == p = None \/ PeriodOf[d] = p
Scope(p) == {d \in Datapoint : InScope(d, p)}
(* Which rule finds the fault, and which detector, is DataTrust's matter:   *)
(* a poor datapoint has an issue, and is an outlier.                        *)
HasIssue(d) == inputs[d] = "poor"
Outlies(d) == inputs[d] = "poor"
Detected(ds) == {d \in ds : HasIssue(d)}

RunQualityScan(s, p) ==
    /\ Called
    /\ scan[s] = Idle
    /\ scan' = [scan EXCEPT ![s] =
                  [op |-> "look", period |-> p, scores |-> Scores(Scope(p)),
                   found |-> Detected(Scope(p)), todo |-> Detected(Scope(p)),
                   pool |-> {d \in Datapoint : Outlies(d)}, looked |-> NoIssue, rows |-> <<>>, since |-> {},
                   anomalies |-> {}, missed |-> Scope(p) \ Detected(Scope(p))]]
    /\ forked' = forked \cup AtATime(Scope(p))
    /\ UNCHANGED <<inputs, score, issue, anomaly, triage>>

Locked(s, d) == \E t \in Active \ {s} : d \in DOMAIN scan[t].rows
Writes(rows, d, row) == [k \in DOMAIN rows \cup {d} |-> IF k = d THEN row ELSE rows[k]]
AutoResolved(row) == row = AutoResolution
IsOpen(row) == row.status \in {"open", "acknowledged"}

LookUpIssue(s) ==
    /\ scan[s].op = "look" /\ scan[s].todo # {}
    /\ scan' = [scan EXCEPT ![s].op = "upsert", ![s].looked = issue[Min(scan[s].todo)]]
    /\ UNCHANGED <<inputs, score, issue, anomaly, triage, calls, forked>>

(* An issue created meanwhile meets the unique key: only Abort is left.     *)
Refreshed(looked, row) ==
    IF looked.status = "none" \/ AutoResolved(looked)
    THEN [status |-> "open", note |-> "none"] ELSE row
UpsertIssue(s) ==
    LET r == scan[s]
        d == Min(r.todo)
    IN  /\ r.op = "upsert"
        /\ ~Locked(s, d)
        /\ r.looked = NoIssue => issue[d] = NoIssue
        /\ scan' = [scan EXCEPT ![s].op = "look", ![s].todo = @ \ {d}, ![s].looked = NoIssue,
                                ![s].rows = Writes(@, d, Refreshed(r.looked, issue[d]))]
        /\ UNCHANGED <<inputs, score, issue, anomaly, triage, calls, forked>>

(* The open issues in the scan's scope that it has not seen ...             *)
Stale(r) == {d \in Scope(r.period) \ r.found : IsOpen(issue[d])}
ListStaleIssues(s) ==
    /\ scan[s].op = "look" /\ scan[s].todo = {}
    /\ scan' = [scan EXCEPT ![s].op = "resolve", ![s].todo = Stale(scan[s])]
    /\ UNCHANGED <<inputs, score, issue, anomaly, triage, calls, forked>>

(* ... are resolved one by one, by id and whatever they are by then.        *)
AutoResolve(s, d) ==
    /\ scan[s].op = "resolve"
    /\ d \in scan[s].todo
    /\ ~Locked(s, d)
    /\ scan' = [scan EXCEPT ![s].todo = @ \ {d},
                  ![s].rows = Writes(@, d, AutoResolution)]
    /\ UNCHANGED <<inputs, score, issue, anomaly, triage, calls, forked>>

(* Anomalies are created once and keep the status people give them.         *)
ScanAnomalies(s) ==
    LET r == scan[s]
        seen == {d \in r.pool : InScope(d, r.period) /\ anomaly[d] = "none"}
    IN  /\ r.op = "resolve" /\ r.todo = {}
        /\ \A t \in Active \ {s} : scan[t].anomalies \cap seen = {}
        /\ scan' = [scan EXCEPT ![s].op = "done", ![s].anomalies = seen]
        /\ UNCHANGED <<inputs, score, issue, anomaly, triage, calls, forked>>

IssuesAfter(r) == [d \in Datapoint |-> IF d \in DOMAIN r.rows THEN r.rows[d] ELSE issue[d]]
Tells(idle, ds) ==
    [t \in Scanner |-> IF t = idle \/ scan[t] = Idle THEN Idle
                       ELSE [scan[t] EXCEPT !.since = @ \cup ds]]
Commit(s) ==
    LET r == scan[s]
    IN  /\ r.op = "done"
        /\ score' = [d \in Datapoint |-> score[d] \cup r.scores[d]]
        /\ issue' = IssuesAfter(r)
        /\ anomaly' = [d \in Datapoint |-> IF d \in r.anomalies THEN "open" ELSE anomaly[d]]
        /\ scan' = Tells(s, DOMAIN r.rows)
        /\ UNCHANGED <<inputs, triage, calls, forked>>

(* A failure, a deadlock or the transaction's timeout.                      *)
Abort(s) ==
    /\ scan[s] # Idle
    /\ scan' = [scan EXCEPT ![s] = Idle]
    /\ UNCHANGED <<inputs, score, issue, anomaly, triage, calls, forked>>

-----------------------------------------------------------------------------
(* Triage.  Closing without a note keeps the note that was read.            *)
BeginTriage(d) ==
    /\ Called
    /\ triage = Idle
    /\ issue[d].status # "none"
    /\ triage' = [op |-> "triage", issue |-> d, read |-> issue[d]]
    /\ UNCHANGED <<inputs, score, issue, anomaly, scan, forked>>
UpdateIssueStatus(status, note) ==
    LET d == triage.issue
        kept == IF status \in {"resolved", "dismissed"} THEN triage.read.note ELSE "none"
    IN  /\ triage # Idle
        /\ \A s \in Active : d \notin DOMAIN scan[s].rows
        /\ issue' = [issue EXCEPT ![d] =
                       [status |-> status, note |-> IF note = "none" THEN kept ELSE note]]
        /\ triage' = Idle
        /\ scan' = Tells(None, {d})
        /\ UNCHANGED <<inputs, score, anomaly, calls, forked>>
UpdateAnomalyStatus(d, status) ==
    /\ Called
    /\ anomaly[d] # "none"
    /\ anomaly' = [anomaly EXCEPT ![d] = status]
    /\ UNCHANGED <<inputs, score, issue, scan, triage, forked>>

-----------------------------------------------------------------------------
Next ==
    \/ \E d \in Datapoint :
         \/ DataChanges(d)
         \/ BeginTriage(d)
         \/ \E status \in {"open", "dismissed"} : UpdateAnomalyStatus(d, status)
    \/ \E status \in {"acknowledged", "resolved", "dismissed"} :
         \E note \in {"none", "person"} : UpdateIssueStatus(status, note)
    \/ \E s \in Scanner :
         \/ \E d \in Datapoint : ScoreDatapointTrust(s, d) \/ AutoResolve(s, d)
         \/ \E p \in Period \cup {None} : RunQualityScan(s, p)
         \/ LookUpIssue(s)
         \/ UpsertIssue(s)
         \/ ListStaleIssues(s)
         \/ ScanAnomalies(s)
         \/ Commit(s)
         \/ Abort(s)

Spec == Init /\ [][Next]_vars

-----------------------------------------------------------------------------
(* Types of the rows.                                                       *)
TypeOK ==
    /\ \A d \in Datapoint :
         /\ issue[d].status \in {"none", "open", "acknowledged", "resolved", "dismissed"}
         /\ issue[d].note \in {"none", "auto", "person"}
         /\ anomaly[d] \in {"none", "open", "explained", "dismissed"}
         /\ \A row \in score[d] :
              row.prev = 0 \/ \E old \in score[d] : old.n = row.prev /\ old.n < row.n

(* "version-chained (supersedes_id)" (docs/data-model.md:362): a datapoint  *)
(* has one current score, which the averages count once, unless two         *)
(* transactions scored it at the same time.                                 *)
OneCurrentScore == \A d \in Datapoint \ forked : Cardinality(Current(d)) <= 1

(* "dismissed is sticky" (docs/data-model.md:366): only a person takes an   *)
(* issue out of that status, or a scan that was under way when it got it.   *)
Triaged(d) == triage # Idle /\ triage' = Idle /\ triage.issue = d
Commits(s) ==
    /\ scan[s].op = "done" /\ scan'[s] = Idle
    /\ issue' = IssuesAfter(scan[s])
DismissedIsSticky ==
    [][\A d \in Datapoint :
         issue[d].status = "dismissed" /\ issue'[d].status # "dismissed" =>
           Triaged(d) \/ \E s \in Scanner : Commits(s) /\ d \in scan[s].since]_vars

(* When a scan commits, what it has detected is not auto-resolved, what it  *)
(* looked for in vain is not open, and nothing out of its period has        *)
(* changed: for the issues nobody else changed while it ran.                *)
ScanDecides ==
    [][\A s \in Scanner :
         Commits(s) =>
           \A d \in Datapoint \ scan[s].since :
             /\ d \in scan[s].found => issue'[d] # NoIssue /\ ~AutoResolved(issue'[d])
             /\ d \in scan[s].missed => ~IsOpen(issue'[d])
             /\ ~InScope(d, scan[s].period) => issue'[d] = issue[d]]_vars
=============================================================================

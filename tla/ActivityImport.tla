--------------------------- MODULE ActivityImport ---------------------------
(***************************************************************************)
(* Imports of activity data from delimited files, and saved connectors     *)
(* (packages/db/src/integrations.ts and                                    *)
(* packages/domain/src/integrations/csv-activity.ts).  An import is one    *)
(* transaction, so one action.  A cell is empty, good, bad (validation     *)
(* refuses it) or huge (a finite number that the column refuses).          *)
(***************************************************************************)
EXTENDS Naturals, Sequences, FiniteSets

CONSTANTS
    Field, Mandatory,  \* what an activity is made of, and what it must have
    Connector,
    NoConnector,
    MaxLines, MaxRuns  \* bounds: lines of a file, recorded runs

ImportAssumption ==
    /\ Mandatory \subseteq Field /\ NoConnector \notin Connector
    /\ MaxLines \in Nat /\ MaxRuns \in Nat

VARIABLES
    importRuns,  \* [connector, status, total, valid, imported], oldest first
    activities,  \* [run, line, fields] of the activity rows created
    connectors   \* [Connector -> [status, used]], used is lastRunAt, a run

vars == <<importRuns, activities, connectors>>

Cell == {"", "good", "bad", "huge"}
(* A target field takes a constant, or a column of the file, or a default.  *)
Rule == [constant : {"", "good"}, mapped : BOOLEAN, default : {"", "good"}]
Line == [Field -> Cell]

Init ==
    /\ importRuns = <<>>
    /\ activities = {}
    /\ connectors = [c \in Connector |-> [status |-> "absent", used |-> 0]]

-----------------------------------------------------------------------------
(* A mapped column wins over the default even where its cell is empty.      *)
Resolve(rule, cell) ==
    IF rule.constant # "" THEN rule.constant
    ELSE IF rule.mapped THEN cell
    ELSE rule.default
Mapped(mapping, line) == [f \in Field |-> Resolve(mapping[f], line[f])]

RowErrors(fields) ==
    {f \in Field : fields[f] = "bad" \/ (fields[f] = "" /\ f \in Mandatory)}

(* Lines of a file that pass validation (ImportPreview).                    *)
ValidLines(file, mapping) ==
    {l \in DOMAIN file : RowErrors(Mapped(mapping, file[l])) = {}}
Refused(file, mapping) ==
    {l \in ValidLines(file, mapping) :
        \E f \in Field : Mapped(mapping, file[l])[f] = "huge"}

Saved == {c \in Connector : connectors[c].status # "absent"}

(* commitImport: a row the database refuses is caught and reported, but it  *)
(* has aborted the transaction, so nothing of the import remains.           *)
Survives(file, mapping) == Refused(file, mapping) = {}
CommitImport(file, mapping, c) ==
    LET n == Len(importRuns) + 1
        valid == ValidLines(file, mapping)
        created == valid \ Refused(file, mapping)
    IN  /\ n <= MaxRuns
        /\ c \in Saved \cup {NoConnector}
        /\ Survives(file, mapping)
        /\ importRuns' = Append(importRuns,
                [connector |-> c,
                 status |-> IF created = {} /\ valid # {} THEN "failed" ELSE "completed",
                 total |-> Len(file),
                 valid |-> Cardinality(valid),
                 imported |-> Cardinality(created)])
        /\ activities' = activities \cup
                {[run |-> n, line |-> l, fields |-> Mapped(mapping, file[l])] : l \in created}
        /\ connectors' = [k \in Connector |->
                IF k = c THEN [connectors[k] EXCEPT !.used = n] ELSE connectors[k]]

CreateIntegration(c) ==
    /\ c \notin Saved
    /\ connectors' = [connectors EXCEPT ![c].status = "active"]
    /\ UNCHANGED <<importRuns, activities>>

(* A paused connector still imports: nothing reads its status.              *)
UpdateIntegration(c, status) ==
    /\ c \in Saved
    /\ connectors' = [connectors EXCEPT ![c].status = status]
    /\ UNCHANGED <<importRuns, activities>>

Next ==
    \/ \E n \in 0 .. MaxLines : \E file \in [1 .. n -> Line],
            mapping \in [Field -> Rule], c \in Connector \cup {NoConnector} :
         CommitImport(file, mapping, c)
    \/ \E c \in Connector :
         CreateIntegration(c) \/ \E s \in {"active", "paused", "error"} : UpdateIntegration(c, s)

Spec == Init /\ [][Next]_vars

-----------------------------------------------------------------------------
(* An import is all or nothing: a recorded run has created one activity     *)
(* from each of its valid lines, with every mandatory field, and its        *)
(* connector points at it or at a later run.                                *)
AllOrNothing ==
    \A i \in DOMAIN importRuns :
        LET r == importRuns[i]
        IN  /\ r.imported = r.valid /\ r.valid <= r.total
            /\ Cardinality({a \in activities : a.run = i}) = r.imported
            /\ \A a \in activities : a.run = i =>
                 \A f \in Mandatory : a.fields[f] \notin {"", "bad", "huge"}
            /\ r.connector # NoConnector => connectors[r.connector].used >= i
=============================================================================

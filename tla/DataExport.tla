------------------------------ MODULE DataExport ------------------------------
(***************************************************************************)
(* Full-tenant data exports of one organization (packages/db/src/          *)
(* governance.ts, apps/api/src/modules/exports).  An export is one READ    *)
(* COMMITTED transaction that reads the sections, stores the bundle and    *)
(* marks its job ready.  The contents of a bundle are not modelled.        *)
(* X_Fault is the definition X with a plausible bug (see README.md).       *)
(***************************************************************************)
EXTENDS Integers, FiniteSets

CONSTANTS
    Job,        \* export jobs, each used once
    Ttl,        \* EXPORT_TTL_HOURS, in units of the clock
    MinAge,     \* the retention floor of export_job, in the same units
    MaxTime     \* bound: the clock

ExportAssumption ==
    /\ Ttl \in Nat /\ MinAge \in Nat /\ Ttl <= MinAge
    /\ MaxTime \in Nat

VARIABLES
    now,
    job,        \* the jobs: transaction step and committed row
    object      \* bundles in the object storage, by job

vars == <<now, job, object>>

Time == 0..MaxTime
Never == -1
NotRequested ==
    [step |-> "idle", status |-> "absent", created |-> 0,
     completed |-> Never, expires |-> Never]

Init ==
    /\ now = 0
    /\ job = [j \in Job |-> NotRequested]
    /\ object = {}

-----------------------------------------------------------------------------
Tick ==
    /\ now < MaxTime
    /\ now' = now + 1
    /\ UNCHANGED <<job, object>>

-----------------------------------------------------------------------------
(* runExport: the job row, then the 24 sections.                            *)
BeginExport(j) ==
    /\ job[j].step = "idle"
    /\ job' = [job EXCEPT ![j].step = "begun", ![j].created = now]
    /\ UNCHANGED <<now, object>>

ReadSections(j) ==
    /\ job[j].step = "begun"
    /\ job' = [job EXCEPT ![j].step = "read"]
    /\ UNCHANGED <<now, object>>

(* The bundle goes to the storage, under a key no other bundle has: it      *)
(* contains the time it was generated.                                      *)
StoreBundle(j) ==
    /\ job[j].step = "read"
    /\ object' = object \cup {j}
    /\ job' = [job EXCEPT ![j].step = "stored"]
    /\ UNCHANGED now

(* The update that marks the job ready stores no expiry: expiresAt is only  *)
(* returned to the caller.                                                  *)
CommitExport(j) ==
    /\ job[j].step = "stored"
    /\ job' = [job EXCEPT ![j].step = "over", ![j].status = "ready",
                          ![j].completed = now]
    /\ UNCHANGED <<now, object>>

(* A failed statement or upload is caught and rethrown, so that the job row *)
(* and its "failed" status roll back with the transaction; so they do on    *)
(* the transaction timeout and in a crash.  A stored bundle stays.          *)
FailExport(j) ==
    /\ job[j].step \in {"begun", "read", "stored"}
    /\ job' = [job EXCEPT ![j].step = "over"]
    /\ UNCHANGED <<now, object>>

(* GET /exports first expires what is ready and past its expiresAt; a NULL  *)
(* never is.                                                                *)
PastTtl_NullToo(j) == job[j].expires < now
PastTtl(j) == job[j].expires # Never /\ job[j].expires < now
ListExports ==
    /\ job' = [j \in Job |-> IF job[j].status = "ready" /\ PastTtl(j)
                             THEN [job[j] EXCEPT !.status = "expired"] ELSE job[j]]
    /\ UNCHANGED <<now, object>>

(* GET /exports/:id/download reads the row and hands out a link.            *)
Downloadable(j) == job[j].status = "ready"

(* An apply run of the retention policy for export_job deletes the row.     *)
SweepExportJob(j) ==
    /\ job[j].status \in {"ready", "expired"}
    /\ job[j].created + MinAge < now
    /\ job' = [job EXCEPT ![j].status = "swept"]
    /\ UNCHANGED <<now, object>>

Next ==
    \/ Tick
    \/ \E j \in Job :
         \/ BeginExport(j)
         \/ ReadSections(j)
         \/ StoreBundle(j)
         \/ CommitExport(j)
         \/ FailExport(j)
         \/ SweepExportJob(j)
    \/ ListExports

Spec == Init /\ [][Next]_vars

-----------------------------------------------------------------------------
(* Types of the rows; a job that is ready says when it was completed.       *)
TypeOK ==
    /\ now \in Time
    /\ job \in [Job -> [step : {"idle", "begun", "read", "stored", "over"},
                        status : {"absent", "ready", "expired", "swept"},
                        created : Time, completed : Time \cup {Never},
                        expires : Time \cup {Never}]]
    /\ \A j \in Job : job[j].status = "ready" => job[j].completed \in Time
    /\ object \subseteq Job

(* The bundle of a job that is ready is in the storage: a failure at any    *)
(* point of the export leaves no job that names a missing bundle.           *)
ReadyHasObject == \A j \in Job : job[j].status = "ready" => j \in object

(* Types; and whatever fails, and when, rows and bundles agree.             *)
Consistent == TypeOK /\ ReadyHasObject

(* "downloadable for this long" (export-bundle.ts:38): neither expiry nor   *)
(* the retention sweep takes a finished export before its TTL is over.      *)
AvailableForTtl ==
    \A j \in Job :
       job[j].completed # Never /\ now <= job[j].created + Ttl
         => Downloadable(j)

=============================================================================

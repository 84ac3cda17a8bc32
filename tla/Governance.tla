----------------------------- MODULE Governance ------------------------------
(***************************************************************************)
(* Retention, DataExport and Access in one run.  The first two meet where  *)
(* a sweep deletes finished export jobs, which DataExport has as an action *)
(* of its own.  A behaviour exercises one module, which `focus' names, and *)
(* leaves the others where they start.                                     *)
(***************************************************************************)
EXTENDS Integers, TLC

CONSTANTS Row, Target, MinAge, MaxAge, Run, MaxDay, MaxEdits
CONSTANTS Job, Ttl, JobMinAge, MaxTime
CONSTANTS Person, Organization, Key, Request, None, MaxChanges

VARIABLES focus, today, row, hold, policy, run, ledger, late, edits
VARIABLES now, job, object
VARIABLES member, grants, key, request, changes, held, moved

R == INSTANCE Retention
X == INSTANCE DataExport WITH MinAge <- JobMinAge
A == INSTANCE Access WITH Grants <- {{"write"}, {"read", "administer"}}

ASSUME GovernanceAssumption ==
    R!RetentionAssumption /\ X!ExportAssumption /\ A!AccessAssumption

retentionVars == <<today, row, hold, policy, run, ledger, late, edits>>
exportVars == <<now, job, object>>
accessVars == <<member, grants, key, request, changes, held, moved>>

Init ==
    /\ R!Init /\ X!Init /\ A!Init
    /\ focus \in {"retention", "export", "access"}
    /\ focus # "access" => \A o \in Organization, p \in Person :
         member[o][p] = [status |-> "active", role |-> "organization_admin"]
Next ==
    /\ \/ focus = "retention" /\ R!Next /\ UNCHANGED <<exportVars, accessVars>>
       \/ focus = "export" /\ X!Next /\ UNCHANGED <<retentionVars, accessVars>>
       \/ focus = "access" /\ A!Next /\ UNCHANGED <<retentionVars, exportVars>>
    /\ UNCHANGED focus

Spec == Init /\ [][Next]_<<focus, retentionVars, exportVars, accessVars>>

(* Rows, targets and runs are never compared with an order.                 *)
Symmetry == Permutations(Row) \cup Permutations(Target) \cup Permutations(Run)

-----------------------------------------------------------------------------
(* Rows, policies, runs and jobs have their types, the ledger accounts for  *)
(* every deleted row once, a ready job has its bundle, and a request may do *)
(* what its actor was entitled to do in that organization (Access).         *)
Consistent == R!Consistent /\ X!Consistent /\ A!ActsWithinItsOrganization

(* No row goes before the floor of its target, nor under a legal hold but   *)
(* by a run that was under way when it was set (Retention); a key changes   *)
(* neither keys nor roles nor memberships of an organization that exists    *)
(* (Access).                                                                *)
LimitsHold == R!FloorRespected /\ R!HoldKeepsRowsUnlessLate /\ A!KeysDoNotAdminister

(* A finished export is available for its TTL (DataExport).                 *)
AvailableForTtl == X!AvailableForTtl
=============================================================================

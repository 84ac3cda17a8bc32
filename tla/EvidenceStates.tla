--------------------------- MODULE EvidenceStates ----------------------------
(***************************************************************************)
(* What the evidence register promises, without requests or transactions:  *)
(* every record moves along the lifecycle of                               *)
(* packages/domain/src/evidence/lifecycle.ts, and a new version replaces a *)
(* record that nothing has replaced yet, in one step.                      *)
(***************************************************************************)
EXTENDS Integers

CONSTANTS
    Evidence,  \* evidence ids
    None       \* no predecessor

VARIABLES status, version, supersedes
vars == <<status, version, supersedes>>

Status == {"uploaded", "processing", "extracted", "reviewed", "verified",
           "rejected", "expired", "superseded"}

(* TRANSITIONS.                                                             *)
NextStates(s) ==
    CASE s = "uploaded"   -> {"processing", "reviewed", "rejected", "superseded"}
      [] s = "processing" -> {"extracted", "reviewed", "rejected", "superseded"}
      [] s = "extracted"  -> {"reviewed", "rejected", "superseded"}
      [] s = "reviewed"   -> {"verified", "rejected", "superseded"}
      [] s = "verified"   -> {"expired", "superseded"}
      [] s \in {"rejected", "expired"} -> {"superseded"}
      [] OTHER -> {}

Init ==
    /\ status = [e \in Evidence |-> "absent"]
    /\ version = [e \in Evidence |-> 0]
    /\ supersedes = [e \in Evidence |-> None]

Create(e, s) ==
    /\ status[e] = "absent"
    /\ status' = [status EXCEPT ![e] = s]
    /\ version' = [version EXCEPT ![e] = 1]
    /\ UNCHANGED supersedes

Move(e, s) ==
    /\ s \in NextStates(status[e])
    /\ status' = [status EXCEPT ![e] = s]
    /\ UNCHANGED <<version, supersedes>>

Replace(old, new) ==
    /\ status[new] = "absent"
    /\ status[old] \notin {"absent", "superseded"}
    /\ status' = [status EXCEPT ![new] = "uploaded", ![old] = "superseded"]
    /\ version' = [version EXCEPT ![new] = version[old] + 1]
    /\ supersedes' = [supersedes EXCEPT ![new] = old]

Next ==
    \/ \E e \in Evidence :
         \/ \E s \in {"uploaded", "extracted"} : Create(e, s)
         \/ \E s \in Status : Move(e, s)
    \/ \E old, new \in Evidence : Replace(old, new)

Spec == Init /\ [][Next]_vars
=============================================================================

------------------------- MODULE EvidenceLifecycle ---------------------------
(***************************************************************************)
(* Evidence records under concurrent requests (packages/db/src/evidence.ts *)
(* and the places that create evidence).  Each request is one READ         *)
(* COMMITTED transaction that reads the record, checks it, and later       *)
(* updates it by id: the update waits for the row lock but does not look   *)
(* at the status again.  The writes and the commit of a request are one    *)
(* step, as the row lock is held from the first of them to the last.       *)
(* X_Fault is the definition X with a plausible bug (see README.md).       *)
(***************************************************************************)
EXTENDS Integers

CONSTANTS
    Evidence, None,
    Client,    \* users with evidence.update, one request at a time each
    Verifier   \* those who hold evidence.verify as well

EvidenceAssumption == Verifier \subseteq Client /\ None \notin Evidence

VARIABLES
    status, version, supersedes,  \* the evidence rows
    verification,                 \* evidence_verification rows
    request,                      \* what each client's open transaction has read
    reviewed                      \* history: the records ever reviewed

vars == <<status, version, supersedes, verification, request, reviewed>>

Abstract == INSTANCE EvidenceStates
              WITH status <- status, version <- version, supersedes <- supersedes
Status == Abstract!Status
NextStates(s) == Abstract!NextStates(s)

Verdict == {"verified", "rejected"}
Verification == [evidence : Evidence, outcome : Verdict, by : Client]

NoRequest == [kind |-> "none"]
Requests ==
    {NoRequest}
      \cup [kind : {"transition"}, id : Evidence, from : Status, to : Status]
      \cup [kind : {"supersede"}, id : Evidence, from : Status, version : Nat]

Init ==
    /\ Abstract!Init
    /\ verification = {}
    /\ request = [c \in Client |-> NoRequest]
    /\ reviewed = {}

-----------------------------------------------------------------------------
(* requiredPermissionForTransition, checkTransition.                        *)
MayMove_NoPermission(c, to) == TRUE
MayMove(c, to) == to \in {"verified", "rejected", "expired"} => c \in Verifier
CheckTransition_AnyMove(c, from, to) == from # to /\ MayMove(c, to)
CheckTransition(c, from, to) ==
    /\ from # to
    /\ to \in NextStates(from)
    /\ MayMove(c, to)

(* EvidenceService.create and promoteEvidenceRef insert uploaded evidence,  *)
(* promoteCandidate extracted evidence.                                     *)
CreateEvidence(e) ==
    /\ \E s \in {"uploaded", "extracted"} : Abstract!Create(e, s)
    /\ UNCHANGED <<verification, request, reviewed>>

ReadForTransition(c, e, to) ==
    /\ request[c] = NoRequest
    /\ status[e] # "absent"
    /\ CheckTransition(c, status[e], to)
    /\ request' = [request EXCEPT ![c] =
                     [kind |-> "transition", id |-> e, from |-> status[e], to |-> to]]
    /\ UNCHANGED <<status, version, supersedes, verification, reviewed>>

Verdicts(c, e, to) ==
    IF to \in Verdict THEN {[evidence |-> e, outcome |-> to, by |-> c]} ELSE {}
TransitionEvidence(c) ==
    LET e == request[c].id
        to == request[c].to
    IN  /\ request[c].kind = "transition"
        /\ status' = [status EXCEPT ![e] = to]
        /\ reviewed' = reviewed \cup IF to = "reviewed" THEN {e} ELSE {}
        /\ verification' = verification \cup Verdicts(c, e, to)
        /\ request' = [request EXCEPT ![c] = NoRequest]
        /\ UNCHANGED <<version, supersedes>>

Replaceable_Any(s) == s # "absent"
Replaceable(s) == s \notin {"absent", "superseded"}
ReadForSupersede(c, e) ==
    /\ request[c] = NoRequest
    /\ Replaceable(status[e])
    /\ request' = [request EXCEPT ![c] =
                     [kind |-> "supersede", id |-> e, from |-> status[e],
                      version |-> version[e]]]
    /\ UNCHANGED <<status, version, supersedes, verification, reviewed>>

SupersedeEvidence(c, new) ==
    LET old == request[c].id
    IN  /\ request[c].kind = "supersede"
        /\ status[new] = "absent"
        /\ status' = [status EXCEPT ![new] = "uploaded", ![old] = "superseded"]
        /\ version' = [version EXCEPT ![new] = request[c].version + 1]
        /\ supersedes' = [supersedes EXCEPT ![new] = old]
        /\ request' = [request EXCEPT ![c] = NoRequest]
        /\ UNCHANGED <<verification, reviewed>>

(* The transaction rolls back: an error, a timeout, a lost connection.      *)
Abort(c) ==
    /\ request[c] # NoRequest
    /\ request' = [request EXCEPT ![c] = NoRequest]
    /\ UNCHANGED <<status, version, supersedes, verification, reviewed>>

Next ==
    \/ \E e \in Evidence : CreateEvidence(e)
    \/ \E c \in Client :
         \/ \E e \in Evidence :
              \/ \E to \in Status : ReadForTransition(c, e, to)
              \/ ReadForSupersede(c, e)
              \/ SupersedeEvidence(c, e)
         \/ TransitionEvidence(c)
         \/ Abort(c)

Spec == Init /\ [][Next]_vars

-----------------------------------------------------------------------------
(* Types of the rows and of what a transaction has read.                    *)
TypeOK ==
    /\ status \in [Evidence -> Status \cup {"absent"}]
    /\ version \in [Evidence -> Nat]
    /\ supersedes \in [Evidence -> Evidence \cup {None}]
    /\ verification \in SUBSET Verification
    /\ request \in [Client -> Requests]
    /\ reviewed \subseteq Evidence

(* However requests interleave, no record is verified, or expires, that     *)
(* was never reviewed.                                                      *)
VerifiedWasReviewed ==
    \A e \in Evidence :
       status[e] \in {"verified", "expired"} => e \in reviewed

(* A verdict is always backed by an evidence_verification row of a user who *)
(* holds evidence.verify, and an expired record by the row of its verdict.  *)
VerdictOnRecord ==
    \A e \in Evidence :
       LET outcome == IF status[e] = "expired" THEN "verified" ELSE status[e]
       IN  outcome \in Verdict =>
             \E v \in verification :
                v.evidence = e /\ v.outcome = outcome /\ v.by \in Verifier

(* With one request at a time the register does what EvidenceStates says.   *)
ImplementsStates == Abstract!Spec

(* However many requests interleave, the register departs from the abstract *)
(* lifecycle (a superseded record moves again, a record gets a second       *)
(* successor, a transition skips a state) in one way only: a request writes *)
(* a record whose status has changed since it read it.                      *)
Stale(c) ==
    \/ request[c].kind = "transition" /\ status[request[c].id] # request[c].from
    \/ /\ request[c].kind = "supersede"
       /\ status[request[c].id] = "superseded"
       /\ request[c].from # "superseded"
StaleWrite == \E c \in Client : Stale(c) /\ request'[c] = NoRequest
ImplementsStatesUnlessStale ==
    Abstract!Init /\ [][Abstract!Next \/ StaleWrite]_(Abstract!vars)
=============================================================================

---------------------------- MODULE IntakeProofs -----------------------------
(***************************************************************************)
(* Proofs about the Intake suite, for any number of clients and rows.      *)
(* Each part has an invariant of its own, in this order: the evidence      *)
(* register (ReviewInv, with VerdictInv and StaleInv for its other         *)
(* theorems), the documents (DocumentInv), the extraction (ExtractionInv), *)
(* the suppliers (SupplierInv), the imports (ImportInv).  Their            *)
(* conjunction is the suite's, and the theorems at the end follow from it. *)
(***************************************************************************)
EXTENDS Intake, FiniteSetTheorems, SequenceTheorems, TLAPS

intakeVars == <<focus, documentVars, evidenceVars, extractionVars, supplierVars, importVars>>

(* A step of the suite is a step, or a stutter, of each of its parts.       *)
LEMMA Parts ==
    [Next]_intakeVars =>
      /\ [D!Next]_documentVars /\ [V!Next]_evidenceVars /\ [X!Next]_extractionVars
      /\ [P!Next]_supplierVars /\ [I!Next]_importVars
  BY DEF Next, intakeVars, P!Next

-----------------------------------------------------------------------------
(* The evidence register.                                                   *)
USE DEF V!Status, V!Abstract!Status

(* What a transaction has read stays true of the record's past, although    *)
(* it need not be true of the record any more.                              *)
Past(e, s) ==
    /\ s = "reviewed" => e \in reviewed
    /\ s \in {"verified", "expired"} => e \in reviewed
ReadsArePast ==
    \A c \in Client :
       moving[c].kind = "transition" =>
         /\ status[moving[c].id] # "absent"
         /\ moving[c].to \in V!NextStates(moving[c].from)
         /\ Past(moving[c].id, moving[c].from)
StatesArePast == \A e \in Record : Past(e, status[e])
ReviewInv == V!TypeOK /\ ReadsArePast /\ StatesArePast

(* Verified is reached from reviewed alone, expired from verified alone.    *)
LEMMA MovesKeepReview ==
    ASSUME NEW from \in V!Status, NEW to \in V!NextStates(from)
    PROVE  /\ to \in V!Status
           /\ to = "verified" => from = "reviewed"
           /\ to = "expired" => from = "verified"
  BY DEF V!NextStates, V!Abstract!NextStates

(* The tables hold values of their types in every reachable state.          *)
LEMMA EvidenceTypeInit == V!Init => V!TypeOK
  BY DEF V!Init, V!TypeOK, V!Abstract!Init, V!Requests, V!NoRequest

(* Every step keeps the types.                                              *)
LEMMA EvidenceTypeStep == V!TypeOK /\ [V!Next]_evidenceVars => V!TypeOK'
<1> SUFFICES ASSUME V!TypeOK, [V!Next]_evidenceVars PROVE V!TypeOK'
  OBVIOUS
<1> USE DEF V!TypeOK
<1>1. ASSUME NEW e \in Record, V!CreateEvidence(e) PROVE V!TypeOK'
  BY <1>1 DEF V!CreateEvidence, V!Abstract!Create
<1>2. ASSUME NEW c \in Client, NEW e \in Record, NEW to \in V!Status,
             V!ReadForTransition(c, e, to)
      PROVE  V!TypeOK'
  <2>1. [kind |-> "transition", id |-> e, from |-> status[e], to |-> to] \in V!Requests
    BY <1>2 DEF V!ReadForTransition, V!Requests
  <2> QED BY <2>1, <1>2 DEF V!ReadForTransition
<1>3. ASSUME NEW c \in Client, NEW e \in Record, V!ReadForSupersede(c, e)
      PROVE  V!TypeOK'
  <2>1. [kind |-> "supersede", id |-> e, from |-> status[e],
         version |-> version[e]] \in V!Requests
    BY <1>3 DEF V!ReadForSupersede, V!Replaceable, V!Requests
  <2> QED BY <2>1, <1>3 DEF V!ReadForSupersede
<1>4. ASSUME NEW c \in Client, NEW e \in Record, V!SupersedeEvidence(c, e)
      PROVE  V!TypeOK'
  <2>1. moving[c].id \in Record /\ moving[c].version \in Nat
    BY <1>4 DEF V!SupersedeEvidence, V!Requests, V!NoRequest
  <2> QED BY <2>1, <1>4 DEF V!SupersedeEvidence, V!Requests
<1>5. ASSUME NEW c \in Client, V!TransitionEvidence(c) PROVE V!TypeOK'
  <2>1. moving[c].id \in Record /\ moving[c].to \in V!Status
    BY <1>5 DEF V!TransitionEvidence, V!Requests, V!NoRequest
  <2>2. V!Verdicts(c, moving[c].id, moving[c].to) \subseteq V!Verification
    BY <2>1 DEF V!Verdicts, V!Verification, V!Verdict
  <2> QED BY <2>1, <2>2, <1>5 DEF V!TransitionEvidence, V!Requests
<1>6. ASSUME NEW c \in Client, V!Abort(c) PROVE V!TypeOK'
  BY <1>6 DEF V!Abort, V!Requests
<1>7. CASE UNCHANGED evidenceVars
  BY <1>7 DEF evidenceVars
<1> QED BY <1>1, <1>2, <1>3, <1>4, <1>5, <1>6, <1>7 DEF V!Next

(* Every step keeps what was read, and what is, consistent with the past.   *)
LEMMA ReviewStep == ReviewInv /\ [V!Next]_evidenceVars => ReviewInv'
<1> SUFFICES ASSUME ReviewInv, [V!Next]_evidenceVars PROVE ReviewInv'
  OBVIOUS
<1>0. V!TypeOK'
  BY EvidenceTypeStep DEF ReviewInv
<1> SUFFICES ReadsArePast' /\ StatesArePast'
  BY <1>0 DEF ReviewInv
<1> USE DEF ReviewInv, V!TypeOK
<1>0a. \A c \in Client : moving[c].kind = "transition" =>
           moving[c].id \in Record /\ moving[c].from \in V!Status
  BY DEF V!Requests, V!NoRequest
<1>1. ASSUME NEW e \in Record, V!CreateEvidence(e)
      PROVE  ReadsArePast' /\ StatesArePast'
  <2>1. PICK s \in {"uploaded", "extracted"} :
          /\ status[e] = "absent"
          /\ status' = [status EXCEPT ![e] = s]
          /\ UNCHANGED <<moving, reviewed>>
    BY <1>1 DEF V!CreateEvidence, V!Abstract!Create
  <2>2. StatesArePast'
    BY <2>1 DEF StatesArePast, Past
  <2>3. ReadsArePast'
    BY <2>1, <1>0a DEF ReadsArePast, Past, V!NextStates
  <2> QED BY <2>2, <2>3
<1>2. ASSUME NEW c \in Client, NEW e \in Record, NEW to \in V!Status,
             V!ReadForTransition(c, e, to)
      PROVE  ReadsArePast' /\ StatesArePast'
  <2>1. /\ status[e] # "absent"
        /\ to \in V!NextStates(status[e])
        /\ moving' = [moving EXCEPT ![c] =
              [kind |-> "transition", id |-> e, from |-> status[e], to |-> to]]
        /\ UNCHANGED <<status, reviewed>>
    BY <1>2 DEF V!ReadForTransition, V!CheckTransition
  <2>2. StatesArePast'
    BY <2>1 DEF StatesArePast, Past
  <2>3. ReadsArePast'
    BY <2>1, <1>0a DEF ReadsArePast, StatesArePast, Past, V!NextStates
  <2> QED BY <2>2, <2>3
<1>3. ASSUME NEW c \in Client, NEW e \in Record, V!ReadForSupersede(c, e)
      PROVE  ReadsArePast' /\ StatesArePast'
  BY <1>3, <1>0a DEF V!ReadForSupersede, ReadsArePast, StatesArePast, Past, V!NextStates
<1>4. ASSUME NEW c \in Client, NEW e \in Record, V!SupersedeEvidence(c, e)
      PROVE  ReadsArePast' /\ StatesArePast'
  <2>1. moving[c].id \in Record
    BY <1>4 DEF V!SupersedeEvidence, V!Requests, V!NoRequest
  <2> DEFINE old == moving[c].id
  <2>2. /\ status[e] = "absent"
        /\ status' = [status EXCEPT ![e] = "uploaded", ![old] = "superseded"]
        /\ UNCHANGED reviewed
        /\ moving' = [moving EXCEPT ![c] = V!NoRequest]
    BY <1>4 DEF V!SupersedeEvidence
  <2> HIDE DEF old
  <2>3. StatesArePast'
    BY <2>1, <2>2 DEF StatesArePast, Past, old
  <2>4. ReadsArePast'
    BY <2>1, <2>2, <1>0a DEF ReadsArePast, Past, V!NextStates, V!NoRequest, old
  <2> QED BY <2>3, <2>4
<1>5. ASSUME NEW c \in Client, V!TransitionEvidence(c)
      PROVE  ReadsArePast' /\ StatesArePast'
  <2> DEFINE e == moving[c].id
             to == moving[c].to
  <2>1. /\ e \in Record /\ moving[c].from \in V!Status
        /\ to \in V!NextStates(moving[c].from)
        /\ Past(e, moving[c].from)
    BY <1>5, <1>0a DEF V!TransitionEvidence, ReadsArePast
  <2>2. /\ status' = [status EXCEPT ![e] = to]
        /\ reviewed' = reviewed \cup IF to = "reviewed" THEN {e} ELSE {}
        /\ moving' = [moving EXCEPT ![c] = V!NoRequest]
    BY <1>5 DEF V!TransitionEvidence
  <2> HIDE DEF e, to
  <2>3. /\ to \in V!Status
        /\ to = "verified" => moving[c].from = "reviewed"
        /\ to = "expired" => moving[c].from = "verified"
    BY <2>1, MovesKeepReview
  <2>4. StatesArePast'
    BY <2>1, <2>2, <2>3 DEF StatesArePast, Past
  <2>5. ReadsArePast'
    BY <2>1, <2>2, <2>3, <1>0a DEF ReadsArePast, Past, V!NextStates, V!NoRequest
  <2> QED BY <2>4, <2>5
<1>6. ASSUME NEW c \in Client, V!Abort(c)
      PROVE  ReadsArePast' /\ StatesArePast'
  BY <1>6, <1>0a DEF V!Abort, ReadsArePast, StatesArePast, Past, V!NextStates, V!NoRequest
<1>7. CASE UNCHANGED evidenceVars
  BY <1>7 DEF evidenceVars, ReadsArePast, StatesArePast, Past, V!NextStates
<1> QED BY <1>1, <1>2, <1>3, <1>4, <1>5, <1>6, <1>7 DEF V!Next

(* No record is verified at first.                                          *)
LEMMA ReviewInit == V!Init => ReviewInv
  BY EvidenceTypeInit DEF V!Init, V!Abstract!Init, ReviewInv, ReadsArePast, StatesArePast,
                  Past, V!NoRequest, V!TypeOK

(* However many clients interleave their transactions, a record that is     *)
(* verified or expired has been reviewed.                                   *)
THEOREM NeverVerifiedUnreviewed == Spec => []VerifiedWasReviewed
<1>1. ReviewInv => VerifiedWasReviewed
  BY DEF ReviewInv, StatesArePast, Past, VerifiedWasReviewed, V!VerifiedWasReviewed
<1>2. Init => ReviewInv
  BY ReviewInit DEF Init
<1> QED BY <1>1, <1>2, ReviewStep, Parts, PTL DEF Spec, intakeVars

-----------------------------------------------------------------------------
(* Verdicts.  The permission is checked when the record is read, and the row *)
(* that backed the status then is never removed: that is why a write that is *)
(* out of date still leaves a verdict with its row.                          *)
BackedBy(rows, e, s) ==
    LET outcome == IF s = "expired" THEN "verified" ELSE s
    IN  outcome \in V!Verdict =>
          \E v \in rows :
             v.evidence = e /\ v.outcome = outcome /\ v.by \in Verifier
ReadsBacked ==
    \A c \in Client :
       moving[c].kind = "transition" =>
         /\ V!MayMove(c, moving[c].to)
         /\ BackedBy(verification, moving[c].id, moving[c].from)
StatesBacked == \A e \in Record : BackedBy(verification, e, status[e])
VerdictInv == ReviewInv /\ ReadsBacked /\ StatesBacked

(* Every step keeps the verdicts, and those that were read, on record.      *)
LEMMA VerdictStep == VerdictInv /\ [V!Next]_evidenceVars => VerdictInv'
<1> SUFFICES ASSUME VerdictInv, [V!Next]_evidenceVars PROVE ReadsBacked' /\ StatesBacked'
  BY ReviewStep DEF VerdictInv
<1>0. /\ V!TypeOK /\ ReadsArePast /\ ReadsBacked /\ StatesBacked
      /\ moving \in [Client -> V!Requests] /\ status \in [Record -> V!Status \cup {"absent"}]
      /\ \A c \in Client : moving[c].kind = "transition" =>
           moving[c].id \in Record /\ moving[c].from \in V!Status /\ moving[c].to \in V!Status
  BY DEF VerdictInv, ReviewInv, V!TypeOK, V!Requests, V!NoRequest
<1>1. ASSUME verification \subseteq verification',
             \A e \in Record : status'[e] = status[e] \/ BackedBy(verification', e, status'[e]),
             \A c \in Client : \/ moving'[c] = moving[c] \/ moving'[c].kind # "transition"
                               \/ /\ V!MayMove(c, moving'[c].to)
                                  /\ moving'[c].id \in Record
                                  /\ moving'[c].from = status[moving'[c].id]
      PROVE  ReadsBacked' /\ StatesBacked'
  <2>1. ASSUME NEW e \in Record PROVE BackedBy(verification', e, status[e]) \/ status'[e] # status[e]
    BY <1>0, <1>1 DEF StatesBacked, BackedBy
  <2>2. StatesBacked'
    <3> SUFFICES ASSUME NEW e \in Record, status'[e] = status[e] PROVE BackedBy(verification', e, status[e])
      BY <1>1 DEF StatesBacked, BackedBy
    <3> QED BY <2>1
  <2>3. ReadsBacked'
    <3> SUFFICES ASSUME NEW c \in Client, moving'[c].kind = "transition"
                 PROVE  V!MayMove(c, moving'[c].to) /\ BackedBy(verification', moving'[c].id, moving'[c].from)
      BY DEF ReadsBacked, V!MayMove
    <3>1. CASE moving'[c] = moving[c]
      BY <1>0, <1>1, <3>1 DEF ReadsBacked, BackedBy, V!MayMove
    <3>2. CASE moving'[c] # moving[c]
      BY <1>0, <1>1, <3>2 DEF StatesBacked, BackedBy, V!MayMove
    <3> QED BY <3>1, <3>2
  <2> QED BY <2>2, <2>3
<1>2. ASSUME NEW e \in Record, V!CreateEvidence(e) PROVE ReadsBacked' /\ StatesBacked'
  <2>1. /\ UNCHANGED <<verification, moving>>
        /\ \E s \in {"uploaded", "extracted"} : status' = [status EXCEPT ![e] = s]
    BY <1>2 DEF V!CreateEvidence, V!Abstract!Create
  <2>2. \A x \in Record : status'[x] = status[x] \/ BackedBy(verification', x, status'[x])
    BY <1>0, <2>1 DEF BackedBy, V!Verdict
  <2> QED BY <1>1, <2>1, <2>2
<1>3. ASSUME NEW c \in Client, NEW e \in Record, NEW to \in V!Status,
             V!ReadForTransition(c, e, to)
      PROVE  ReadsBacked' /\ StatesBacked'
  <2>1. /\ UNCHANGED <<status, verification>> /\ V!MayMove(c, to)
        /\ moving' = [moving EXCEPT ![c] =
              [kind |-> "transition", id |-> e, from |-> status[e], to |-> to]]
    BY <1>3 DEF V!ReadForTransition, V!CheckTransition
  <2> QED BY <1>0, <1>1, <2>1
<1>4. ASSUME NEW c \in Client, NEW e \in Record, V!ReadForSupersede(c, e)
      PROVE  ReadsBacked' /\ StatesBacked'
  <2>1. /\ UNCHANGED <<status, verification>>
        /\ \A d \in Client : moving'[d] = moving[d] \/ moving'[d].kind = "supersede"
    BY <1>0, <1>4 DEF V!ReadForSupersede
  <2> QED BY <1>1, <2>1
<1>5. ASSUME NEW c \in Client, NEW new \in Record, V!SupersedeEvidence(c, new)
      PROVE  ReadsBacked' /\ StatesBacked'
  <2>1. /\ UNCHANGED verification
        /\ \A d \in Client : moving'[d] = moving[d] \/ moving'[d].kind = "none"
        /\ \A x \in Record : status'[x] = status[x] \/ status'[x] \in {"uploaded", "superseded"}
    BY <1>0, <1>5 DEF V!SupersedeEvidence, V!NoRequest
  <2>2. \A x \in Record : status'[x] = status[x] \/ BackedBy(verification', x, status'[x])
    BY <2>1 DEF BackedBy, V!Verdict
  <2> QED BY <1>1, <2>1, <2>2
<1>6. ASSUME NEW c \in Client, V!TransitionEvidence(c) PROVE ReadsBacked' /\ StatesBacked'
  <2> DEFINE e == moving[c].id
             to == moving[c].to
             from == moving[c].from
  <2>1. /\ e \in Record /\ from \in V!Status /\ to \in V!NextStates(from)
        /\ V!MayMove(c, to) /\ BackedBy(verification, e, from)
    BY <1>0, <1>6 DEF V!TransitionEvidence, ReadsArePast, ReadsBacked
  <2>2. /\ status' = [status EXCEPT ![e] = to]
        /\ verification' = verification \cup V!Verdicts(c, e, to)
        /\ moving' = [moving EXCEPT ![c] = V!NoRequest]
    BY <1>6 DEF V!TransitionEvidence
  <2> HIDE DEF e, to, from
  <2>3. BackedBy(verification', e, to)
    <3>1. CASE to \in V!Verdict
      <4> DEFINE v == [evidence |-> e, outcome |-> to, by |-> c]
      <4>1. v \in verification' /\ c \in Verifier
        BY <2>1, <2>2, <3>1 DEF V!Verdicts, V!MayMove, V!Verdict
      <4>2. v.evidence = e /\ v.outcome = to /\ v.by = c
        OBVIOUS
      <4> HIDE DEF v
      <4> QED BY <3>1, <4>1, <4>2 DEF BackedBy, V!Verdict
    <3>2. CASE to = "expired"
      <4>1. from = "verified"
        BY <2>1, <3>2, MovesKeepReview
      <4> QED BY <2>1, <2>2, <3>2, <4>1 DEF BackedBy, V!Verdict
    <3>3. CASE to \notin V!Verdict \cup {"expired"}
      BY <3>3 DEF BackedBy
    <3> QED BY <3>1, <3>2, <3>3
  <2>4. \A x \in Record : status'[x] = status[x] \/ BackedBy(verification', x, status'[x])
    BY <1>0, <2>1, <2>2, <2>3 DEF BackedBy
  <2>5. \A d \in Client : moving'[d] = moving[d] \/ moving'[d].kind = "none"
    BY <1>0, <2>2 DEF V!NoRequest
  <2> QED BY <1>1, <2>2, <2>4, <2>5
<1>7. ASSUME NEW c \in Client, V!Abort(c) PROVE ReadsBacked' /\ StatesBacked'
  <2>1. /\ UNCHANGED <<status, verification>>
        /\ \A d \in Client : moving'[d] = moving[d] \/ moving'[d].kind = "none"
    BY <1>0, <1>7 DEF V!Abort, V!NoRequest
  <2> QED BY <1>1, <2>1
<1>8. CASE UNCHANGED evidenceVars
  BY <1>1, <1>8 DEF evidenceVars
<1> QED BY <1>2, <1>3, <1>4, <1>5, <1>6, <1>7, <1>8 DEF V!Next

(* However transactions interleave, out of date or not, a verified, rejected *)
(* or expired record has the row of its verdict, by someone who may give it. *)
THEOREM VerdictsAreOnRecord == Spec => []VerdictOnRecord
<1>1. Init => VerdictInv
  BY ReviewInit DEF Init, V!Init, V!Abstract!Init, VerdictInv, ReadsBacked, StatesBacked, BackedBy,
                    V!Verdict, V!NoRequest
<1>2. VerdictInv => VerdictOnRecord
  BY DEF VerdictInv, StatesBacked, BackedBy, VerdictOnRecord, V!VerdictOnRecord
<1> QED BY <1>1, <1>2, VerdictStep, Parts, PTL DEF Spec, intakeVars

-----------------------------------------------------------------------------
(* What an open supersede request has read: the record exists, nothing had  *)
(* replaced it, and a record never changes its version.                     *)
VersionsAreRead ==
    \A c \in Client :
       moving[c].kind = "supersede" =>
         /\ status[moving[c].id] # "absent"
         /\ moving[c].from # "superseded"
         /\ version[moving[c].id] = moving[c].version
StaleInv == ReviewInv /\ VersionsAreRead

(* Every step keeps the versions that were read.                            *)
LEMMA VersionsStep == StaleInv /\ [V!Next]_evidenceVars => VersionsAreRead'
<1> SUFFICES ASSUME StaleInv, [V!Next]_evidenceVars PROVE VersionsAreRead'
  OBVIOUS
<1> USE DEF StaleInv, ReviewInv, V!TypeOK
<1>0. \A c \in Client : moving[c].kind = "supersede" => moving[c].id \in Record
  BY DEF V!Requests, V!NoRequest
<1>1. ASSUME NEW e \in Record, V!CreateEvidence(e) PROVE VersionsAreRead'
  BY <1>1, <1>0 DEF V!CreateEvidence, V!Abstract!Create, VersionsAreRead
<1>2. ASSUME NEW c \in Client, NEW e \in Record, NEW to \in V!Status,
             V!ReadForTransition(c, e, to)
      PROVE  VersionsAreRead'
  BY <1>2, <1>0 DEF V!ReadForTransition, VersionsAreRead
<1>3. ASSUME NEW c \in Client, NEW e \in Record, V!ReadForSupersede(c, e)
      PROVE  VersionsAreRead'
  BY <1>3, <1>0 DEF V!ReadForSupersede, V!Replaceable, VersionsAreRead
<1>4. ASSUME NEW c \in Client, NEW new \in Record, V!SupersedeEvidence(c, new)
      PROVE  VersionsAreRead'
  <2>1. moving[c].id \in Record
    BY <1>4, <1>0 DEF V!SupersedeEvidence
  <2> QED BY <2>1, <1>4, <1>0 DEF V!SupersedeEvidence, VersionsAreRead, V!NoRequest
<1>5. ASSUME NEW c \in Client, V!TransitionEvidence(c) PROVE VersionsAreRead'
  <2>1. moving[c].id \in Record /\ moving[c].to \in V!Status
    BY <1>5 DEF V!TransitionEvidence, V!Requests, V!NoRequest
  <2> QED BY <2>1, <1>5, <1>0 DEF V!TransitionEvidence, VersionsAreRead, V!NoRequest
<1>6. ASSUME NEW c \in Client, V!Abort(c) PROVE VersionsAreRead'
  BY <1>6, <1>0 DEF V!Abort, VersionsAreRead, V!NoRequest
<1>7. CASE UNCHANGED evidenceVars
  BY <1>7 DEF evidenceVars, VersionsAreRead
<1> QED BY <1>1, <1>2, <1>3, <1>4, <1>5, <1>6, <1>7 DEF V!Next

(* A step whose writer is not stale is a step of EvidenceStates.            *)
LEMMA AbstractOrStale ==
    StaleInv /\ [V!Next]_evidenceVars => [V!Abstract!Next \/ V!StaleWrite]_(V!Abstract!vars)
<1> DEFINE Goal == [V!Abstract!Next \/ V!StaleWrite]_(V!Abstract!vars)
<1> SUFFICES ASSUME StaleInv, [V!Next]_evidenceVars PROVE Goal
  OBVIOUS
<1> USE DEF StaleInv, ReviewInv, V!TypeOK
<1>1. ASSUME NEW e \in Record, V!CreateEvidence(e) PROVE Goal
  BY <1>1 DEF V!CreateEvidence, V!Abstract!Next
<1>2. ASSUME NEW c \in Client, NEW e \in Record, NEW to \in V!Status,
             V!ReadForTransition(c, e, to)
      PROVE  Goal
  BY <1>2 DEF V!ReadForTransition, V!Abstract!vars
<1>3. ASSUME NEW c \in Client, NEW e \in Record, V!ReadForSupersede(c, e) PROVE Goal
  BY <1>3 DEF V!ReadForSupersede, V!Abstract!vars
<1>4. ASSUME NEW c \in Client, NEW new \in Record, V!SupersedeEvidence(c, new)
      PROVE  Goal
  <2> DEFINE old == moving[c].id
  <2>1. old \in Record
    BY <1>4 DEF V!SupersedeEvidence, V!Requests, V!NoRequest
  <2>2. CASE status[old] = "superseded"
    <3>1. V!Stale(c) /\ moving'[c] = V!NoRequest
      BY <1>4, <2>2 DEF V!SupersedeEvidence, V!Stale, VersionsAreRead
    <3> QED BY <3>1 DEF V!StaleWrite
  <2>3. CASE status[old] # "superseded"
    <3>1. status[old] # "absent" /\ version[old] = moving[c].version
      BY <1>4 DEF V!SupersedeEvidence, VersionsAreRead
    <3>2. V!Abstract!Replace(old, new)
      BY <1>4, <2>1, <2>3, <3>1 DEF V!SupersedeEvidence, V!Abstract!Replace
    <3> QED BY <2>1, <3>2 DEF V!Abstract!Next
  <2> QED BY <2>2, <2>3
<1>5. ASSUME NEW c \in Client, V!TransitionEvidence(c) PROVE Goal
  <2> DEFINE e == moving[c].id
             to == moving[c].to
  <2>1. e \in Record /\ to \in V!Status
    BY <1>5 DEF V!TransitionEvidence, V!Requests, V!NoRequest
  <2>2. CASE status[e] # moving[c].from
    <3>1. V!Stale(c) /\ moving'[c] = V!NoRequest
      BY <1>5, <2>2 DEF V!TransitionEvidence, V!Stale
    <3> QED BY <3>1 DEF V!StaleWrite
  <2>3. CASE status[e] = moving[c].from
    <3>1. to \in V!NextStates(status[e])
      BY <1>5, <2>3 DEF V!TransitionEvidence, ReadsArePast
    <3>2. V!Abstract!Move(e, to)
      BY <1>5, <2>1, <3>1 DEF V!TransitionEvidence, V!Abstract!Move, V!NextStates
    <3> QED BY <2>1, <3>2 DEF V!Abstract!Next
  <2> QED BY <2>2, <2>3
<1>6. ASSUME NEW c \in Client, V!Abort(c) PROVE Goal
  BY <1>6 DEF V!Abort, V!Abstract!vars
<1>7. CASE UNCHANGED evidenceVars
  BY <1>7 DEF evidenceVars, V!Abstract!vars
<1> QED BY <1>1, <1>2, <1>3, <1>4, <1>5, <1>6, <1>7 DEF V!Next

(* For any number of clients, every step of the register is a step of       *)
(* EvidenceStates, a stutter, or a write of a record that has changed since *)
(* its transaction read it.                                                 *)
THEOREM RegisterImplementsStatesUnlessStale == Spec => ImplementsStatesUnlessStale
<1>1. Init => StaleInv /\ V!Abstract!Init
  BY ReviewInit DEF Init, V!Init, StaleInv, VersionsAreRead, V!NoRequest
<1>2. StaleInv /\ [V!Next]_evidenceVars => StaleInv'
  BY ReviewStep, VersionsStep DEF StaleInv
<1> QED BY <1>1, <1>2, AbstractOrStale, Parts, PTL
       DEF Spec, intakeVars, ImplementsStatesUnlessStale, V!ImplementsStatesUnlessStale

(* With one client nothing changes between a request's read and its write:  *)
(* what the open request has read is still what the row holds.              *)
OneClient == \A c, d \in Client : c = d
Fresh ==
    \A c \in Client :
       /\ moving[c].kind = "transition" =>
            /\ status[moving[c].id] = moving[c].from
            /\ moving[c].to \in V!NextStates(moving[c].from)
       /\ moving[c].kind = "supersede" =>
            /\ status[moving[c].id] \notin {"absent", "superseded"}
            /\ version[moving[c].id] = moving[c].version

(* With one client what was read stays true, and a step is an abstract one. *)
LEMMA FreshStep ==
    ASSUME OneClient, V!TypeOK, Fresh, [V!Next]_evidenceVars
    PROVE  Fresh' /\ [V!Abstract!Next]_(V!Abstract!vars)
<1> USE DEF V!TypeOK
<1> DEFINE Goal == Fresh' /\ [V!Abstract!Next]_(V!Abstract!vars)
<1>0. \A c \in Client : /\ moving[c].kind \in {"transition", "supersede"} =>
                             moving[c].id \in Record
                        /\ moving[c].kind = "transition" =>
                             moving[c].from \in V!Status /\ moving[c].to \in V!Status
  BY DEF V!Requests, V!NoRequest
<1>1. ASSUME NEW e \in Record, V!CreateEvidence(e) PROVE Goal
  <2>1. PICK s \in {"uploaded", "extracted"} : V!Abstract!Create(e, s)
    BY <1>1 DEF V!CreateEvidence
  <2>2. V!Abstract!Next
    BY <2>1 DEF V!Abstract!Next
  <2>3. Fresh'
    <3> SUFFICES ASSUME NEW c \in Client
                 PROVE  /\ (moving[c].kind = "transition" =>
                               /\ status[moving[c].id] = moving[c].from
                               /\ moving[c].to \in V!NextStates(moving[c].from))'
                        /\ (moving[c].kind = "supersede" =>
                               /\ status[moving[c].id] \notin {"absent", "superseded"}
                               /\ version[moving[c].id] = moving[c].version)'
      BY DEF Fresh
    <3>1. /\ status[e] = "absent"
          /\ status' = [status EXCEPT ![e] = s]
          /\ version' = [version EXCEPT ![e] = 1]
          /\ UNCHANGED moving
      BY <1>1, <2>1 DEF V!CreateEvidence, V!Abstract!Create
    <3> QED BY <3>1, <1>0 DEF Fresh, V!NextStates
  <2> QED BY <2>2, <2>3
<1>2. ASSUME NEW c \in Client, NEW e \in Record, NEW to \in V!Status,
             V!ReadForTransition(c, e, to)
      PROVE  Goal
  <2>1. Client = {c}
    BY DEF OneClient
  <2>2. /\ to \in V!NextStates(status[e])
        /\ moving' = [moving EXCEPT ![c] =
              [kind |-> "transition", id |-> e, from |-> status[e], to |-> to]]
        /\ UNCHANGED <<status, version, supersedes>>
    BY <1>2 DEF V!ReadForTransition, V!CheckTransition
  <2>3. Fresh'
    BY <2>1, <2>2 DEF Fresh, V!NextStates
  <2> QED BY <2>2, <2>3 DEF V!Abstract!vars
<1>3. ASSUME NEW c \in Client, NEW e \in Record, V!ReadForSupersede(c, e)
      PROVE  Goal
  <2>1. Client = {c}
    BY DEF OneClient
  <2>2. /\ status[e] \notin {"absent", "superseded"}
        /\ moving' = [moving EXCEPT ![c] =
              [kind |-> "supersede", id |-> e, from |-> status[e],
               version |-> version[e]]]
        /\ UNCHANGED <<status, version, supersedes>>
    BY <1>3 DEF V!ReadForSupersede, V!Replaceable
  <2>3. Fresh'
    BY <2>1, <2>2 DEF Fresh, V!NextStates
  <2> QED BY <2>2, <2>3 DEF V!Abstract!vars
<1>4. ASSUME NEW c \in Client, NEW new \in Record, V!SupersedeEvidence(c, new)
      PROVE  Goal
  <2>1. Client = {c}
    BY DEF OneClient
  <2> DEFINE old == moving[c].id
  <2>2. /\ old \in Record
        /\ status[old] \notin {"absent", "superseded"}
        /\ version[old] = moving[c].version
    BY <1>4, <1>0 DEF V!SupersedeEvidence, Fresh
  <2>3. V!Abstract!Replace(old, new)
    BY <1>4, <2>2 DEF V!SupersedeEvidence, V!Abstract!Replace
  <2>4. V!Abstract!Next
    BY <2>2, <2>3 DEF V!Abstract!Next
  <2>5. moving'[c] = V!NoRequest
    BY <1>4 DEF V!SupersedeEvidence
  <2>6. Fresh'
    BY <2>1, <2>5 DEF Fresh, V!NoRequest
  <2> QED BY <2>4, <2>6
<1>5. ASSUME NEW c \in Client, V!TransitionEvidence(c) PROVE Goal
  <2>1. Client = {c}
    BY DEF OneClient
  <2> DEFINE e == moving[c].id
             to == moving[c].to
  <2>2. /\ e \in Record
        /\ to \in V!NextStates(status[e])
        /\ to \in V!Status
    BY <1>5, <1>0 DEF V!TransitionEvidence, Fresh
  <2>3. V!Abstract!Move(e, to)
    BY <1>5, <2>2 DEF V!TransitionEvidence, V!Abstract!Move, V!NextStates
  <2>4. V!Abstract!Next
    BY <2>2, <2>3 DEF V!Abstract!Next
  <2>5. moving'[c] = V!NoRequest
    BY <1>5 DEF V!TransitionEvidence
  <2>6. Fresh'
    BY <2>1, <2>5 DEF Fresh, V!NoRequest
  <2> QED BY <2>4, <2>6
<1>6. ASSUME NEW c \in Client, V!Abort(c) PROVE Goal
  <2>1. Client = {c}
    BY DEF OneClient
  <2>2. moving'[c] = V!NoRequest /\ UNCHANGED <<status, version, supersedes>>
    BY <1>6 DEF V!Abort
  <2>3. Fresh'
    BY <2>1, <2>2 DEF Fresh, V!NoRequest
  <2> QED BY <2>2, <2>3 DEF V!Abstract!vars
<1>7. CASE UNCHANGED evidenceVars
  BY <1>7 DEF evidenceVars, Fresh, V!NextStates, V!Abstract!vars
<1> QED BY <1>1, <1>2, <1>3, <1>4, <1>5, <1>6, <1>7 DEF V!Next

(* One client at a time, the evidence register implements EvidenceStates.   *)
THEOREM SerialRegisterImplementsStates ==
    ASSUME OneClient PROVE Spec => V!ImplementsStates
<1>1. Init => V!Abstract!Init /\ V!TypeOK /\ Fresh
  BY EvidenceTypeInit DEF Init, V!Init, Fresh, V!NoRequest
<1>2. V!TypeOK /\ Fresh /\ [V!Next]_evidenceVars => Fresh' /\ [V!Abstract!Next]_(V!Abstract!vars)
  BY FreshStep
<1> QED BY <1>1, <1>2, EvidenceTypeStep, Parts, PTL
       DEF Spec, intakeVars, V!Abstract!Spec, V!ImplementsStates
-----------------------------------------------------------------------------
(* Documents.  Whatever two requests do to a file at a time puts the file   *)
(* among those that are raced; of any other file one request at most is at  *)
(* work, and what its check has found stays true until it commits.  An      *)
(* object of which another document or upload depends is taken only as      *)
(* `taken' records.                                                         *)
DocRequest ==
    {D!NoRequest}
      \cup [step : {"put", "insert"}, file : File]
      \cup [step : {"unstore", "delete"}, id : Document, file : File]
      \cup [step : {"link"}, evidence : Evidence, id : Document, file : File]
Busy(c) == request[c] # D!NoRequest
Uploads(c) == request[c].step \in {"put", "insert"}
Removes(c) == request[c].step \in {"unstore", "delete"}
Named(c) == request[c].step \in {"unstore", "delete", "link"}
DocTypes == D!TypeOK /\ request \in [Client -> DocRequest]
IdsAreUsed ==
    /\ \A d \in Document : doc[d] # None => d \in used
    /\ \A c \in Client : Named(c) =>
         /\ request[c].id \in used /\ doc[request[c].id] \in {request[c].file, None}
         /\ request[c].file \notin raced => doc[request[c].id] = request[c].file
AloneUnlessRaced ==
    \A c, o \in Client :
       c # o /\ Busy(c) /\ Busy(o) /\ request[c].file = request[o].file => request[c].file \in raced
FilesAreNew ==
    \A c \in Client : Uploads(c) /\ request[c].file \notin raced =>
       \A d \in Document : doc[d] # request[c].file
InsertsHaveObjects ==
    \A c \in Client : request[c].step = "insert" /\ KeyOf[request[c].file] \notin taken =>
       KeyOf[request[c].file] \in object
ObjectsAreThere ==
    \A d \in Document :
       doc[d] # None /\ d \notin torn /\ KeyOf[doc[d]] \notin taken
       /\ (\A c \in Client : request[c].step = "delete" => request[c].id # d)
         => KeyOf[doc[d]] \in object
RemovedAreUnused ==
    \A c \in Client, e \in Evidence :
       Removes(c) /\ linked[e] = request[c].id => promised[e] \in raced
DocumentInv ==
    /\ DocTypes /\ IdsAreUsed /\ AloneUnlessRaced /\ FilesAreNew /\ InsertsHaveObjects
    /\ ObjectsAreThere /\ RemovedAreUnused
    /\ D!NoDanglingReference /\ D!OneDocumentPerFile /\ D!EvidenceKeepsDocument

(* Nothing is stored and nobody at work at first.                           *)
LEMMA DocumentInit == D!Init => DocumentInv
  BY IntakeAssumption DEF D!Init, DocumentInv, DocTypes, D!TypeOK, DocRequest, D!NoRequest, IdsAreUsed,
     Named, AloneUnlessRaced, Busy, FilesAreNew, Uploads, InsertsHaveObjects, ObjectsAreThere,
     RemovedAreUnused, Removes, D!NoDanglingReference, D!OneDocumentPerFile, D!Present, D!EvidenceKeepsDocument,
     D!DocumentAssumption

(* What a request is, by its step.                                          *)
LEMMA DocumentRequests ==
    ASSUME DocumentInv, NEW c \in Client
    PROVE  /\ Busy(c) => request[c].file \in File
           /\ Named(c) => Busy(c) /\ request[c].id \in Document
           /\ Uploads(c) => Busy(c) /\ request[c] \in [step : {"put", "insert"}, file : File]
           /\ Removes(c) => Busy(c) /\ request[c] \in [step : {"unstore", "delete"}, id : Document, file : File]
           /\ request[c].step = "link" =>
                request[c] \in [step : {"link"}, evidence : Evidence, id : Document, file : File]
           /\ ~Busy(c) => request[c].step = "none"
  BY DEF DocumentInv, DocTypes, DocRequest, D!NoRequest, Busy, Named, Uploads, Removes

(* A request that begins: the file it is about is raced if another is at    *)
(* work on it.                                                              *)
LEMMA DocumentBegins ==
    ASSUME DocumentInv, NEW c \in Client, NEW r \in DocRequest, r # D!NoRequest, D!Starts(c, r),
           UNCHANGED <<doc, used, object, linked, promised>>,
           r.step \in {"put", "unstore", "link"},
           r.step = "put" => \A d \in Document : doc[d] # r.file,
           r.step \in {"unstore", "link"} => r.id \in used /\ doc[r.id] = r.file,
           r.step = "unstore" => \A e \in Evidence : linked[e] # r.id
    PROVE  DocumentInv'
<1> USE DEF DocumentInv
<1>1. /\ request' = [request EXCEPT ![c] = r] /\ request \in [Client -> DocRequest]
      /\ raced' = raced \cup IF D!Overlaps(c, r.file) THEN {r.file} ELSE {}
      /\ torn' = torn /\ taken' = taken /\ request[c] = D!NoRequest
  BY DEF D!Starts, DocTypes
<1>2. r.file \in File /\ raced \subseteq raced'
  BY <1>1 DEF DocRequest
<1>3. \A o \in Client : request'[o] = IF o = c THEN r ELSE request[o]
  BY <1>1
<1>4. DocTypes'
  BY <1>1, <1>2 DEF DocTypes, D!TypeOK, DocRequest, D!NoRequest
<1>5. IdsAreUsed'
  BY <1>2, <1>3 DEF IdsAreUsed, Named
<1>6. AloneUnlessRaced'
  <2> SUFFICES ASSUME NEW a \in Client, NEW o \in Client, a # o, request'[a] # D!NoRequest,
                      request'[o] # D!NoRequest, request'[a].file = request'[o].file
               PROVE  request'[a].file \in raced'
    BY DEF AloneUnlessRaced, Busy
  <2>1. CASE a # c /\ o # c
    BY <2>1, <1>2, <1>3 DEF AloneUnlessRaced, Busy
  <2>2. CASE a = c
    BY <2>2, <1>1, <1>3 DEF D!Overlaps
  <2>3. CASE o = c
    BY <2>3, <1>1, <1>3 DEF D!Overlaps
  <2> QED BY <2>1, <2>2, <2>3
<1>7. FilesAreNew' /\ InsertsHaveObjects'
  BY <1>1, <1>2, <1>3 DEF FilesAreNew, Uploads, InsertsHaveObjects
<1>8. ObjectsAreThere'
  <2> SUFFICES ASSUME NEW d \in Document, doc[d] # None, d \notin torn, KeyOf[doc[d]] \notin taken,
                      \A o \in Client : request'[o].step = "delete" => request'[o].id # d
               PROVE  KeyOf[doc[d]] \in object
    BY <1>1 DEF ObjectsAreThere
  <2>1. \A o \in Client : request[o].step = "delete" => request[o].id # d
    BY <1>1, <1>3 DEF D!NoRequest
  <2> QED BY <2>1, <1>2 DEF ObjectsAreThere
<1>9. RemovedAreUnused'
  BY <1>2, <1>3 DEF RemovedAreUnused, Removes
<1>10. D!NoDanglingReference' /\ D!OneDocumentPerFile' /\ D!EvidenceKeepsDocument'
  BY <1>2 DEF D!NoDanglingReference, D!Present, D!OneDocumentPerFile, D!EvidenceKeepsDocument
<1> QED BY <1>4, <1>5, <1>6, <1>7, <1>8, <1>9, <1>10

(* A request that goes on with its file, or ends, races nobody.             *)
LEMMA StillAlone ==
    ASSUME DocTypes, AloneUnlessRaced, NEW c \in Client, NEW r, UNCHANGED raced,
           request' = [request EXCEPT ![c] = r],
           r = D!NoRequest \/ (Busy(c) /\ r.file = request[c].file)
    PROVE  AloneUnlessRaced'
<1>1. \A o \in Client : request'[o] = IF o = c THEN r ELSE request[o]
  BY DEF DocTypes
<1> SUFFICES ASSUME NEW a \in Client, NEW o \in Client, a # o, request'[a] # D!NoRequest,
                    request'[o] # D!NoRequest, request'[a].file = request'[o].file
             PROVE  request'[a].file \in raced
  BY DEF AloneUnlessRaced, Busy
<1>2. request[a] # D!NoRequest /\ request[a].file = request'[a].file
  BY <1>1 DEF Busy
<1>3. request[o] # D!NoRequest /\ request[o].file = request'[o].file
  BY <1>1 DEF Busy
<1> QED BY <1>2, <1>3 DEF AloneUnlessRaced, Busy

(* Every step of a request keeps what the others count on.                  *)
LEMMA DocumentStep == DocumentInv /\ [D!Next]_documentVars => DocumentInv'
<1> SUFFICES ASSUME DocumentInv, [D!Next]_documentVars PROVE DocumentInv'
  OBVIOUS
<1> USE DEF DocumentInv
<1>0. request \in [Client -> DocRequest] /\ DocTypes /\ D!TypeOK
  BY DEF DocTypes
<1>a. None \notin Document /\ None \notin File /\ "absent" \notin Document
  BY IntakeAssumption DEF D!DocumentAssumption
<1>b. KeyOf \in [File -> Key] /\ taken \subseteq Key /\ object \subseteq Key
  BY <1>0, IntakeAssumption DEF D!DocumentAssumption, D!TypeOK
<1>1. ASSUME NEW c \in Client, NEW f \in File, D!BeginUpload(c, f) PROVE DocumentInv'
  <2> DEFINE r == [step |-> "put", file |-> f]
  <2>1. r \in DocRequest /\ r # D!NoRequest /\ r.step = "put" /\ r.file = f
    BY DEF DocRequest, D!NoRequest
  <2>2. /\ D!Starts(c, r) /\ UNCHANGED <<doc, used, object, linked, promised>>
        /\ \A d \in Document : doc[d] # f
    BY <1>1 DEF D!BeginUpload, D!Duplicate
  <2> HIDE DEF r
  <2> QED BY <2>1, <2>2, DocumentBegins
<1>2. ASSUME NEW c \in Client, D!PutObject(c) PROVE DocumentInv'
  <2> DEFINE r == [step |-> "insert", file |-> request[c].file]
             f == request[c].file
  <2>1. /\ request[c].step = "put" /\ object' = object \cup {KeyOf[f]}
        /\ taken' = taken \ {KeyOf[f]}
        /\ request' = [request EXCEPT ![c] = [request[c] EXCEPT !.step = "insert"]]
        /\ UNCHANGED <<doc, used, linked, promised, raced, torn>>
    BY <1>2 DEF D!PutObject, D!Goes
  <2>2. /\ f \in File /\ Busy(c) /\ Uploads(c)
        /\ request[c] \in [step : {"put", "insert"}, file : File]
    BY <2>1, DocumentRequests DEF Uploads
  <2>3. [request[c] EXCEPT !.step = "insert"] = r /\ r \in DocRequest /\ r.step = "insert"
        /\ r.file = f
    BY <2>2 DEF DocRequest
  <2> HIDE DEF r, f
  <2>4. request' = [request EXCEPT ![c] = r]
        /\ \A o \in Client : request'[o] = IF o = c THEN r ELSE request[o]
    BY <1>0, <2>1, <2>3
  <2>5. DocTypes'
    <3>1. \A o \in Client : request'[o].step \in {"none", "put", "insert", "unstore", "delete", "link"}
      BY <1>0, <2>3, <2>4 DEF D!TypeOK
    <3>2. object' \subseteq Key /\ taken' \subseteq Key
      BY <1>b, <2>1, <2>2
    <3> QED BY <3>1, <3>2, <1>0, <2>1, <2>2, <2>3, <2>4 DEF DocTypes, D!TypeOK
  <2>6. AloneUnlessRaced'
    BY <1>0, <2>1, <2>2, <2>3, <2>4, StillAlone DEF f
  <2>7. FilesAreNew' /\ InsertsHaveObjects'
    BY <2>1, <2>2, <2>3, <2>4 DEF FilesAreNew, Uploads, InsertsHaveObjects, f
  <2>8. IdsAreUsed' /\ RemovedAreUnused'
    BY <2>1, <2>3, <2>4 DEF IdsAreUsed, Named, RemovedAreUnused, Removes
  <2>9. ObjectsAreThere'
    <3> SUFFICES ASSUME NEW d \in Document, doc[d] # None, d \notin torn,
                        KeyOf[doc[d]] \notin taken',
                        \A o \in Client : request'[o].step = "delete" => request'[o].id # d
                 PROVE  KeyOf[doc[d]] \in object'
      BY <2>1 DEF ObjectsAreThere
    <3>1. \A o \in Client : request[o].step = "delete" => request[o].id # d
      BY <2>1, <2>4
    <3> QED BY <3>1, <2>1 DEF ObjectsAreThere
  <2>10. D!NoDanglingReference' /\ D!OneDocumentPerFile' /\ D!EvidenceKeepsDocument'
    BY <2>1 DEF D!NoDanglingReference, D!Present, D!OneDocumentPerFile, D!EvidenceKeepsDocument
  <2> QED BY <2>5, <2>6, <2>7, <2>8, <2>9, <2>10
<1>3. ASSUME NEW c \in Client, NEW d \in Document, D!InsertDocument(c, d) PROVE DocumentInv'
  <2> DEFINE f == request[c].file
  <2>1. /\ request[c].step = "insert" /\ d \notin used
        /\ used' = used \cup {d}
        /\ doc' = [doc EXCEPT ![d] = f]
        /\ request' = [request EXCEPT ![c] = D!NoRequest]
        /\ UNCHANGED <<object, linked, promised, raced, torn, taken>>
    BY <1>3 DEF D!InsertDocument, D!Goes
  <2>2. f \in File /\ Busy(c) /\ Uploads(c)
    BY <2>1, DocumentRequests DEF Uploads
  <2> HIDE DEF f
  <2>3. \A o \in Client : request'[o] = IF o = c THEN D!NoRequest ELSE request[o]
    BY <1>0, <2>1
  <2>4. \A x \in Document : doc'[x] = IF x = d THEN f ELSE doc[x]
    BY <1>0, <2>1 DEF D!TypeOK
  <2>5. doc[d] = None
    BY <2>1 DEF IdsAreUsed
  <2>6. DocTypes'
    BY <1>0, <2>1, <2>2, <2>3 DEF DocTypes, D!TypeOK, DocRequest, D!NoRequest
  <2>7. AloneUnlessRaced'
    BY <1>0, <2>1, StillAlone
  <2>8. IdsAreUsed'
    BY <2>1, <2>3, <2>4, DocumentRequests DEF IdsAreUsed, Named, D!NoRequest
  <2>9. FilesAreNew'
    <3> SUFFICES ASSUME NEW o \in Client, request'[o].step \in {"put", "insert"},
                        request'[o].file \notin raced
                 PROVE  \A x \in Document : doc'[x] # request'[o].file
      BY <2>1 DEF FilesAreNew, Uploads
    <3>1. o # c /\ request'[o] = request[o] /\ Uploads(o)
      BY <2>3 DEF D!NoRequest, Uploads
    <3>2. Busy(o)
      BY <3>1, DocumentRequests
    <3>3. request[o].file # f
      BY <2>2, <3>1, <3>2 DEF AloneUnlessRaced, f
    <3> QED BY <2>4, <3>1, <3>3 DEF FilesAreNew
  <2>9a. InsertsHaveObjects'
    BY <2>1, <2>3 DEF InsertsHaveObjects, D!NoRequest
  <2>10. ObjectsAreThere'
    <3> SUFFICES ASSUME NEW x \in Document, doc'[x] # None, x \notin torn, KeyOf[doc'[x]] \notin taken,
                        \A o \in Client : request'[o].step = "delete" => request'[o].id # x
                 PROVE  KeyOf[doc'[x]] \in object
      BY <2>1 DEF ObjectsAreThere
    <3>1. CASE x = d
      BY <3>1, <2>1, <2>4 DEF InsertsHaveObjects, f
    <3>2. CASE x # d
      <4>1. \A o \in Client : request[o].step = "delete" => request[o].id # x
        BY <2>1, <2>3
      <4> QED BY <3>2, <4>1, <2>4 DEF ObjectsAreThere
    <3> QED BY <3>1, <3>2
  <2>11. RemovedAreUnused'
    BY <2>1, <2>3 DEF RemovedAreUnused, Removes, D!NoRequest
  <2>12. D!NoDanglingReference'
    BY <1>a, <2>1, <2>2, <2>4 DEF D!NoDanglingReference, D!Present
  <2>13. D!OneDocumentPerFile'
    BY <2>1, <2>2, <2>4 DEF D!OneDocumentPerFile, D!Present, FilesAreNew, f
  <2>14. D!EvidenceKeepsDocument'
    BY <2>1 DEF D!EvidenceKeepsDocument
  <2> QED BY <2>6, <2>7, <2>8, <2>9, <2>9a, <2>10, <2>11, <2>12, <2>13, <2>14
<1>4. ASSUME NEW c \in Client, NEW d \in Document, D!BeginRemove(c, d) PROVE DocumentInv'
  <2> DEFINE r == [step |-> "unstore", id |-> d, file |-> doc[d]]
  <2>1. /\ D!Starts(c, r) /\ UNCHANGED <<doc, used, object, linked, promised>>
        /\ doc[d] # None /\ \A e \in Evidence : linked[e] # d
    BY <1>4 DEF D!BeginRemove, D!Present, D!InUse
  <2>2. doc[d] \in File /\ d \in used
    BY <1>0, <2>1 DEF D!TypeOK, IdsAreUsed
  <2>3. r \in DocRequest /\ r # D!NoRequest /\ r.step = "unstore" /\ r.file = doc[d] /\ r.id = d
    BY <2>2 DEF DocRequest, D!NoRequest
  <2> HIDE DEF r
  <2> QED BY <2>1, <2>2, <2>3, DocumentBegins
<1>5. ASSUME NEW c \in Client, NEW d \in Document, NEW e \in Evidence, D!BeginEvidence(c, e, d)
      PROVE  DocumentInv'
  <2> DEFINE r == [step |-> "link", evidence |-> e, id |-> d, file |-> doc[d]]
  <2>1. /\ D!Starts(c, r) /\ UNCHANGED <<doc, used, object, linked, promised>>
        /\ doc[d] # None
    BY <1>5 DEF D!BeginEvidence, D!Present
  <2>2. doc[d] \in File /\ d \in used
    BY <1>0, <2>1 DEF D!TypeOK, IdsAreUsed
  <2>3. r \in DocRequest /\ r # D!NoRequest /\ r.step = "link" /\ r.file = doc[d] /\ r.id = d
    BY <2>2 DEF DocRequest, D!NoRequest
  <2> HIDE DEF r
  <2> QED BY <2>1, <2>2, <2>3, DocumentBegins
<1>6. ASSUME NEW c \in Client, D!DeleteObject(c) PROVE DocumentInv'
  <2> DEFINE f == request[c].file
             r == [step |-> "delete", id |-> request[c].id, file |-> f]
  <2>1. /\ request[c].step = "unstore"
        /\ \/ /\ object' = object \ {KeyOf[f]}
              /\ taken' = taken \cup IF D!ReliedOn(KeyOf[f], request[c].id) THEN {KeyOf[f]} ELSE {}
           \/ UNCHANGED <<object, taken>>
        /\ request' = [request EXCEPT ![c] = [request[c] EXCEPT !.step = "delete"]]
        /\ UNCHANGED <<doc, used, linked, promised, raced, torn>>
    BY <1>6 DEF D!DeleteObject, D!Goes
  <2>2. /\ f \in File /\ Busy(c) /\ Removes(c) /\ Named(c)
        /\ request[c].id \in Document
        /\ request[c] \in [step : {"unstore", "delete"}, id : Document, file : File]
    BY <2>1, DocumentRequests DEF Removes, Named
  <2>3. [request[c] EXCEPT !.step = "delete"] = r /\ r \in DocRequest /\ r.step = "delete"
        /\ r.file = f /\ r.id = request[c].id
    BY <2>2 DEF DocRequest
  <2> HIDE DEF r, f
  <2>4. request' = [request EXCEPT ![c] = r]
        /\ \A o \in Client : request'[o] = IF o = c THEN r ELSE request[o]
    BY <1>0, <2>1, <2>3
  <2>5. DocTypes'
    <3>1. \A o \in Client : request'[o].step \in {"none", "put", "insert", "unstore", "delete", "link"}
      BY <1>0, <2>3, <2>4 DEF D!TypeOK
    <3>2. object' \subseteq Key /\ taken' \subseteq Key
      BY <1>b, <2>1, <2>2
    <3> QED BY <3>1, <3>2, <1>0, <2>1, <2>2, <2>3, <2>4 DEF DocTypes, D!TypeOK
  <2>6. AloneUnlessRaced'
    BY <1>0, <2>1, <2>2, <2>3, <2>4, StillAlone DEF f
  <2>7. FilesAreNew'
    BY <2>1, <2>3, <2>4 DEF FilesAreNew, Uploads
  <2>7a. InsertsHaveObjects'
    <3> SUFFICES ASSUME NEW o \in Client, request'[o].step = "insert",
                        KeyOf[request'[o].file] \notin taken'
                 PROVE  KeyOf[request'[o].file] \in object'
      BY DEF InsertsHaveObjects
    <3>1. request'[o] = request[o]
      BY <2>3, <2>4
    <3>2. D!ReliedOn(KeyOf[request[o].file], request[c].id)
      BY <3>1 DEF D!ReliedOn
    <3> QED BY <2>1, <3>1, <3>2 DEF InsertsHaveObjects
  <2>8. IdsAreUsed'
    <3> SUFFICES ASSUME NEW o \in Client, request'[o].step \in {"unstore", "delete", "link"}
                 PROVE  /\ request'[o].id \in used
                        /\ doc[request'[o].id] \in {request'[o].file, None}
                        /\ request'[o].file \notin raced => doc[request'[o].id] = request'[o].file
      BY <2>1 DEF IdsAreUsed, Named
    <3>1. Named(o) /\ request'[o].id = request[o].id /\ request'[o].file = request[o].file
      BY <2>2, <2>3, <2>4 DEF Named, f
    <3> QED BY <3>1 DEF IdsAreUsed
  <2>8a. RemovedAreUnused'
    BY <2>1, <2>2, <2>3, <2>4 DEF RemovedAreUnused, Removes
  <2>9. ObjectsAreThere'
    <3> SUFFICES ASSUME NEW d \in Document, doc[d] # None, d \notin torn,
                        KeyOf[doc[d]] \notin taken',
                        \A o \in Client : request'[o].step = "delete" => request'[o].id # d
                 PROVE  KeyOf[doc[d]] \in object'
      BY <2>1 DEF ObjectsAreThere
    <3>1. \A o \in Client : request[o].step = "delete" => request[o].id # d
      BY <2>1, <2>4
    <3>2. d # request[c].id
      BY <2>3, <2>4
    <3>3. D!ReliedOn(KeyOf[doc[d]], request[c].id)
      BY <3>2 DEF D!ReliedOn, D!Present
    <3> QED BY <2>1, <3>1, <3>3 DEF ObjectsAreThere
  <2>10. D!NoDanglingReference' /\ D!OneDocumentPerFile' /\ D!EvidenceKeepsDocument'
    BY <2>1 DEF D!NoDanglingReference, D!Present, D!OneDocumentPerFile, D!EvidenceKeepsDocument
  <2> QED BY <2>5, <2>6, <2>7, <2>7a, <2>8, <2>8a, <2>9, <2>10
<1>7. ASSUME NEW c \in Client, D!DeleteDocument(c) PROVE DocumentInv'
  <2> DEFINE i == request[c].id
             f == request[c].file
  <2>1. /\ request[c].step = "delete" /\ doc[i] # None
        /\ doc' = [doc EXCEPT ![i] = None]
        /\ linked' = [e \in Evidence |-> IF linked[e] = i THEN None ELSE linked[e]]
        /\ request' = [request EXCEPT ![c] = D!NoRequest]
        /\ UNCHANGED <<used, object, promised, raced, torn, taken>>
    BY <1>7 DEF D!DeleteDocument, D!Goes, D!Present
  <2>2. /\ f \in File /\ Busy(c) /\ Removes(c) /\ Named(c) /\ i \in Document
    BY <2>1, DocumentRequests DEF Removes, Named
  <2>3. i \in used /\ doc[i] = f
    BY <2>1, <2>2 DEF IdsAreUsed
  <2> HIDE DEF i, f
  <2>4. \A o \in Client : request'[o] = IF o = c THEN D!NoRequest ELSE request[o]
    BY <1>0, <2>1
  <2>5. \A x \in Document : doc'[x] = IF x = i THEN None ELSE doc[x]
    BY <1>0, <2>1 DEF D!TypeOK
  <2>6. DocTypes'
    BY <1>0, <2>1, <2>2, <2>4 DEF DocTypes, D!TypeOK, DocRequest, D!NoRequest
  <2>7. AloneUnlessRaced'
    BY <1>0, <2>1, StillAlone
  <2>8. IdsAreUsed'
    <3>1. \A x \in Document : doc'[x] # None => x \in used'
      BY <2>1, <2>5 DEF IdsAreUsed
    <3> SUFFICES ASSUME NEW o \in Client, request'[o].step \in {"unstore", "delete", "link"}
                 PROVE  /\ request'[o].id \in used
                        /\ doc'[request'[o].id] \in {request'[o].file, None}
                        /\ request'[o].file \notin raced => doc'[request'[o].id] = request'[o].file
      BY <2>1, <3>1 DEF IdsAreUsed, Named
    <3>2. o # c /\ request'[o] = request[o] /\ Named(o)
      BY <2>4 DEF D!NoRequest, Named
    <3>3. Busy(o) /\ request[o].id \in Document
      BY <3>2, DocumentRequests
    <3>4. CASE request[o].id # i
      BY <3>2, <3>3, <3>4, <2>5 DEF IdsAreUsed
    <3>5. CASE request[o].id = i
      <4>1. request[o].file = f
        BY <3>2, <3>5, <2>1, <2>3 DEF IdsAreUsed
      <4>2. f \in raced
        BY <4>1, <3>2, <3>3, <2>2 DEF AloneUnlessRaced, f
      <4> QED BY <4>1, <4>2, <3>2, <3>3, <3>5, <2>3, <2>5
    <3> QED BY <3>4, <3>5
  <2>9. FilesAreNew'
    <3>a. None \notin File
      BY <1>a
    <3> SUFFICES ASSUME NEW o \in Client, request'[o].step \in {"put", "insert"},
                        request'[o].file \notin raced
                 PROVE  \A x \in Document : doc'[x] # request'[o].file
      BY <2>1 DEF FilesAreNew, Uploads
    <3>1. o # c /\ request'[o] = request[o] /\ Uploads(o)
      BY <2>4 DEF D!NoRequest, Uploads
    <3>2. request[o].file \in File
      BY <3>1, DocumentRequests
    <3> QED BY <2>5, <3>1, <3>2, <3>a DEF FilesAreNew
  <2>9a. InsertsHaveObjects'
    BY <2>1, <2>4 DEF InsertsHaveObjects, D!NoRequest
  <2>10. ObjectsAreThere'
    <3> SUFFICES ASSUME NEW x \in Document, doc'[x] # None, x \notin torn, KeyOf[doc'[x]] \notin taken,
                        \A o \in Client : request'[o].step = "delete" => request'[o].id # x
                 PROVE  KeyOf[doc'[x]] \in object
      BY <2>1 DEF ObjectsAreThere
    <3>1. x # i /\ doc'[x] = doc[x]
      BY <2>5
    <3>2. \A o \in Client : request[o].step = "delete" => request[o].id # x
      BY <2>4, <3>1 DEF i
    <3> QED BY <3>1, <3>2 DEF ObjectsAreThere
  <2>11. RemovedAreUnused'
    <3> SUFFICES ASSUME NEW o \in Client, NEW e \in Evidence,
                        request'[o].step \in {"unstore", "delete"}, linked'[e] = request'[o].id
                 PROVE  promised[e] \in raced
      BY <2>1 DEF RemovedAreUnused, Removes
    <3>1. request'[o] = request[o] /\ Removes(o)
      BY <2>4 DEF D!NoRequest, Removes
    <3>2. request[o].id \in Document
      BY <3>1, DocumentRequests
    <3>3. linked[e] = request[o].id
      BY <2>1, <3>1, <3>2, <1>a
    <3> QED BY <3>1, <3>3 DEF RemovedAreUnused
  <2>12. D!NoDanglingReference'
    BY <1>a, <2>1, <2>5 DEF D!NoDanglingReference, D!Present
  <2>13. D!OneDocumentPerFile'
    BY <2>1, <2>5 DEF D!OneDocumentPerFile, D!Present
  <2>14. D!EvidenceKeepsDocument'
    <3> SUFFICES ASSUME NEW e \in Evidence, linked'[e] # "absent", promised[e] \notin raced,
                        linked'[e] = None
                 PROVE  FALSE
      BY <2>1 DEF D!EvidenceKeepsDocument
    <3>1. linked[e] # i
      BY <2>2 DEF RemovedAreUnused, i
    <3> QED BY <2>1, <3>1 DEF D!EvidenceKeepsDocument
  <2> QED BY <2>6, <2>7, <2>8, <2>9, <2>9a, <2>10, <2>11, <2>12, <2>13, <2>14
<1>8. ASSUME NEW c \in Client, D!InsertEvidence(c) PROVE DocumentInv'
  <2> DEFINE r == request[c]
  <2>1. /\ r.step = "link" /\ linked[r.evidence] = "absent" /\ doc[r.id] # None
        /\ linked' = [linked EXCEPT ![r.evidence] = r.id]
        /\ promised' = [promised EXCEPT ![r.evidence] = r.file]
        /\ request' = [request EXCEPT ![c] = D!NoRequest]
        /\ UNCHANGED <<doc, used, object, raced, torn, taken>>
    BY <1>8 DEF D!InsertEvidence, D!Goes, D!Present
  <2>2. /\ r.evidence \in Evidence /\ r.id \in Document /\ r.file \in File
        /\ Busy(c) /\ Named(c)
    BY <2>1, DocumentRequests DEF Named
  <2>3. doc[r.id] = r.file
    BY <2>1, <2>2 DEF IdsAreUsed
  <2>4. \A o \in Client : request'[o] = IF o = c THEN D!NoRequest ELSE request[o]
    BY <1>0, <2>1
  <2>5. \A e \in Evidence : /\ linked'[e] = IF e = r.evidence THEN r.id ELSE linked[e]
                            /\ promised'[e] = IF e = r.evidence THEN r.file ELSE promised[e]
    BY <1>0, <2>1 DEF D!TypeOK
  <2>6. DocTypes'
    BY <1>0, <2>1, <2>2, <2>4 DEF DocTypes, D!TypeOK, DocRequest, D!NoRequest
  <2>7. AloneUnlessRaced'
    BY <1>0, <2>1, StillAlone
  <2>8. IdsAreUsed'
    BY <2>1, <2>4 DEF IdsAreUsed, Named, D!NoRequest
  <2>9. FilesAreNew' /\ InsertsHaveObjects'
    BY <2>1, <2>4 DEF FilesAreNew, Uploads, InsertsHaveObjects, D!NoRequest
  <2>10. ObjectsAreThere'
    <3> SUFFICES ASSUME NEW x \in Document, doc[x] # None, x \notin torn, KeyOf[doc[x]] \notin taken,
                        \A o \in Client : request'[o].step = "delete" => request'[o].id # x
                 PROVE  KeyOf[doc[x]] \in object
      BY <2>1 DEF ObjectsAreThere
    <3>1. \A o \in Client : request[o].step = "delete" => request[o].id # x
      BY <2>1, <2>4
    <3> QED BY <3>1 DEF ObjectsAreThere
  <2>11. RemovedAreUnused'
    <3> SUFFICES ASSUME NEW o \in Client, NEW e \in Evidence,
                        request'[o].step \in {"unstore", "delete"}, linked'[e] = request'[o].id
                 PROVE  promised'[e] \in raced
      BY <2>1 DEF RemovedAreUnused, Removes
    <3>1. o # c /\ request'[o] = request[o] /\ Removes(o) /\ Named(o)
      BY <2>4 DEF D!NoRequest, Removes, Named
    <3>2. CASE e # r.evidence
      BY <3>1, <3>2, <2>5 DEF RemovedAreUnused
    <3>3. CASE e = r.evidence
      <4>1. Busy(o) /\ request[o].id = r.id
        BY <3>1, <3>3, <2>5, DocumentRequests
      <4>2. request[o].file = r.file
        BY <4>1, <3>1, <2>1, <2>3 DEF IdsAreUsed
      <4>3. r.file \in raced
        BY <4>1, <4>2, <3>1, <2>2 DEF AloneUnlessRaced
      <4> QED BY <4>3, <3>3, <2>5
    <3> QED BY <3>2, <3>3
  <2>12. D!NoDanglingReference'
    BY <2>1, <2>5 DEF D!NoDanglingReference, D!Present
  <2>13. D!OneDocumentPerFile'
    BY <2>1 DEF D!OneDocumentPerFile, D!Present
  <2>14. D!EvidenceKeepsDocument'
    BY <1>a, <2>1, <2>2, <2>5 DEF D!EvidenceKeepsDocument
  <2> QED BY <2>6, <2>7, <2>8, <2>9, <2>10, <2>11, <2>12, <2>13, <2>14
<1>9. ASSUME NEW c \in Client, D!Fail(c) PROVE DocumentInv'
  <2>1. /\ request' = [request EXCEPT ![c] = D!NoRequest]
        /\ torn' = torn \cup IF request[c].step = "delete" THEN {request[c].id} ELSE {}
        /\ UNCHANGED <<doc, used, object, linked, promised, raced, taken>>
    BY <1>9 DEF D!Fail
  <2>2. torn' \subseteq Document
    BY <1>0, <2>1, DocumentRequests DEF D!TypeOK, Named
  <2>3. \A o \in Client : request'[o] = IF o = c THEN D!NoRequest ELSE request[o]
    BY <1>0, <2>1
  <2>4. DocTypes'
    BY <1>0, <2>1, <2>2, <2>3 DEF DocTypes, D!TypeOK, DocRequest, D!NoRequest
  <2>5. AloneUnlessRaced'
    BY <1>0, <2>1, StillAlone
  <2>6. IdsAreUsed' /\ FilesAreNew' /\ InsertsHaveObjects' /\ RemovedAreUnused'
    BY <2>1, <2>3 DEF IdsAreUsed, Named, FilesAreNew, Uploads, InsertsHaveObjects, RemovedAreUnused,
       Removes, D!NoRequest
  <2>7. ObjectsAreThere'
    <3> SUFFICES ASSUME NEW x \in Document, doc[x] # None, x \notin torn', KeyOf[doc[x]] \notin taken,
                        \A o \in Client : request'[o].step = "delete" => request'[o].id # x
                 PROVE  KeyOf[doc[x]] \in object
      BY <2>1 DEF ObjectsAreThere
    <3>1. \A o \in Client : request[o].step = "delete" => request[o].id # x
      BY <2>1, <2>3
    <3> QED BY <3>1, <2>1 DEF ObjectsAreThere
  <2>8. D!NoDanglingReference' /\ D!OneDocumentPerFile' /\ D!EvidenceKeepsDocument'
    BY <2>1 DEF D!NoDanglingReference, D!Present, D!OneDocumentPerFile, D!EvidenceKeepsDocument
  <2> QED BY <2>4, <2>5, <2>6, <2>7, <2>8
<1>10. CASE UNCHANGED documentVars
  BY <1>10 DEF documentVars, DocTypes, D!TypeOK, IdsAreUsed, AloneUnlessRaced, FilesAreNew,
     InsertsHaveObjects, ObjectsAreThere, RemovedAreUnused, Named, Busy, Uploads, Removes, D!NoDanglingReference,
     D!OneDocumentPerFile, D!EvidenceKeepsDocument, D!Present
<1> QED BY <1>1, <1>2, <1>3, <1>4, <1>5, <1>6, <1>7, <1>8, <1>9, <1>10 DEF D!Next

(* What the checks of the documents promise.                                *)
LEMMA DocumentPromises ==
    DocumentInv => D!Consistent /\ D!DocumentHasObject
                   /\ D!OneDocumentPerFile /\ D!EvidenceKeepsDocument
  BY DEF DocumentInv, DocTypes, D!Consistent, D!DocumentHasObject, D!BeingRemoved,
     ObjectsAreThere, D!Present

-----------------------------------------------------------------------------
(* Extraction.  The run at work has deleted whatever is pending, a run's    *)
(* candidates show when it has committed, and a model call is made by a     *)
(* run that has got so far.                                                 *)
Reading(v) == review[v] # X!NoReview
ReviewTypes ==
    review \in [Reviewer -> {X!NoReview}
                              \cup [step : {"read"}, id : Candidate, was : {"pending"}]]
RunsHoldPending ==
    \A r \in Run : run[r].deleted = IF X!Working(r) THEN X!Pending ELSE {}
FoundByCommitted ==
    \A c \in Candidate : cand[c].run \in Run => run[cand[c].run].step = "done"
CallsAreMade ==
    \A k \in calls : run[k.run].step \in {"extract", "write", "done", "aborted"}
ReadRowsExist == \A v \in Reviewer : Reading(v) => cand[review[v].id].state # "absent"
ExtractionInv ==
    /\ X!TypeOK /\ ReviewTypes /\ RunsHoldPending /\ FoundByCommitted /\ CallsAreMade
    /\ ReadRowsExist /\ X!PendingIsCurrent /\ X!CountIsExact
    /\ X!DatapointIffPromoted /\ X!CallsOfCommittedRunsRecorded

(* Nothing is found, or read, at first.                                     *)
LEMMA ExtractionInit == X!Init => ExtractionInv
  BY IntakeAssumption
     DEF X!Init, X!ExtractionAssumption, ExtractionInv, X!TypeOK, ReviewTypes, RunsHoldPending,
         FoundByCommitted, CallsAreMade, ReadRowsExist, Reading, X!PendingIsCurrent, X!CountIsExact,
         X!DatapointIffPromoted, X!CallsOfCommittedRunsRecorded, X!Working, X!CandState, X!RunStep,
         X!AiJob, X!Capability, X!NoReview

(* The library's facts about finite sets, for Extraction's Cardinality.     *)
LEMMA FoundIsFinite ==
    ASSUME NEW S \in SUBSET Candidate
    PROVE  X!Cardinality(S) \in Nat
<1>1. IsFiniteSet(Candidate)
  BY IntakeAssumption DEF X!ExtractionAssumption, X!IsFiniteSet, IsFiniteSet
<1>2. Cardinality(S) \in Nat
  BY <1>1, FS_Subset, FS_CardinalityType
<1> QED BY <1>2 DEF X!Cardinality, X!IsFiniteSet, Cardinality, IsFiniteSet

(* A run that only goes on, with what it has deleted, or aborts.            *)
LEMMA RunGoesOn ==
    ASSUME ExtractionInv, NEW r \in Run, X!Working(r),
           NEW s \in {"classify", "extract", "write", "aborted"},
           run'[r].step = s, s = "aborted" => run'[r].deleted = {},
           s # "aborted" => run'[r].deleted = run[r].deleted,
           run' \in [Run -> [step : X!RunStep, deleted : SUBSET Candidate]],
           \A o \in Run : o # r => run'[o] = run[o],
           holder' = IF s = "aborted" THEN NoRun ELSE holder,
           UNCHANGED <<cand, extraction, jobs, review, datapoints>>,
           calls \subseteq calls', calls' \subseteq [run : Run, capability : X!Capability],
           \A k \in calls' : k \notin calls => k.run = r,
           calls' # calls \/ run[r].step \in {"extract", "write"}
             => s \in {"extract", "write", "aborted"}
    PROVE  ExtractionInv'
<1> USE DEF ExtractionInv
<1>a. NoRun \notin Run
  BY IntakeAssumption DEF X!ExtractionAssumption
<1>1. X!TypeOK'
  <2>1. holder = r /\ \A o \in Run : o # r => ~X!Working(o)
    BY DEF X!TypeOK
  <2>2. \A o \in Run : X!Working(o)' <=> holder' = o
    BY <1>a, <2>1 DEF X!Working, X!TypeOK
  <2> QED BY <2>2 DEF X!TypeOK
<1>2. RunsHoldPending'
  BY DEF RunsHoldPending, X!Working, X!Pending
<1>3. run[r].step \notin {"done", "new", "aborted"}
  BY DEF X!Working
<1>4. FoundByCommitted'
  BY <1>3 DEF FoundByCommitted
<1>5. \A k \in calls : k.run \in Run
  BY DEF X!TypeOK
<1>6. CallsAreMade'
  <2> SUFFICES ASSUME NEW k \in calls'
               PROVE  run'[k.run].step \in {"extract", "write", "done", "aborted"}
    BY DEF CallsAreMade
  <2>1. CASE k.run = r
    <3>1. calls' # calls \/ run[r].step \in {"extract", "write"}
      BY <1>3, <2>1 DEF CallsAreMade
    <3> QED BY <3>1, <2>1
  <2>2. CASE k.run # r
    BY <1>5, <2>2 DEF CallsAreMade
  <2> QED BY <2>1, <2>2
<1>7. X!CallsOfCommittedRunsRecorded'
  BY <1>5 DEF X!CallsOfCommittedRunsRecorded
<1>8. ReviewTypes' /\ ReadRowsExist' /\ X!PendingIsCurrent' /\ X!CountIsExact' /\ X!DatapointIffPromoted'
  BY DEF ReviewTypes, ReadRowsExist, Reading, X!PendingIsCurrent, X!CountIsExact, X!DatapointIffPromoted
<1> QED BY <1>1, <1>2, <1>4, <1>6, <1>7, <1>8

(* A run that commits: what was pending is deleted and what it has found    *)
(* is pending.                                                              *)
LEMMA RunCommits ==
    ASSUME ExtractionInv, NEW r \in Run, X!Working(r),
           NEW found \in SUBSET {c \in Candidate : cand[c].state = "absent"},
           cand' = X!CandidatesAfter(r, found), run' = X!Ended(r, "done"),
           holder' = X!Unlocked(r), UNCHANGED <<calls, review, datapoints>>,
           jobs \subseteq jobs', jobs' \subseteq X!AiJob,
           \A k \in calls : k.run = r => \E j \in jobs' : j.run = k.run /\ j.capability = k.capability,
           \/ /\ extraction'.status = "failed" /\ extraction'.count = 0 /\ extraction'.run = NoRun
              /\ found = {}
           \/ /\ extraction'.status = "ready_for_review" /\ extraction'.run = r
              /\ extraction'.count = X!Cardinality(found)
    PROVE  ExtractionInv'
<1> USE DEF ExtractionInv
<1>a. NoRun \notin Run
  BY IntakeAssumption DEF X!ExtractionAssumption
<1>1. holder = r /\ \A o \in Run : o # r => ~X!Working(o)
  BY DEF X!TypeOK
<1>2. /\ \A o \in Run : run'[o] = IF o = r THEN [step |-> "done", deleted |-> {}] ELSE run[o]
      /\ run' \in [Run -> [step : X!RunStep, deleted : SUBSET Candidate]]
  BY DEF X!Ended, X!TypeOK, X!RunStep
<1>3. run[r].deleted = X!Pending
  BY DEF RunsHoldPending
<1>4. \A c \in Candidate :
        /\ cand[c].state = "pending" => cand'[c] = [cand[c] EXCEPT !.state = "deleted"]
        /\ c \in found => cand'[c] = [state |-> "pending", run |-> r] /\ cand[c].state = "absent"
        /\ cand[c].state # "pending" /\ c \notin found => cand'[c] = cand[c]
  BY <1>3 DEF X!CandidatesAfter, X!WithoutDeleted, X!Pending
<1>5. cand \in [Candidate -> [state : X!CandState, run : Run \cup {NoRun}]]
  BY DEF X!TypeOK
<1>6. \A c \in Candidate :
        /\ cand'[c] \in [state : X!CandState, run : Run \cup {NoRun}]
        /\ cand'[c].run = IF c \in found THEN r ELSE cand[c].run
        /\ cand'[c].state = "pending" <=> c \in found
        /\ cand'[c].state = IF c \in found THEN "pending"
                            ELSE IF cand[c].state = "pending" THEN "deleted" ELSE cand[c].state
  <2> SUFFICES ASSUME NEW c \in Candidate
               PROVE  /\ cand'[c] \in [state : X!CandState, run : Run \cup {NoRun}]
                      /\ cand'[c].run = IF c \in found THEN r ELSE cand[c].run
                      /\ cand'[c].state = "pending" <=> c \in found
                      /\ cand'[c].state = IF c \in found THEN "pending"
                                          ELSE IF cand[c].state = "pending" THEN "deleted" ELSE cand[c].state
    OBVIOUS
  <2>0. cand[c] \in [state : X!CandState, run : Run \cup {NoRun}]
    BY <1>5
  <2>1. CASE c \in found
    <3>1. cand'[c] = [state |-> "pending", run |-> r]
      BY <1>4, <2>1
    <3> QED BY <3>1, <2>1 DEF X!CandState
  <2>2. CASE cand[c].state = "pending"
    <3>1. cand'[c] = [cand[c] EXCEPT !.state = "deleted"] /\ c \notin found
      BY <1>4, <2>2
    <3> QED BY <3>1, <2>0, <2>2 DEF X!CandState
  <2>3. CASE c \notin found /\ cand[c].state # "pending"
    BY <1>4, <2>0, <2>3
  <2> QED BY <2>1, <2>2, <2>3
<1>7. cand' \in [Candidate -> [state : X!CandState, run : Run \cup {NoRun}]]
  BY <1>6 DEF X!CandidatesAfter
<1>8. \A o \in Run : X!Working(o)' <=> holder' = o
  BY <1>a, <1>1, <1>2 DEF X!Working, X!Unlocked
<1>9. X!TypeOK'
  <2>1. extraction'.count \in Nat
    BY FoundIsFinite
  <2>2. holder' \in Run \cup {NoRun}
    BY <1>1 DEF X!Unlocked
  <2> QED BY <1>2, <1>7, <1>8, <2>1, <2>2 DEF X!TypeOK
<1>10. RunsHoldPending'
  <2>1. \A o \in Run : ~X!Working(o)' /\ run'[o].deleted = {}
    BY <1>1, <1>2 DEF RunsHoldPending, X!Working
  <2> QED BY <2>1 DEF RunsHoldPending
<1>11. FoundByCommitted'
  BY <1>2, <1>6 DEF FoundByCommitted
<1>12. \A k \in calls : k.run \in Run
  BY DEF X!TypeOK
<1>13. CallsAreMade'
  BY <1>2, <1>12 DEF CallsAreMade
<1>14. X!CallsOfCommittedRunsRecorded'
  BY <1>2, <1>12 DEF X!CallsOfCommittedRunsRecorded
<1>15. ReviewTypes'
  BY DEF ReviewTypes
<1>16. ReadRowsExist'
  <2>1. \A c \in Candidate : cand[c].state # "absent" => cand'[c].state # "absent"
    BY <1>6
  <2>2. \A v \in Reviewer : Reading(v) => review[v].id \in Candidate
    BY DEF ReviewTypes, Reading
  <2> QED BY <2>1, <2>2 DEF ReadRowsExist, Reading
<1>17. X!PendingIsCurrent'
  BY <1>6 DEF X!PendingIsCurrent
<1>18. X!CountIsExact'
  <2>1. run[r].step # "done"
    BY DEF X!Working
  <2>2. \A c \in Candidate : cand[c].run # r
    BY <2>1 DEF FoundByCommitted
  <2>3. {c \in Candidate : cand'[c].run = r} = found
    BY <1>6, <2>2
  <2> QED BY <2>3 DEF X!CountIsExact
<1>19. X!DatapointIffPromoted'
  BY <1>4, <1>6 DEF X!DatapointIffPromoted
<1> QED BY <1>9, <1>10, <1>11, <1>13, <1>14, <1>15, <1>16, <1>17, <1>18, <1>19

(* A review that is written: its candidate takes the verdict.               *)
LEMMA ReviewWritten ==
    ASSUME ExtractionInv, NEW v \in Reviewer, review[v].step = "read",
           NEW s \in {"promoted", "rejected"},
           X!Writable(review[v].id), cand[review[v].id].state # "deleted",
           cand' = [cand EXCEPT ![review[v].id].state = s],
           review' = [review EXCEPT ![v] = X!NoReview],
           \/ s = "promoted" /\ datapoints' = [datapoints EXCEPT ![review[v].id] = @ + 1]
           \/ s = "rejected" /\ UNCHANGED datapoints,
           UNCHANGED <<extraction, jobs, calls, run, holder>>
    PROVE  ExtractionInv'
<1> USE DEF ExtractionInv
<1> DEFINE c == review[v].id
<1>1. c \in Candidate /\ review[v] # X!NoReview
  BY DEF ReviewTypes, X!NoReview
<1> HIDE DEF c
<1>2. /\ cand \in [Candidate -> [state : X!CandState, run : Run \cup {NoRun}]]
      /\ datapoints \in [Candidate -> Nat]
  BY DEF X!TypeOK
<1>3. \A d \in Candidate :
        /\ cand'[d].run = cand[d].run
        /\ cand'[d].state = IF d = c THEN s ELSE cand[d].state
        /\ cand'[d] \in [state : X!CandState, run : Run \cup {NoRun}]
  BY <1>2 DEF X!CandState, c
<1>4. cand' \in [Candidate -> [state : X!CandState, run : Run \cup {NoRun}]]
  BY <1>1, <1>2 DEF X!CandState, c
<1>5. /\ datapoints' \in [Candidate -> Nat]
      /\ \A d \in Candidate : d # c => datapoints'[d] = datapoints[d]
      /\ s = "promoted" => datapoints'[c] >= 1
  BY <1>1, <1>2 DEF c
<1>6. X!TypeOK'
  BY <1>4, <1>5 DEF X!TypeOK, X!Working
<1>7. ReviewTypes'
  BY DEF ReviewTypes
<1>8. RunsHoldPending'
  <2>1. \A r \in Run : c \notin run[r].deleted
    BY DEF X!Writable, c
  <2>2. ASSUME NEW r \in Run, X!Working(r) PROVE X!Pending' = X!Pending
    <3>1. c \notin X!Pending
      BY <2>1, <2>2 DEF RunsHoldPending
    <3> QED BY <1>3, <3>1 DEF X!Pending
  <2> QED BY <2>2 DEF RunsHoldPending, X!Working
<1>9. FoundByCommitted' /\ CallsAreMade'
  BY <1>3 DEF FoundByCommitted, CallsAreMade
<1>10. ReadRowsExist'
  <2> SUFFICES ASSUME NEW w \in Reviewer, review'[w] # X!NoReview
               PROVE  cand'[review'[w].id].state # "absent"
    BY DEF ReadRowsExist, Reading
  <2>1. review'[w] = review[w] /\ review[w].id \in Candidate
    BY DEF ReviewTypes
  <2> QED BY <1>3, <2>1 DEF ReadRowsExist, Reading
<1>11. X!PendingIsCurrent'
  BY <1>3 DEF X!PendingIsCurrent
<1>12. X!CountIsExact'
  <2>1. {d \in Candidate : cand'[d].run = extraction.run} = {d \in Candidate : cand[d].run = extraction.run}
    BY <1>3
  <2> QED BY <2>1 DEF X!CountIsExact
<1>13. X!DatapointIffPromoted'
  BY <1>3, <1>5 DEF X!DatapointIffPromoted
<1>14. X!CallsOfCommittedRunsRecorded'
  BY DEF X!CallsOfCommittedRunsRecorded
<1> QED BY <1>6, <1>7, <1>8, <1>9, <1>10, <1>11, <1>12, <1>13, <1>14

(* Every step of a run or of a review.                                      *)
LEMMA ExtractionStep == ExtractionInv /\ [X!Next]_extractionVars => ExtractionInv'
<1> SUFFICES ASSUME ExtractionInv, [X!Next]_extractionVars PROVE ExtractionInv'
  OBVIOUS
<1> USE DEF ExtractionInv
<1>a. NoRun \notin Run
  BY IntakeAssumption DEF X!ExtractionAssumption
<1>b. /\ run \in [Run -> [step : X!RunStep, deleted : SUBSET Candidate]]
      /\ calls \subseteq [run : Run, capability : X!Capability]
      /\ \A r \in Run : X!Working(r) <=> holder = r
      /\ review \in [Reviewer -> {X!NoReview}
                              \cup [step : {"read"}, id : Candidate, was : {"pending"}]]
  BY DEF X!TypeOK, ReviewTypes
<1>1. ASSUME NEW r \in Run, X!BeginRun(r) PROVE ExtractionInv'
  <2>1. /\ run[r].step = "new" /\ holder = NoRun /\ holder' = r
        /\ run' = [run EXCEPT ![r] = [step |-> "parse", deleted |-> X!Pending]]
        /\ UNCHANGED <<cand, extraction, jobs, calls, review, datapoints>>
    BY <1>1 DEF X!BeginRun, X!LockFree
  <2>2. \A o \in Run : ~X!Working(o)
    BY <1>a, <1>b, <2>1
  <2>3. X!Pending \subseteq Candidate /\ X!Pending' = X!Pending
    BY <2>1 DEF X!Pending
  <2>4. /\ run' \in [Run -> [step : X!RunStep, deleted : SUBSET Candidate]]
        /\ \A o \in Run : run'[o] = IF o = r THEN [step |-> "parse", deleted |-> X!Pending] ELSE run[o]
    BY <1>b, <2>1, <2>3 DEF X!RunStep
  <2>5. \A o \in Run : X!Working(o)' <=> holder' = o
    BY <2>1, <2>2, <2>4 DEF X!Working
  <2>6. X!TypeOK'
    BY <2>1, <2>4, <2>5 DEF X!TypeOK
  <2>7. RunsHoldPending'
    BY <2>1, <2>2, <2>3, <2>4, <2>5, <1>a DEF RunsHoldPending
  <2>8. FoundByCommitted'
    BY <2>1, <2>4 DEF FoundByCommitted
  <2>9. CallsAreMade' /\ X!CallsOfCommittedRunsRecorded'
    BY <1>b, <2>1, <2>4 DEF CallsAreMade, X!CallsOfCommittedRunsRecorded
  <2>10. ReviewTypes' /\ ReadRowsExist' /\ X!PendingIsCurrent' /\ X!CountIsExact' /\ X!DatapointIffPromoted'
    BY <2>1 DEF ReviewTypes, ReadRowsExist, Reading, X!PendingIsCurrent, X!CountIsExact, X!DatapointIffPromoted
  <2> QED BY <2>6, <2>7, <2>8, <2>9, <2>10
<1>2. ASSUME NEW r \in Run, X!Parse(r) PROVE ExtractionInv'
  <2>1. /\ run[r].step = "parse" /\ run' = [run EXCEPT ![r].step = "classify"]
        /\ UNCHANGED <<cand, extraction, jobs, calls, holder, review, datapoints>>
    BY <1>2 DEF X!Parse
  <2>2. /\ X!Working(r) /\ run'[r].step = "classify" /\ run'[r].deleted = run[r].deleted
        /\ run' \in [Run -> [step : X!RunStep, deleted : SUBSET Candidate]]
        /\ \A o \in Run : o # r => run'[o] = run[o]
    BY <1>b, <2>1 DEF X!Working, X!RunStep
  <2> QED BY <1>b, <2>1, <2>2, RunGoesOn
<1>3. ASSUME NEW r \in Run, X!ParseFails(r) PROVE ExtractionInv'
  <2>1. /\ run[r].step = "parse" /\ X!Working(r)
        /\ extraction' = [status |-> "failed", count |-> 0, run |-> NoRun]
        /\ cand' = X!WithoutDeleted(r)
        /\ run' = X!Ended(r, "done") /\ holder' = X!Unlocked(r)
        /\ UNCHANGED <<jobs, calls, review, datapoints>>
    BY <1>3 DEF X!ParseFails, X!Working
  <2>2. cand' = X!CandidatesAfter(r, {})
    BY <2>1 DEF X!CandidatesAfter, X!WithoutDeleted
  <2>3. \A k \in calls : k.run # r
    BY <2>1 DEF CallsAreMade
  <2>4. {} \in SUBSET {c \in Candidate : cand[c].state = "absent"}
    OBVIOUS
  <2>5. jobs \subseteq X!AiJob
    BY DEF X!TypeOK
  <2> QED BY <2>1, <2>2, <2>3, <2>4, <2>5, RunCommits
<1>4. ASSUME NEW r \in Run, X!Classify(r) PROVE ExtractionInv'
  <2>1. /\ run[r].step = "classify" /\ run' = [run EXCEPT ![r].step = "extract"]
        /\ calls' = calls \cup {X!Call(r, "classification")}
        /\ UNCHANGED <<cand, extraction, jobs, holder, review, datapoints>>
    BY <1>4 DEF X!Classify
  <2>2. /\ X!Working(r) /\ run'[r].step = "extract" /\ run'[r].deleted = run[r].deleted
        /\ run' \in [Run -> [step : X!RunStep, deleted : SUBSET Candidate]]
        /\ \A o \in Run : o # r => run'[o] = run[o]
    BY <1>b, <2>1 DEF X!Working, X!RunStep
  <2>3. /\ calls' \subseteq [run : Run, capability : X!Capability]
        /\ \A k \in calls' : k \notin calls => k.run = r
    BY <1>b, <2>1 DEF X!Call, X!Capability
  <2> QED BY <2>1, <2>2, <2>3, RunGoesOn
<1>5. ASSUME NEW r \in Run, X!Extract(r) PROVE ExtractionInv'
  <2>1. /\ run[r].step = "extract" /\ run' = [run EXCEPT ![r].step = "write"]
        /\ calls' = calls \cup {X!Call(r, "extraction")}
        /\ UNCHANGED <<cand, extraction, jobs, holder, review, datapoints>>
    BY <1>5 DEF X!Extract
  <2>2. /\ X!Working(r) /\ run'[r].step = "write" /\ run'[r].deleted = run[r].deleted
        /\ run' \in [Run -> [step : X!RunStep, deleted : SUBSET Candidate]]
        /\ \A o \in Run : o # r => run'[o] = run[o]
    BY <1>b, <2>1 DEF X!Working, X!RunStep
  <2>3. /\ calls' \subseteq [run : Run, capability : X!Capability]
        /\ \A k \in calls' : k \notin calls => k.run = r
    BY <1>b, <2>1 DEF X!Call, X!Capability
  <2> QED BY <2>1, <2>2, <2>3, RunGoesOn
<1>6. ASSUME NEW r \in Run, X!Finish(r) PROVE ExtractionInv'
  <2>1. PICK found \in SUBSET {c \in Candidate : cand[c].state = "absent"} :
          /\ cand' = X!CandidatesAfter(r, found)
          /\ extraction' = [status |-> "ready_for_review", run |-> r, count |-> X!Cardinality(found)]
    BY <1>6 DEF X!Finish
  <2>2. /\ run[r].step = "write" /\ X!Working(r) /\ jobs' = jobs \cup X!Jobs(r)
        /\ run' = X!Ended(r, "done") /\ holder' = X!Unlocked(r)
        /\ UNCHANGED <<calls, review, datapoints>>
    BY <1>6 DEF X!Finish, X!Working
  <2>3. X!Jobs(r) \subseteq X!AiJob
    BY DEF X!Jobs, X!AiJob
  <2>4. \A k \in calls : k.run = r => \E j \in jobs' : j.run = k.run /\ j.capability = k.capability
    <3> SUFFICES ASSUME NEW k \in calls, k.run = r
                 PROVE  \E j \in X!Jobs(r) : j.run = k.run /\ j.capability = k.capability
      BY <2>2
    <3>1. k.capability \in X!Capability
      BY <1>b
    <3>2. [run |-> r, capability |-> k.capability, status |-> "completed"] \in X!Jobs(r)
      BY <3>1 DEF X!Jobs
    <3> QED BY <3>2
  <2>5. jobs' \subseteq X!AiJob
    BY <2>2, <2>3 DEF X!TypeOK
  <2> QED BY <2>1, <2>2, <2>4, <2>5, RunCommits
<1>7. ASSUME NEW r \in Run, X!AbortRun(r) PROVE ExtractionInv'
  <2>1. /\ X!Working(r) /\ run' = X!Ended(r, "aborted") /\ holder' = X!Unlocked(r)
        /\ UNCHANGED <<cand, extraction, jobs, review, datapoints>>
    BY <1>7 DEF X!AbortRun, X!Working
  <2>2. /\ run'[r].step = "aborted" /\ run'[r].deleted = {}
        /\ run' \in [Run -> [step : X!RunStep, deleted : SUBSET Candidate]]
        /\ \A o \in Run : o # r => run'[o] = run[o]
    BY <1>b, <2>1 DEF X!Ended, X!RunStep
  <2>3. holder' = NoRun
    BY <1>b, <2>1 DEF X!Unlocked
  <2>4. /\ calls \subseteq calls' /\ calls' \subseteq [run : Run, capability : X!Capability]
        /\ \A k \in calls' : k \notin calls => k.run = r
    <3>1. X!Call(r, "classification") \in [run : Run, capability : X!Capability]
          /\ X!Call(r, "extraction") \in [run : Run, capability : X!Capability]
          /\ X!Call(r, "classification").run = r /\ X!Call(r, "extraction").run = r
      BY DEF X!Call, X!Capability
    <3>2. \/ calls' = calls
          \/ calls' = calls \cup {X!Call(r, "classification")}
          \/ calls' = calls \cup {X!Call(r, "extraction")}
      BY <1>7, <2>1 DEF X!AbortRun
    <3> QED BY <1>b, <3>1, <3>2
  <2> QED BY <2>1, <2>2, <2>3, <2>4, RunGoesOn
<1>8. ASSUME NEW v \in Reviewer, NEW c \in Candidate, X!BeginReview(v, c) PROVE ExtractionInv'
  <2>1. /\ cand[c].state = "pending"
        /\ review' = [review EXCEPT ![v] = [step |-> "read", id |-> c, was |-> "pending"]]
        /\ UNCHANGED <<cand, extraction, jobs, calls, run, holder, datapoints>>
    BY <1>8 DEF X!BeginReview, X!Reviewable
  <2>2. ReviewTypes' /\ ReadRowsExist'
    BY <2>1 DEF ReviewTypes, ReadRowsExist, Reading
  <2> QED BY <2>1, <2>2 DEF X!TypeOK, X!Working, RunsHoldPending, X!Pending, FoundByCommitted, CallsAreMade,
        X!PendingIsCurrent, X!CountIsExact, X!DatapointIffPromoted, X!CallsOfCommittedRunsRecorded
<1>9. ASSUME NEW v \in Reviewer, X!PromoteCandidate(v) PROVE ExtractionInv'
  BY <1>9, ReviewWritten DEF X!PromoteCandidate
<1>10. ASSUME NEW v \in Reviewer, X!RejectCandidate(v) PROVE ExtractionInv'
  BY <1>10, ReviewWritten DEF X!RejectCandidate
<1>11. ASSUME NEW v \in Reviewer, X!AbortReview(v) PROVE ExtractionInv'
  <2>1. ReviewTypes' /\ ReadRowsExist'
    BY <1>11 DEF X!AbortReview, ReviewTypes, ReadRowsExist, Reading
  <2> QED BY <1>11, <2>1 DEF X!AbortReview, X!TypeOK, X!Working, RunsHoldPending, X!Pending, FoundByCommitted,
        CallsAreMade, X!PendingIsCurrent, X!CountIsExact, X!DatapointIffPromoted,
        X!CallsOfCommittedRunsRecorded
<1>12. CASE UNCHANGED extractionVars
  <2>1. UNCHANGED <<cand, extraction, jobs, calls, run, holder, review, datapoints>>
    BY <1>12 DEF extractionVars
  <2>2. X!TypeOK' /\ ReviewTypes' /\ ReadRowsExist' /\ FoundByCommitted' /\ CallsAreMade'
    BY <2>1 DEF X!TypeOK, X!Working, ReviewTypes, ReadRowsExist, Reading, FoundByCommitted, CallsAreMade
  <2>3. RunsHoldPending'
    BY <2>1 DEF RunsHoldPending, X!Pending, X!Working
  <2>4. /\ X!PendingIsCurrent' /\ X!CountIsExact' /\ X!DatapointIffPromoted'
        /\ X!CallsOfCommittedRunsRecorded'
    BY <2>1 DEF X!PendingIsCurrent, X!CountIsExact, X!DatapointIffPromoted, X!CallsOfCommittedRunsRecorded
  <2> QED BY <2>2, <2>3, <2>4
<1> QED BY <1>1, <1>2, <1>3, <1>4, <1>5, <1>6, <1>7, <1>8, <1>9, <1>10, <1>11, <1>12 DEF X!Next, X!ReviewNext

(* What has been reviewed stands in every step, but for a review that had   *)
(* read the candidate before.                                               *)
ReviewStands ==
    \A c \in Candidate :
      cand[c].state \in {"promoted", "rejected"}
        => \/ cand'[c].state = cand[c].state /\ datapoints'[c] = datapoints[c]
           \/ \E v \in Reviewer : X!Outdated(v, c) /\ review'[v] = X!NoReview

(* Every step leaves a verdict and its datapoint, or is such a review.     *)
LEMMA ReviewsStand == ExtractionInv /\ [X!Next]_extractionVars => ReviewStands
<1> SUFFICES ASSUME ExtractionInv, [X!Next]_extractionVars,
                    NEW c \in Candidate, cand[c].state \in {"promoted", "rejected"}
             PROVE  \/ cand'[c].state = cand[c].state /\ datapoints'[c] = datapoints[c]
                    \/ \E v \in Reviewer : X!Outdated(v, c) /\ review'[v] = X!NoReview
  BY DEF ReviewStands
<1> USE DEF ExtractionInv
<1>1. \A r \in Run : c \notin run[r].deleted
  BY DEF RunsHoldPending, X!Pending
<1>2. CASE UNCHANGED <<cand, datapoints>>
  BY <1>2
<1>3. ASSUME NEW r \in Run, X!ParseFails(r) PROVE cand'[c].state = cand[c].state /\ datapoints'[c] = datapoints[c]
  BY <1>1, <1>3 DEF X!ParseFails, X!WithoutDeleted
<1>4. ASSUME NEW r \in Run, X!Finish(r) PROVE cand'[c].state = cand[c].state /\ datapoints'[c] = datapoints[c]
  BY <1>1, <1>4 DEF X!Finish, X!CandidatesAfter, X!WithoutDeleted
<1>5. ASSUME NEW v \in Reviewer, X!PromoteCandidate(v) \/ X!RejectCandidate(v)
      PROVE  \/ cand'[c].state = cand[c].state /\ datapoints'[c] = datapoints[c]
             \/ X!Outdated(v, c) /\ review'[v] = X!NoReview
  <2>1. /\ review[v].step = "read" /\ review[v].id \in Candidate /\ review[v].was = "pending"
        /\ review[v] # X!NoReview /\ review'[v] = X!NoReview
    BY <1>5 DEF X!PromoteCandidate, X!RejectCandidate, ReviewTypes, X!NoReview
  <2>2. CASE review[v].id = c
    BY <2>1, <2>2 DEF X!Outdated
  <2>3. CASE review[v].id # c
    BY <1>5, <2>1, <2>3 DEF X!PromoteCandidate, X!RejectCandidate, X!TypeOK
  <2> QED BY <2>2, <2>3
<1>6. [X!Next]_extractionVars
  OBVIOUS
<1> QED BY <1>2, <1>3, <1>4, <1>5, <1>6 DEF X!Next, X!ReviewNext, X!BeginRun, X!Parse, X!Classify, X!Extract, X!AbortRun,
        X!BeginReview, X!AbortReview, extractionVars

-----------------------------------------------------------------------------
(* Activity import.  A run's activities are those of its own import, and a  *)
(* connector points at its newest run.                                      *)
ImportRow ==
    [connector : Connector \cup {NoConnector}, status : {"failed", "completed"},
     total : Nat, valid : Nat, imported : Nat]
ImportInv ==
    /\ importRuns \in Seq(ImportRow)
    /\ connectors \in [Connector -> [status : {"absent", "active", "paused", "error"}, used : Nat]]
    /\ \A a \in activities : a.run \in 1 .. Len(importRuns)
    /\ I!AllOrNothing

(* Nothing is imported at first.                                            *)
LEMMA ImportInit == I!Init => ImportInv
  BY DEF I!Init, ImportInv, I!AllOrNothing

(* The rows made of some lines, one by one, are as many.                    *)
LEMMA AsManyRows ==
    ASSUME NEW lines, NEW rows, NEW m, NEW F, IsFiniteSet(lines),
           \A a : a \in rows <=> \E l \in lines : a = [run |-> m, line |-> l, fields |-> F[l]]
    PROVE  I!Cardinality(rows) = I!Cardinality(lines)
<1> DEFINE f == [l \in lines |-> [run |-> m, line |-> l, fields |-> F[l]]]
<1>1. f \in Bijection(lines, rows)
  BY DEF Bijection, Injection, Surjection, IsInjective
<1>2. ExistsBijection(lines, rows)
  BY <1>1 DEF ExistsBijection
<1>3. Cardinality(rows) = Cardinality(lines)
  BY <1>2, FS_Bijection
<1> QED BY <1>3 DEF I!Cardinality, I!IsFiniteSet, Cardinality, IsFiniteSet

(* The lines of a file that are valid are no more than its lines.           *)
LEMMA FewerLines ==
    ASSUME NEW n \in Nat, NEW lines \in SUBSET (1 .. n)
    PROVE  I!Cardinality(lines) \in Nat /\ I!Cardinality(lines) <= n
<1>1. IsFiniteSet(1 .. n) /\ Cardinality(1 .. n) = n
  BY FS_Interval
<1>2. Cardinality(lines) \in Nat /\ Cardinality(lines) <= n
  BY <1>1, FS_Subset, FS_CardinalityType
<1> QED BY <1>2 DEF I!Cardinality, I!IsFiniteSet, Cardinality, IsFiniteSet

(* An import records its run with all that is valid, or leaves nothing.     *)
LEMMA ImportCommits ==
    ASSUME ImportInv, NEW n \in 0 .. MaxLines, NEW file \in [1 .. n -> I!Line],
           NEW mapping \in [Field -> I!Rule], NEW c \in Connector \cup {NoConnector},
           I!CommitImport(file, mapping, c)
    PROVE  ImportInv'
<1> USE DEF ImportInv
<1> DEFINE valid == I!ValidLines(file, mapping)
           m == Len(importRuns) + 1
           F == [l \in valid |-> I!Mapped(mapping, file[l])]
           made == {[run |-> m, line |-> l, fields |-> F[l]] : l \in valid}
           last == [connector |-> c, status |-> "completed", total |-> Len(file),
                    valid |-> I!Cardinality(valid), imported |-> I!Cardinality(valid)]
<1>1. MaxLines \in Nat /\ Mandatory \subseteq Field /\ NoConnector \notin Connector
  BY IntakeAssumption DEF I!ImportAssumption
<1>2. n \in Nat /\ DOMAIN file = 1 .. n /\ Len(file) = n
  BY <1>1
<1>3. I!Refused(file, mapping) = {} /\ valid \ I!Refused(file, mapping) = valid
  BY DEF I!CommitImport, I!Survives
<1>4. valid \in SUBSET (1 .. n)
  BY <1>2 DEF I!ValidLines
<1>5. /\ activities' = activities \cup made
      /\ connectors' = [k \in Connector |->
                          IF k = c THEN [connectors[k] EXCEPT !.used = m] ELSE connectors[k]]
  BY <1>3 DEF I!CommitImport
<1>6. importRuns' = Append(importRuns,
         [connector |-> c, status |-> IF valid = {} /\ valid # {} THEN "failed" ELSE "completed",
          total |-> Len(file), valid |-> I!Cardinality(valid), imported |-> I!Cardinality(valid)])
  BY <1>3 DEF I!CommitImport
<1>7. importRuns' = Append(importRuns, last)
  BY <1>6
<1>8. I!Cardinality(valid) \in Nat /\ I!Cardinality(valid) <= n
  BY <1>2, <1>4, FewerLines
<1>9. I!Cardinality(made) = I!Cardinality(valid)
  <2>1. \A a : a \in made <=> \E l \in valid : a = [run |-> m, line |-> l, fields |-> F[l]]
    <3> HIDE DEF valid, F, m
    <3> QED OBVIOUS
  <2>2. IsFiniteSet(1 .. n)
    BY <1>2, FS_Interval
  <2>3. IsFiniteSet(valid)
    BY <1>4, <2>2, FS_Subset
  <2> HIDE DEF valid, F, m, made
  <2> QED BY <2>1, <2>3, AsManyRows
<1>10. ASSUME NEW l \in valid, NEW f \in Mandatory PROVE F[l][f] \notin {"", "bad", "huge"}
  <2>1. I!RowErrors(F[l]) = {} /\ f \in Field /\ F[l] = I!Mapped(mapping, file[l])
    BY <1>1, <1>10 DEF I!ValidLines
  <2>2. F[l][f] # "bad" /\ F[l][f] # ""
    BY <2>1 DEF I!RowErrors
  <2>3. F[l][f] # "huge"
    BY <1>3, <1>10, <2>1 DEF I!Refused
  <2> QED BY <2>2, <2>3
<1>11. /\ Len(importRuns) \in Nat /\ m \in Nat /\ last \in ImportRow
       /\ last.total = n /\ last.valid = I!Cardinality(valid) /\ last.imported = last.valid
       /\ last.connector = c
  BY <1>2, <1>8 DEF ImportRow
<1>13. \A a \in made : a.run = m /\ \A f \in Mandatory : a.fields[f] \notin {"", "bad", "huge"}
  <2> SUFFICES ASSUME NEW a \in made
               PROVE  a.run = m /\ \A f \in Mandatory : a.fields[f] \notin {"", "bad", "huge"}
    OBVIOUS
  <2> HIDE DEF valid, F, m
  <2>1. PICK l \in valid : a = [run |-> m, line |-> l, fields |-> F[l]]
    OBVIOUS
  <2>2. a.run = m /\ a.fields = F[l]
    BY <2>1
  <2> QED BY <1>10, <2>2
<1> HIDE DEF valid, F, made, last
<1>14. importRuns' \in Seq(ImportRow) /\ Len(importRuns') = m
  BY <1>7, <1>11 DEF m
<1>15. \A i \in 1 .. m : importRuns'[i] = IF i = m THEN last ELSE importRuns[i]
  BY <1>7, <1>11 DEF m
<1>16. connectors' \in [Connector -> [status : {"absent", "active", "paused", "error"}, used : Nat]]
  BY <1>5, <1>11, <1>1
<1>17. \A a \in activities' : a.run \in 1 .. m
  <2>1. \A a \in activities : a.run \in 1 .. m
    BY <1>11 DEF m
  <2>2. m \in 1 .. m
    BY <1>11 DEF m
  <2> QED BY <1>5, <1>13, <2>1, <2>2
<1>18. ASSUME NEW i \in 1 .. m
       PROVE  LET r == importRuns'[i]
              IN  /\ r.imported = r.valid /\ r.valid <= r.total
                  /\ I!Cardinality({a \in activities' : a.run = i}) = r.imported
                  /\ \A a \in activities' : a.run = i =>
                       \A f \in Mandatory : a.fields[f] \notin {"", "bad", "huge"}
                  /\ r.connector # NoConnector => connectors'[r.connector].used >= i
  <2>1. CASE i = m
    <3>1. importRuns'[i] = last
      BY <1>15, <2>1
    <3>2. \A a \in activities : a.run # i
      BY <2>1, <1>11 DEF m
    <3>3. {a \in activities' : a.run = i} = made
      BY <1>5, <1>13, <2>1, <3>2
    <3>4. c # NoConnector => connectors'[c].used >= i
      BY <1>5, <1>11, <2>1
    <3> QED BY <1>5, <1>8, <1>9, <1>11, <1>13, <3>1, <3>2, <3>3, <3>4
  <2>2. CASE i # m
    <3>1. importRuns'[i] = importRuns[i] /\ i \in DOMAIN importRuns /\ importRuns[i] \in ImportRow
          /\ i < m
      BY <1>11, <1>15, <2>2 DEF m
    <3>2. {a \in activities' : a.run = i} = {a \in activities : a.run = i}
      BY <1>5, <1>13, <2>2
    <3>3. importRuns[i].connector # NoConnector => connectors'[importRuns[i].connector].used >= i
      <4> SUFFICES ASSUME importRuns[i].connector # NoConnector
                   PROVE  connectors'[importRuns[i].connector].used >= i
        OBVIOUS
      <4>1. importRuns[i].connector \in Connector /\ connectors[importRuns[i].connector].used >= i
        BY <3>1 DEF I!AllOrNothing, ImportRow
      <4>2. connectors[importRuns[i].connector] \in
              [status : {"absent", "active", "paused", "error"}, used : Nat]
        BY <4>1
      <4> QED BY <1>5, <1>11, <3>1, <4>1, <4>2
    <3> QED BY <1>5, <1>13, <2>2, <3>1, <3>2, <3>3 DEF I!AllOrNothing
  <2> QED BY <2>1, <2>2
<1>19. I!AllOrNothing'
  <2>1. DOMAIN importRuns' = 1 .. m
    BY <1>11, <1>14
  <2> QED BY <1>18, <2>1 DEF I!AllOrNothing
<1> QED BY <1>14, <1>16, <1>17, <1>19

(* Saving or changing a connector leaves what imports have recorded.        *)
LEMMA ImportStep == ImportInv /\ [I!Next]_importVars => ImportInv'
<1> SUFFICES ASSUME ImportInv, [I!Next]_importVars PROVE ImportInv'
  OBVIOUS
<1> USE DEF ImportInv
<1>1. ASSUME NEW n \in 0 .. MaxLines, NEW file \in [1 .. n -> I!Line],
             NEW mapping \in [Field -> I!Rule], NEW c \in Connector \cup {NoConnector},
             I!CommitImport(file, mapping, c)
      PROVE  ImportInv'
  BY <1>1, ImportCommits
<1>2. ASSUME NEW c \in Connector, NEW s \in {"active", "paused", "error"},
             connectors' = [connectors EXCEPT ![c].status = s], UNCHANGED <<importRuns, activities>>
      PROVE  ImportInv'
  <2>1. connectors' \in [Connector -> [status : {"absent", "active", "paused", "error"}, used : Nat]]
        /\ \A k \in Connector : connectors'[k].used = connectors[k].used
    BY <1>2
  <2>2. ASSUME NEW i \in DOMAIN importRuns, importRuns[i].connector # NoConnector
        PROVE  importRuns[i].connector \in Connector
    <3>1. importRuns[i] \in ImportRow
      OBVIOUS
    <3> QED BY <2>2, <3>1 DEF ImportRow
  <2>3. I!AllOrNothing'
    BY <1>2, <2>1, <2>2 DEF I!AllOrNothing
  <2> QED BY <1>2, <2>1, <2>3
<1>3. ASSUME NEW c \in Connector, I!CreateIntegration(c) PROVE ImportInv'
  BY <1>2, <1>3 DEF I!CreateIntegration
<1>4. ASSUME NEW c \in Connector, NEW s \in {"active", "paused", "error"}, I!UpdateIntegration(c, s)
      PROVE  ImportInv'
  BY <1>2, <1>4 DEF I!UpdateIntegration
<1>5. CASE UNCHANGED importVars
  BY <1>5 DEF importVars, I!AllOrNothing
<1> QED BY <1>1, <1>3, <1>4, <1>5 DEF I!Next

-----------------------------------------------------------------------------
(* The supplier portal.  What a transaction is about to write is of its     *)
(* type, submissions have times of their own, and passports are numbered    *)
(* by their place.                                                          *)
AnswerSet == [Question -> {"valid", "invalid", "blank"}]
Questionnaire ==
    [status : {"none", "draft", "sent", "in_progress", "submitted", "accepted"},
     answers : AnswerSet, at : Nat]
PassportData == [submission : SUBSET AnswerSet, completeness : Nat]
Passport == [version : Nat, before : Nat, data : PassportData]
CompleteAnswers == {a \in AnswerSet : P!Issues(a) = {}}
SupplierTx ==
    {P!NoTx}
      \cup [op : {"contact"}, email : Contact, primary : BOOLEAN, seen : SUBSET Contact]
      \cup [op : {"build"}, data : PassportData]
      \cup [op : {"issue"}, data : PassportData, last : Nat]
      \cup [op : {"create"}]
      \cup [op : {"save"}, req : Request, row : P!Open \X AnswerSet]
      \cup [op : {"submit"}, req : Request, row : P!Open \X CompleteAnswers, at : Nat \ {0}]
      \cup [op : {"accept"}, req : Request, row : {"submitted"} \X AnswerSet]
      \cup [op : {"promote"}, ref : Ref]
SupplierTypes ==
    /\ questionnaires \in [Request -> Questionnaire]
    /\ refs \in [Ref -> {"absent", "open", "promoted"}]
    /\ records \in [Ref -> Nat]
    /\ passports \in Seq(Passport)
    /\ tx \in [Client -> SupplierTx]
TimesDiffer ==
    /\ \A r, s \in Request :
         questionnaires[r].at # 0 /\ questionnaires[r].at = questionnaires[s].at => r = s
    /\ \A c \in Client, r \in Request : tx[c].op = "submit" => tx[c].at # questionnaires[r].at
    /\ \A c, d \in Client :
         tx[c].op = "submit" /\ tx[d].op = "submit" /\ tx[c].at = tx[d].at => c = d
Numbered == \A i \in 1 .. Len(passports) : passports[i].version = i
OneIsOpen ==
    outdated \cap {"open", "request"} = {} =>
      \A r, s \in Request :
         questionnaires[r].status \in P!Open /\ questionnaires[s].status \in P!Open => r = s
SubmittedIsComplete ==
    "request" \notin outdated =>
      \A r \in Request : questionnaires[r].status \in P!Locked =>
         questionnaires[r].at # 0 /\ P!Issues(questionnaires[r].answers) = {}
PassportShowsLatest ==
    outdated \cap {"request", "passport"} = {} =>
      \A r \in P!Latest(questionnaires) :
         /\ passports # <<>>
         /\ passports[Len(passports)].data.submission = {questionnaires[r].answers}
OneIsPrimary ==
    "contacts" \notin outdated =>
      \A e, d \in Contact : contacts[e] = "primary" /\ contacts[d] = "primary" => e = d
OneRecordEach ==
    \A e \in Ref :
      /\ (records[e] > 0) <=> (refs[e] = "promoted")
      /\ "refs" \notin outdated => records[e] <= 1
SupplierInv ==
    /\ SupplierTypes /\ TimesDiffer /\ Numbered
    /\ OneIsOpen /\ SubmittedIsComplete /\ PassportShowsLatest /\ OneIsPrimary /\ OneRecordEach

(* Nothing is asked or answered at first.                                   *)
LEMMA SupplierInit == P!Init => SupplierInv
<1> SUFFICES ASSUME P!Init PROVE SupplierInv
  OBVIOUS
<1>1. P!NoRequest \in Questionnaire
  BY DEF P!NoRequest, Questionnaire, AnswerSet
<1>2. P!NoTx \in SupplierTx
  BY DEF SupplierTx
<1>3. SupplierTypes
  BY <1>1, <1>2 DEF P!Init, SupplierTypes
<1>4. TimesDiffer /\ OneIsOpen /\ SubmittedIsComplete
  BY DEF P!Init, TimesDiffer, OneIsOpen, SubmittedIsComplete, P!NoRequest, P!NoTx, P!Open, P!Locked
<1>5. Numbered /\ PassportShowsLatest /\ OneIsPrimary /\ OneRecordEach
  BY DEF P!Init, Numbered, PassportShowsLatest, P!Latest, OneIsPrimary, OneRecordEach, P!NoRequest,
     P!Locked
<1> QED BY <1>3, <1>4, <1>5 DEF SupplierInv

(* What a transaction carries, by its operation.                            *)
LEMMA SupplierRequests ==
    ASSUME NEW t \in SupplierTx
    PROVE  /\ t.op = "contact" => t.email \in Contact /\ t.primary \in BOOLEAN /\ t.seen \subseteq Contact
           /\ t.op = "build" => t.data \in PassportData
           /\ t.op = "issue" => t.data \in PassportData /\ t.last \in Nat
           /\ t.op = "save" => t.req \in Request /\ t.row \in P!Open \X AnswerSet
           /\ t.op = "submit" => /\ t.req \in Request /\ t.row \in P!Open \X CompleteAnswers
                                 /\ t.at \in Nat \ {0}
           /\ t.op = "accept" => t.req \in Request /\ t.row \in {"submitted"} \X AnswerSet
           /\ t.op = "promote" => t.ref \in Ref
  BY DEF SupplierTx, P!NoTx

(* A questionnaire that has questions has a completeness.                   *)
LEMMA CompletenessIsNatural == ASSUME NEW a \in AnswerSet PROVE P!Completeness(a) \in Nat
<1> DEFINE answered == {q \in Question : a[q] # "blank"}
<1>1. IsFiniteSet(Question) /\ Question # {}
  BY IntakeAssumption DEF P!SupplierAssumption, P!IsFiniteSet, IsFiniteSet
<1>2. Cardinality(Question) \in Nat /\ Cardinality(Question) # 0
  BY <1>1, FS_CardinalityType, FS_EmptySet
<1>3. IsFiniteSet(answered)
  BY <1>1, FS_Subset
<1>4. Cardinality(answered) \in Nat
  BY <1>3, FS_CardinalityType
<1> HIDE DEF answered
<1>5. (100 * Cardinality(answered)) \div Cardinality(Question) \in Nat
  BY <1>2, <1>4
<1>6. /\ P!Cardinality(Question) = Cardinality(Question)
      /\ P!Cardinality(answered) = Cardinality(answered)
  BY DEF P!Cardinality, P!IsFiniteSet, Cardinality, IsFiniteSet
<1> QED BY <1>5, <1>6 DEF P!Completeness, answered

(* What a passport is computed from.                                        *)
LEMMA BuiltPassport ==
    ASSUME NEW rows \in [Request -> Questionnaire]
    PROVE  P!BuildPassport(rows) \in PassportData
<1>1. P!Latest(rows) \subseteq Request
  BY DEF P!Latest
<1>2. {rows[r].answers : r \in P!Latest(rows)} \subseteq AnswerSet
  BY <1>1 DEF Questionnaire
<1>3. CASE P!Latest(rows) = {}
  BY <1>2, <1>3 DEF P!BuildPassport, PassportData
<1>4. CASE P!Latest(rows) # {}
  <2>1. (CHOOSE r \in P!Latest(rows) : TRUE) \in Request
    BY <1>1, <1>4
  <2>2. P!Completeness(rows[CHOOSE r \in P!Latest(rows) : TRUE].answers) \in Nat
    BY <2>1, CompletenessIsNatural DEF Questionnaire
  <2> QED BY <1>2, <1>4, <2>2 DEF P!BuildPassport, PassportData
<1> QED BY <1>3, <1>4

(* Of submissions with times of their own one at most is the latest.        *)
LEMMA LatestIsOne ==
    ASSUME NEW rows \in [Request -> Questionnaire],
           \A r, s \in Request : rows[r].at # 0 /\ rows[r].at = rows[s].at => r = s,
           NEW r \in P!Latest(rows)
    PROVE  P!BuildPassport(rows).submission = {rows[r].answers}
<1>1. ASSUME NEW s \in P!Latest(rows) PROVE s = r
  <2>1. /\ r \in Request /\ s \in Request /\ rows[r].at # 0
        /\ rows[s].at <= rows[r].at /\ rows[r].at <= rows[s].at
    BY DEF P!Latest
  <2>2. rows[r].at \in Nat /\ rows[s].at \in Nat
    BY <2>1 DEF Questionnaire
  <2> QED BY <2>1, <2>2
<1>2. P!Latest(rows) = {r}
  BY <1>1
<1> QED BY <1>2 DEF P!BuildPassport

(* A change to what is not submitted, before and after, does not show.      *)
LEMMA LatestStays ==
    ASSUME NEW rows \in [Request -> Questionnaire], NEW more \in [Request -> Questionnaire],
           \A r \in Request :
              \/ more[r] = rows[r]
              \/ rows[r].status \notin P!Locked /\ more[r].status \notin P!Locked
    PROVE  /\ P!Latest(more) = P!Latest(rows)
           /\ \A r \in P!Latest(rows) : more[r] = rows[r]
  BY DEF P!Latest

(* A passport that is issued is the next of its chain.                      *)
LEMMA PassportIssued ==
    ASSUME passports \in Seq(Passport), Numbered, NEW data \in PassportData,
           NEW last, last = P!Newest, P!Issue(data, last)
    PROVE  /\ passports' \in Seq(Passport) /\ Numbered' /\ passports' # <<>>
           /\ passports'[Len(passports')].data = data
           /\ P!Chain!Next
<1> DEFINE n == Len(passports)
           row == [version |-> n + 1, before |-> n, data |-> data]
           Chained(s) == [i \in DOMAIN s |-> [version |-> s[i].version, supersedes |-> s[i].before]]
           old == Chained(passports)
           new == Chained(passports')
           link == [version |-> n + 1, supersedes |-> n]
           Link == [version : Nat, supersedes : Nat]
<1>1. n \in Nat /\ DOMAIN passports = 1 .. n
  OBVIOUS
<1>2. P!Newest = n
  <2>1. CASE passports = <<>>
    BY <2>1 DEF P!Newest
  <2>2. CASE passports # <<>>
    <3>1. n \in 1 .. n
      BY <2>2, <1>1
    <3> QED BY <2>2, <3>1 DEF P!Newest, Numbered
  <2> QED BY <2>1, <2>2
<1>3. passports' = Append(passports, row)
  BY <1>2 DEF P!Issue
<1>4. row \in Passport /\ row.version = n + 1 /\ row.before = n /\ row.data = data
  BY <1>1 DEF Passport
<1> HIDE DEF row
<1>5. /\ passports' \in Seq(Passport) /\ Len(passports') = n + 1 /\ DOMAIN passports' = 1 .. (n + 1)
      /\ passports'[n + 1] = row /\ \A i \in 1 .. n : passports'[i] = passports[i]
  BY <1>1, <1>3, <1>4
<1>6. Numbered'
  BY <1>1, <1>4, <1>5 DEF Numbered
<1>7. passports' # <<>> /\ passports'[Len(passports')].data = data
  BY <1>1, <1>4, <1>5
<1>8. old \in Seq(Link) /\ Len(old) = n /\ link \in Link
  <2>1. \A i \in 1 .. n : passports[i].version \in Nat /\ passports[i].before \in Nat
    <3>1. \A i \in 1 .. n : passports[i] \in Passport
      BY <1>1
    <3> QED BY <3>1 DEF Passport
  <2>2. old \in [1 .. n -> Link]
    BY <1>1, <2>1
  <2> QED BY <1>1, <2>2
<1>9. /\ DOMAIN new = 1 .. (n + 1)
      /\ \A i \in 1 .. (n + 1) : new[i] = Append(old, link)[i]
  BY <1>1, <1>4, <1>5, <1>8
<1>10. new \in Seq(Link)
  <2>1. \A i \in 1 .. (n + 1) : passports'[i].version \in Nat /\ passports'[i].before \in Nat
    <3>1. \A i \in 1 .. (n + 1) : passports'[i] \in Passport
      BY <1>1, <1>5
    <3> QED BY <3>1 DEF Passport
  <2>2. new \in [1 .. (n + 1) -> Link]
    BY <1>5, <2>1
  <2> QED BY <1>1, <2>2
<1>11. Append(old, link) \in Seq(Link) /\ Len(Append(old, link)) = n + 1
  BY <1>1, <1>8
<1>12. Len(new) = n + 1
  BY <1>1, <1>9, <1>10
<1>13. new = Append(old, link)
  <2> HIDE DEF new, old, link, Link
  <2> QED BY <1>9, <1>10, <1>11, <1>12, SeqEqual
<1>14. P!Chain!Extend("passport")
  <2>1. Len(old) = n
    BY <1>8
  <2> QED BY <1>13, <2>1 DEF P!Chain!Extend
<1> QED BY <1>5, <1>6, <1>7, <1>14 DEF P!Chain!Next

(* A transaction that goes on, begins or ends, with the submissions' times  *)
(* as they were.                                                            *)
LEMMA TimesStay ==
    ASSUME SupplierTypes, TimesDiffer, NEW c \in Client, NEW t \in SupplierTx,
           tx' = [tx EXCEPT ![c] = t],
           \A r \in Request : questionnaires'[r].at = questionnaires[r].at,
           t.op = "submit" =>
             /\ \A r \in Request : t.at # questionnaires[r].at
             /\ \A d \in Client : tx[d].op = "submit" => t.at # tx[d].at
    PROVE  tx' \in [Client -> SupplierTx] /\ TimesDiffer'
<1>1. \A d \in Client : tx'[d] = IF d = c THEN t ELSE tx[d]
  BY DEF SupplierTypes
<1>2. tx' \in [Client -> SupplierTx]
  BY DEF SupplierTypes
<1>3. TimesDiffer'
  BY <1>1 DEF TimesDiffer
<1> QED BY <1>2, <1>3

(* A step that changes nothing but the transaction of its client.           *)
LEMMA SupplierTxStep ==
    ASSUME SupplierInv, NEW c \in Client, NEW t \in SupplierTx, tx' = [tx EXCEPT ![c] = t],
           UNCHANGED <<contacts, questionnaires, refs, records, passports, outdated>>,
           t.op = "submit" =>
             /\ \A r \in Request : t.at # questionnaires[r].at
             /\ \A d \in Client : tx[d].op = "submit" => t.at # tx[d].at
    PROVE  SupplierInv'
<1>1. tx' \in [Client -> SupplierTx] /\ TimesDiffer'
  BY TimesStay DEF SupplierInv
<1>2. SupplierTypes'
  BY <1>1 DEF SupplierInv, SupplierTypes
<1>3. PassportShowsLatest'
  BY DEF SupplierInv, PassportShowsLatest
<1> QED BY <1>1, <1>2, <1>3
        DEF SupplierInv, Numbered, OneIsOpen, SubmittedIsComplete, OneIsPrimary, OneRecordEach

(* The register: the supplier with its contacts, evidence and promotions.   *)
LEMMA RegisterStep == SupplierInv /\ P!RegisterNext => SupplierInv'
<1> SUFFICES ASSUME SupplierInv, NEW c \in Client,
                    \/ \E list \in P!Lists : P!CreateSupplier(c, list)
                    \/ \E archived \in BOOLEAN : P!SetArchived(c, archived)
                    \/ \E e \in Contact, primary \in BOOLEAN : P!BeginAddContact(c, e, primary)
                    \/ P!CommitAddContact(c)
                    \/ \E e \in Ref : P!AddEvidence(c, e) \/ P!BeginPromote(c, e)
                    \/ P!CommitPromote(c)
                    \/ P!Abort(c)
             PROVE  SupplierInv'
  BY DEF P!RegisterNext
<1>a. tx[c] \in SupplierTx /\ P!NoTx \in SupplierTx /\ P!NoTx.op = "none"
  BY DEF SupplierInv, SupplierTypes, SupplierTx, P!NoTx
<1>1. ASSUME NEW list \in P!Lists, P!CreateSupplier(c, list) PROVE SupplierInv'
  <2> DEFINE l == P!DedupePrimary(list)
             Flags(e) == {l[i].primary : i \in {j \in DOMAIN l : l[j].email = e}}
  <2>1. /\ UNCHANGED <<questionnaires, refs, records, passports, tx, outdated>>
        /\ \A e \in Contact : contacts'[e] = CASE TRUE \in Flags(e) -> "primary"
                                              [] Flags(e) = {FALSE} -> "plain"
                                              [] OTHER -> "absent"
    BY <1>1 DEF P!CreateSupplier
  <2>2. list = <<>> \/ list \in [1 .. 2 -> [email : Contact, primary : BOOLEAN]]
    BY DEF P!Lists
  <2>3. \A i, j \in DOMAIN l : l[i].primary = TRUE /\ l[j].primary = TRUE => i = j
    <3>1. CASE list = <<>>
      BY <3>1 DEF P!DedupePrimary
    <3>2. CASE list \in [1 .. 2 -> [email : Contact, primary : BOOLEAN]]
      <4>1. /\ DOMAIN l = {1, 2}
            /\ l[2].primary => ~list[1].primary
            /\ l[1].primary => list[1].primary
        <5>1. DOMAIN list = {1, 2}
          BY <3>2
        <5>2. /\ l[1] = [list[1] EXCEPT !.primary = @ /\ \A j \in 1 .. 1 - 1 : ~list[j].primary]
              /\ l[2] = [list[2] EXCEPT !.primary = @ /\ \A j \in 1 .. 2 - 1 : ~list[j].primary]
          BY <5>1 DEF P!DedupePrimary
        <5>3. /\ list[1] \in [email : Contact, primary : BOOLEAN]
              /\ list[2] \in [email : Contact, primary : BOOLEAN]
          BY <3>2
        <5>4. /\ l[1].primary = (list[1].primary /\ \A j \in 1 .. 1 - 1 : ~list[j].primary)
              /\ l[2].primary = (list[2].primary /\ \A j \in 1 .. 2 - 1 : ~list[j].primary)
          <6> HIDE DEF l
          <6> QED BY <5>2, <5>3
        <5>5. 1 \in 1 .. 2 - 1
          OBVIOUS
        <5>6. DOMAIN l = {1, 2}
          BY <5>1 DEF P!DedupePrimary
        <5> HIDE DEF l
        <5> QED BY <5>4, <5>5, <5>6
      <4>2. ~(l[1].primary = TRUE /\ l[2].primary = TRUE)
        <5> HIDE DEF l
        <5> QED BY <4>1
      <4> QED BY <4>1, <4>2
    <3> QED BY <2>2, <3>1, <3>2
  <2>4. OneIsPrimary'
    <3> SUFFICES ASSUME NEW e \in Contact, NEW d \in Contact,
                        contacts'[e] = "primary", contacts'[d] = "primary"
                 PROVE  e = d
      BY DEF OneIsPrimary
    <3>1. TRUE \in Flags(e) /\ TRUE \in Flags(d)
      BY <2>1
    <3>2. PICK i \in DOMAIN l : l[i].email = e /\ l[i].primary = TRUE
      BY <3>1
    <3>3. PICK j \in DOMAIN l : l[j].email = d /\ l[j].primary = TRUE
      BY <3>1
    <3> QED BY <2>3, <3>2, <3>3
  <2>5. SupplierTypes' /\ TimesDiffer' /\ Numbered' /\ OneIsOpen' /\ SubmittedIsComplete'
        /\ OneRecordEach' /\ PassportShowsLatest'
    BY <2>1 DEF SupplierInv, SupplierTypes, TimesDiffer, Numbered, OneIsOpen, SubmittedIsComplete,
       OneRecordEach, PassportShowsLatest
  <2> QED BY <2>4, <2>5 DEF SupplierInv
<1>2. ASSUME NEW archived \in BOOLEAN, P!SetArchived(c, archived) PROVE SupplierInv'
  BY <1>2 DEF P!SetArchived, SupplierInv, SupplierTypes, TimesDiffer, Numbered, OneIsOpen,
     SubmittedIsComplete, OneRecordEach, PassportShowsLatest, OneIsPrimary
<1>3. ASSUME NEW e \in Contact, NEW primary \in BOOLEAN, P!BeginAddContact(c, e, primary)
      PROVE  SupplierInv'
  <2> DEFINE t == [op |-> "contact", email |-> e, primary |-> primary, seen |-> P!Known]
  <2>1. t \in SupplierTx /\ t.op = "contact"
    BY DEF SupplierTx, P!Known
  <2>2. tx' = [tx EXCEPT ![c] = t] /\ UNCHANGED <<contacts, questionnaires, refs, records, passports, outdated>>
    BY <1>3 DEF P!BeginAddContact, P!Begins
  <2> HIDE DEF t
  <2> QED BY <2>1, <2>2, SupplierTxStep
<1>4. ASSUME P!CommitAddContact(c) PROVE SupplierInv'
  <2> DEFINE t == tx[c]
  <2>1. /\ t.op = "contact" /\ t.email \notin P!Known
        /\ \A e \in Contact :
             contacts'[e] = IF e = t.email THEN IF t.primary THEN "primary" ELSE "plain"
                            ELSE IF t.primary /\ e \in t.seen THEN "plain" ELSE contacts[e]
        /\ outdated' = outdated \cup IF t.seen # P!Known THEN {"contacts"} ELSE {}
        /\ tx' = [tx EXCEPT ![c] = P!NoTx]
        /\ UNCHANGED <<questionnaires, refs, records, passports>>
    BY <1>4 DEF P!CommitAddContact, P!Notes, P!Ends
  <2>2. t.email \in Contact
    BY <1>a, <2>1, SupplierRequests
  <2>3. tx' \in [Client -> SupplierTx] /\ TimesDiffer'
    BY <1>a, <2>1, TimesStay DEF SupplierInv
  <2> HIDE DEF t
  <2>4. SupplierTypes'
    BY <2>1, <2>3 DEF SupplierInv, SupplierTypes
  <2>5. OneIsPrimary'
    <3> SUFFICES ASSUME "contacts" \notin outdated', NEW e \in Contact, NEW d \in Contact,
                        contacts'[e] = "primary", contacts'[d] = "primary"
                 PROVE  e = d
      BY DEF OneIsPrimary
    <3>1. t.seen = P!Known /\ "contacts" \notin outdated
      BY <2>1
    <3>2. CASE t.primary
      <4>1. ASSUME NEW x \in Contact, contacts'[x] = "primary" PROVE x = t.email
        BY <2>1, <3>1, <3>2, <4>1 DEF P!Known
      <4> QED BY <4>1
    <3>3. CASE ~t.primary
      BY <2>1, <3>1, <3>3 DEF SupplierInv, OneIsPrimary
    <3> QED BY <3>2, <3>3
  <2>6. Numbered' /\ OneIsOpen' /\ SubmittedIsComplete' /\ OneRecordEach' /\ PassportShowsLatest'
    BY <2>1 DEF SupplierInv, Numbered, OneIsOpen, SubmittedIsComplete, OneRecordEach, PassportShowsLatest
  <2> QED BY <2>3, <2>4, <2>5, <2>6 DEF SupplierInv
<1>5. ASSUME NEW e \in Ref, P!AddEvidence(c, e) PROVE SupplierInv'
  <2>1. /\ refs[e] = "absent" /\ refs' = [refs EXCEPT ![e] = "open"]
        /\ UNCHANGED <<contacts, questionnaires, records, passports, tx, outdated>>
    BY <1>5 DEF P!AddEvidence
  <2>2. SupplierTypes' /\ OneRecordEach'
    BY <2>1 DEF SupplierInv, SupplierTypes, OneRecordEach
  <2> QED BY <2>1, <2>2 DEF SupplierInv, TimesDiffer, Numbered, OneIsOpen, SubmittedIsComplete,
          PassportShowsLatest, OneIsPrimary
<1>6. ASSUME NEW e \in Ref, P!BeginPromote(c, e) PROVE SupplierInv'
  <2> DEFINE t == [op |-> "promote", ref |-> e]
  <2>1. t \in SupplierTx /\ t.op = "promote"
    BY DEF SupplierTx
  <2>2. tx' = [tx EXCEPT ![c] = t] /\ UNCHANGED <<contacts, questionnaires, refs, records, passports, outdated>>
    BY <1>6 DEF P!BeginPromote, P!Begins
  <2> HIDE DEF t
  <2> QED BY <2>1, <2>2, SupplierTxStep
<1>7. ASSUME P!CommitPromote(c) PROVE SupplierInv'
  <2> DEFINE e == tx[c].ref
  <2>1. /\ tx[c].op = "promote"
        /\ records' = [records EXCEPT ![e] = @ + 1] /\ refs' = [refs EXCEPT ![e] = "promoted"]
        /\ outdated' = outdated \cup IF refs[e] = "promoted" THEN {"refs"} ELSE {}
        /\ tx' = [tx EXCEPT ![c] = P!NoTx]
        /\ UNCHANGED <<contacts, questionnaires, passports>>
    BY <1>7 DEF P!CommitPromote, P!Notes, P!Ends
  <2>2. e \in Ref
    BY <1>a, <2>1, SupplierRequests
  <2>3. tx' \in [Client -> SupplierTx] /\ TimesDiffer'
    BY <1>a, <2>1, TimesStay DEF SupplierInv
  <2> HIDE DEF e
  <2>4. refs \in [Ref -> {"absent", "open", "promoted"}] /\ records \in [Ref -> Nat]
    BY DEF SupplierInv, SupplierTypes
  <2>5. SupplierTypes'
    BY <2>1, <2>2, <2>3, <2>4 DEF SupplierInv, SupplierTypes
  <2>6. OneRecordEach'
    <3> SUFFICES ASSUME NEW d \in Ref
                 PROVE  /\ (records'[d] > 0) <=> (refs'[d] = "promoted")
                        /\ "refs" \notin outdated' => records'[d] <= 1
      BY DEF OneRecordEach
    <3>1. CASE d = e
      BY <2>1, <2>2, <2>4, <3>1 DEF SupplierInv, OneRecordEach
    <3>2. CASE d # e
      BY <2>1, <2>2, <2>4, <3>2 DEF SupplierInv, OneRecordEach
    <3> QED BY <3>1, <3>2
  <2>7. Numbered' /\ OneIsOpen' /\ SubmittedIsComplete' /\ PassportShowsLatest' /\ OneIsPrimary'
    BY <2>1 DEF SupplierInv, Numbered, OneIsOpen, SubmittedIsComplete, PassportShowsLatest, OneIsPrimary
  <2> QED BY <2>3, <2>5, <2>6, <2>7 DEF SupplierInv
<1>8. ASSUME P!Abort(c) PROVE SupplierInv'
  BY <1>a, <1>8, SupplierTxStep DEF P!Abort, P!Ends
<1> QED BY <1>1, <1>2, <1>3, <1>4, <1>5, <1>6, <1>7, <1>8

(* A questionnaire that is committed to: what it becomes, and what is known *)
(* of it if the transaction's read is still true.                           *)
LEMMA QuestionnaireCommits ==
    ASSUME SupplierInv, NEW c \in Client, NEW r \in Request, NEW q \in Questionnaire,
           questionnaires' = [questionnaires EXCEPT ![r] = q],
           tx' = [tx EXCEPT ![c] = P!NoTx], UNCHANGED <<contacts, refs, records>>,
           \/ q.at = questionnaires[r].at
           \/ tx[c].op = "submit" /\ q.at = tx[c].at /\ q.at # 0,
           outdated \subseteq outdated',
           \A what \in {"contacts", "refs"} : what \in outdated' => what \in outdated,
           outdated' \cap {"open", "request"} = {} /\ q.status \in P!Open =>
             \/ questionnaires[r].status \in P!Open
             \/ P!OpenRequests = {},
           "request" \notin outdated' /\ q.status \in P!Locked =>
             q.at # 0 /\ P!Issues(q.answers) = {},
           \/ /\ UNCHANGED passports
              /\ outdated' \cap {"request", "passport"} = {} =>
                   questionnaires[r].status \notin P!Locked /\ q.status \notin P!Locked
           \/ P!Issue(P!BuildPassport(questionnaires'), P!Newest)
    PROVE  SupplierInv'
<1> USE DEF SupplierInv
<1>1. /\ questionnaires \in [Request -> Questionnaire] /\ tx \in [Client -> SupplierTx]
      /\ passports \in Seq(Passport)
  BY DEF SupplierTypes
<1>2. /\ questionnaires' \in [Request -> Questionnaire]
      /\ \A s \in Request : questionnaires'[s] = IF s = r THEN q ELSE questionnaires[s]
  BY <1>1
<1>3. /\ tx' \in [Client -> SupplierTx]
      /\ \A d \in Client : tx'[d] = IF d = c THEN P!NoTx ELSE tx[d]
  BY <1>1 DEF SupplierTx
<1>4. TimesDiffer'
  <2>1. P!NoTx.op # "submit"
    BY DEF P!NoTx
  <2> QED BY <1>2, <1>3, <2>1 DEF TimesDiffer
<1>5. OneIsOpen'
  BY <1>2 DEF OneIsOpen, P!OpenRequests
<1>6. SubmittedIsComplete'
  BY <1>2 DEF SubmittedIsComplete
<1>7. /\ passports' \in Seq(Passport) /\ Numbered' /\ PassportShowsLatest'
  <2>1. CASE UNCHANGED passports
    <3>1. PassportShowsLatest'
      <4> SUFFICES ASSUME outdated' \cap {"request", "passport"} = {},
                          NEW s \in P!Latest(questionnaires')
                   PROVE  /\ passports # <<>>
                          /\ passports[Len(passports)].data.submission = {questionnaires'[s].answers}
        BY <2>1 DEF PassportShowsLatest
      <4>1. CASE questionnaires[r].status \notin P!Locked /\ q.status \notin P!Locked
        <5>1. \A x \in Request :
                \/ questionnaires'[x] = questionnaires[x]
                \/ questionnaires[x].status \notin P!Locked /\ questionnaires'[x].status \notin P!Locked
          BY <1>2, <4>1
        <5>2. /\ P!Latest(questionnaires') = P!Latest(questionnaires)
              /\ \A x \in P!Latest(questionnaires) : questionnaires'[x] = questionnaires[x]
          <6> DEFINE more == questionnaires'
          <6>1. more \in [Request -> Questionnaire]
            BY <1>2
          <6>2. \A x \in Request :
                  \/ more[x] = questionnaires[x]
                  \/ questionnaires[x].status \notin P!Locked /\ more[x].status \notin P!Locked
            BY <5>1
          <6>3. /\ P!Latest(more) = P!Latest(questionnaires)
                /\ \A x \in P!Latest(questionnaires) : more[x] = questionnaires[x]
            <7> HIDE DEF more
            <7> QED BY <1>1, <6>1, <6>2, LatestStays
          <6> QED BY <6>3
        <5> QED BY <5>2 DEF PassportShowsLatest
      <4>2. CASE P!Issue(P!BuildPassport(questionnaires'), P!Newest)
        <5>1. P!BuildPassport(questionnaires') \in PassportData
          BY <1>2, BuiltPassport
        <5>2. /\ passports' # <<>>
              /\ passports'[Len(passports')].data = P!BuildPassport(questionnaires')
          BY <1>1, <4>2, <5>1, PassportIssued
        <5>3. P!BuildPassport(questionnaires').submission = {questionnaires'[s].answers}
          BY <1>2, <1>4, LatestIsOne DEF TimesDiffer
        <5> QED BY <2>1, <5>2, <5>3
      <4> QED BY <4>1, <4>2
    <3> QED BY <1>1, <2>1, <3>1 DEF Numbered
  <2>2. CASE P!Issue(P!BuildPassport(questionnaires'), P!Newest)
    <3>1. P!BuildPassport(questionnaires') \in PassportData
      BY <1>2, BuiltPassport
    <3>2. /\ passports' \in Seq(Passport) /\ Numbered' /\ passports' # <<>>
          /\ passports'[Len(passports')].data = P!BuildPassport(questionnaires')
      BY <1>1, <2>2, <3>1, PassportIssued
    <3>3. ASSUME NEW s \in P!Latest(questionnaires')
          PROVE  P!BuildPassport(questionnaires').submission = {questionnaires'[s].answers}
      BY <1>2, <1>4, LatestIsOne DEF TimesDiffer
    <3> QED BY <3>2, <3>3 DEF PassportShowsLatest
  <2> QED BY <2>1, <2>2
<1>8. SupplierTypes'
  BY <1>2, <1>3, <1>7 DEF SupplierTypes
<1>9. OneIsPrimary' /\ OneRecordEach'
  BY DEF OneIsPrimary, OneRecordEach
<1> QED BY <1>4, <1>5, <1>6, <1>7, <1>8, <1>9

(* The questionnaires: asked, answered, submitted, accepted, and the        *)
(* passport recomputed.                                                     *)
LEMMA QuestionnaireStep == SupplierInv /\ P!QuestionnaireNext => SupplierInv'
<1> SUFFICES ASSUME SupplierInv, NEW c \in Client,
                    \/ P!BeginCreate(c)
                    \/ \E r \in Request :
                         P!CommitCreate(c, r) \/ P!BeginSave(c, r) \/ P!BeginSubmit(c, r) \/ P!BeginAccept(c, r)
                    \/ \E input \in [Question -> P!Answer] : P!CommitSave(c, input)
                    \/ P!CommitSubmit(c) \/ P!CommitAccept(c)
                    \/ P!BeginRecompute(c) \/ P!ReadVersion(c) \/ P!CommitRecompute(c)
                    \/ P!Abort(c)
             PROVE  SupplierInv'
  BY DEF P!QuestionnaireNext, P!BuyerNext
<1>a. /\ tx[c] \in SupplierTx /\ P!NoTx \in SupplierTx /\ P!NoTx.op = "none"
      /\ questionnaires \in [Request -> Questionnaire]
  BY DEF SupplierInv, SupplierTypes, SupplierTx, P!NoTx
<1>b. \A r \in Request :
        /\ questionnaires[r].answers \in AnswerSet
        /\ P!Unlocked(r) => questionnaires[r].status \in P!Open
  BY <1>a DEF Questionnaire, P!Unlocked, P!Open, P!Locked
<1>1. ASSUME P!BeginCreate(c) PROVE SupplierInv'
  <2> DEFINE t == [op |-> "create"]
  <2>1. t \in SupplierTx /\ t.op = "create"
    BY DEF SupplierTx
  <2>2. tx' = [tx EXCEPT ![c] = t] /\ UNCHANGED <<contacts, questionnaires, refs, records, passports, outdated>>
    BY <1>1 DEF P!BeginCreate, P!Begins
  <2> HIDE DEF t
  <2> QED BY <2>1, <2>2, SupplierTxStep
<1>2. ASSUME NEW r \in Request, P!BeginSave(c, r) PROVE SupplierInv'
  <2> DEFINE t == [op |-> "save", req |-> r, row |-> P!Row(r)]
  <2>1. t \in SupplierTx /\ t.op = "save"
    BY <1>2, <1>b DEF SupplierTx, P!BeginSave, P!Row
  <2>2. tx' = [tx EXCEPT ![c] = t] /\ UNCHANGED <<contacts, questionnaires, refs, records, passports, outdated>>
    BY <1>2 DEF P!BeginSave, P!Begins
  <2> HIDE DEF t
  <2> QED BY <2>1, <2>2, SupplierTxStep
<1>3. ASSUME NEW r \in Request, P!BeginSubmit(c, r) PROVE SupplierInv'
  <2>1. PICK at \in 1 .. MaxTime :
          P!Now(at) /\ P!Begins(c, [op |-> "submit", req |-> r, row |-> P!Row(r), at |-> at])
    BY <1>3 DEF P!BeginSubmit
  <2> DEFINE t == [op |-> "submit", req |-> r, row |-> P!Row(r), at |-> at]
  <2>2. at \in Nat \ {0}
    BY IntakeAssumption DEF P!SupplierAssumption
  <2>3. t \in SupplierTx /\ t.op = "submit" /\ t.at = at
    BY <1>3, <1>b, <2>2 DEF SupplierTx, P!BeginSubmit, P!Row, CompleteAnswers
  <2>4. tx' = [tx EXCEPT ![c] = t] /\ UNCHANGED <<contacts, questionnaires, refs, records, passports, outdated>>
    BY <1>3, <2>1 DEF P!BeginSubmit, P!Begins
  <2>5. /\ \A s \in Request : at # questionnaires[s].at
        /\ \A d \in Client : tx[d].op = "submit" => at # tx[d].at
    BY <2>1, <2>2 DEF P!Now, P!Taken
  <2> HIDE DEF t
  <2> QED BY <2>3, <2>4, <2>5, SupplierTxStep
<1>4. ASSUME NEW r \in Request, P!BeginAccept(c, r) PROVE SupplierInv'
  <2> DEFINE t == [op |-> "accept", req |-> r, row |-> P!Row(r)]
  <2>1. t \in SupplierTx /\ t.op = "accept"
    BY <1>4, <1>b DEF SupplierTx, P!BeginAccept, P!Row
  <2>2. tx' = [tx EXCEPT ![c] = t] /\ UNCHANGED <<contacts, questionnaires, refs, records, passports, outdated>>
    BY <1>4 DEF P!BeginAccept, P!Begins
  <2> HIDE DEF t
  <2> QED BY <2>1, <2>2, SupplierTxStep
<1>5. ASSUME P!BeginRecompute(c) PROVE SupplierInv'
  <2> DEFINE t == [op |-> "build", data |-> P!BuildPassport(questionnaires)]
  <2>1. t \in SupplierTx /\ t.op = "build"
    BY <1>a, BuiltPassport DEF SupplierTx
  <2>2. tx' = [tx EXCEPT ![c] = t] /\ UNCHANGED <<contacts, questionnaires, refs, records, passports, outdated>>
    BY <1>5 DEF P!BeginRecompute, P!Begins
  <2> HIDE DEF t
  <2> QED BY <2>1, <2>2, SupplierTxStep
<1>c. P!Newest \in Nat
  <2>1. CASE passports = <<>>
    BY <2>1 DEF P!Newest
  <2>2. CASE passports # <<>>
    <3>1. passports \in Seq(Passport) /\ Len(passports) \in 1 .. Len(passports)
      BY <2>2 DEF SupplierInv, SupplierTypes
    <3>2. passports[Len(passports)] \in Passport
      BY <3>1
    <3> QED BY <2>2, <3>2 DEF P!Newest, Passport
  <2> QED BY <2>1, <2>2
<1>6. ASSUME P!ReadVersion(c) PROVE SupplierInv'
  <2> DEFINE t == [op |-> "issue", data |-> tx[c].data, last |-> P!Newest]
  <2>1. tx[c].data \in PassportData
    BY <1>a, <1>6, SupplierRequests DEF P!ReadVersion
  <2>2. t \in SupplierTx /\ t.op = "issue"
    BY <1>c, <2>1 DEF SupplierTx
  <2>3. tx' = [tx EXCEPT ![c] = t] /\ UNCHANGED <<contacts, questionnaires, refs, records, passports, outdated>>
    BY <1>6 DEF P!ReadVersion
  <2> HIDE DEF t
  <2> QED BY <2>2, <2>3, SupplierTxStep
<1>7. ASSUME P!CommitRecompute(c) PROVE SupplierInv'
  <2> DEFINE t == tx[c]
  <2>1. /\ t.op = "issue" /\ t.last = P!Newest /\ P!Issue(t.data, t.last)
        /\ outdated' = outdated \cup
             IF t.data.submission # P!BuildPassport(questionnaires).submission THEN {"passport"} ELSE {}
        /\ tx' = [tx EXCEPT ![c] = P!NoTx]
        /\ UNCHANGED <<contacts, questionnaires, refs, records>>
    BY <1>7 DEF P!CommitRecompute, P!VersionIsFree, P!Notes, P!Ends
  <2>2. t.data \in PassportData
    BY <1>a, <2>1, SupplierRequests
  <2>3. tx' \in [Client -> SupplierTx] /\ TimesDiffer'
    BY <1>a, <2>1, TimesStay DEF SupplierInv
  <2> HIDE DEF t
  <2>4. /\ passports' \in Seq(Passport) /\ Numbered' /\ passports' # <<>>
        /\ passports'[Len(passports')].data = t.data
    BY <2>1, <2>2, PassportIssued DEF SupplierInv, SupplierTypes
  <2>5. SupplierTypes'
    BY <2>1, <2>3, <2>4 DEF SupplierInv, SupplierTypes
  <2>6. PassportShowsLatest'
    <3> SUFFICES ASSUME "passport" \notin outdated', NEW r \in P!Latest(questionnaires)
                 PROVE  t.data.submission = {questionnaires[r].answers}
      BY <2>1, <2>4 DEF PassportShowsLatest
    <3>1. P!BuildPassport(questionnaires).submission = {questionnaires[r].answers}
      BY <1>a, LatestIsOne DEF SupplierInv, TimesDiffer
    <3> QED BY <2>1, <3>1
  <2>7. OneIsOpen' /\ SubmittedIsComplete' /\ OneIsPrimary' /\ OneRecordEach'
    BY <2>1 DEF SupplierInv, OneIsOpen, SubmittedIsComplete, OneIsPrimary, OneRecordEach
  <2> QED BY <2>3, <2>4, <2>5, <2>6, <2>7 DEF SupplierInv
<1>8. ASSUME NEW r \in Request, P!CommitCreate(c, r) PROVE SupplierInv'
  <2> DEFINE q == [questionnaires[r] EXCEPT !.status = "sent"]
  <2>1. /\ questionnaires[r].status = "none" /\ questionnaires' = [questionnaires EXCEPT ![r] = q]
        /\ outdated' = outdated \cup IF P!OpenRequests # {} THEN {"open"} ELSE {}
        /\ tx' = [tx EXCEPT ![c] = P!NoTx]
        /\ UNCHANGED <<contacts, refs, records, passports>>
    BY <1>8, <1>a DEF P!CommitCreate, P!Notes, P!Ends
  <2>2. q \in Questionnaire /\ q.at = questionnaires[r].at /\ q.status = "sent"
    BY <1>a DEF Questionnaire
  <2>3. q.status \notin P!Locked /\ questionnaires[r].status \notin P!Locked
    BY <2>1, <2>2 DEF P!Locked
  <2> HIDE DEF q
  <2> QED BY <2>1, <2>2, <2>3, QuestionnaireCommits
<1>9. ASSUME NEW input \in [Question -> P!Answer], P!CommitSave(c, input) PROVE SupplierInv'
  <2> DEFINE t == tx[c]
             r == t.req
             s == IF t.row[1] = "sent" THEN "in_progress" ELSE t.row[1]
             q == [questionnaires[r] EXCEPT !.answers = P!PickKnown(input), !.status = s]
  <2>0. t.op = "save"
    BY <1>9 DEF P!CommitSave
  <2>1. r \in Request /\ t.row[1] \in P!Open /\ s \in P!Open
    BY <1>a, <2>0, SupplierRequests DEF P!Open
  <2>2. /\ questionnaires' = [questionnaires EXCEPT ![r] = q]
        /\ outdated' = outdated \cup IF t.row # P!Row(r) THEN {"request"} ELSE {}
        /\ tx' = [tx EXCEPT ![c] = P!NoTx]
        /\ UNCHANGED <<contacts, refs, records, passports>>
    BY <1>9, <1>a, <2>1 DEF P!CommitSave, P!Notes, P!Ends
  <2>3. P!PickKnown(input) \in AnswerSet
    BY DEF P!PickKnown, P!Answer, AnswerSet
  <2>4. q \in Questionnaire /\ q.at = questionnaires[r].at /\ q.status = s
    BY <1>a, <2>1, <2>3 DEF Questionnaire, P!Open
  <2>5. t.row = P!Row(r) => questionnaires[r].status \in P!Open
    BY <2>1 DEF P!Row
  <2>6. \A x \in P!Open : x \notin P!Locked
    BY DEF P!Open, P!Locked
  <2> HIDE DEF q, s, r, t
  <2> QED BY <2>1, <2>2, <2>4, <2>5, <2>6, QuestionnaireCommits
<1>10. ASSUME P!CommitSubmit(c) PROVE SupplierInv'
  <2> DEFINE t == tx[c]
             r == t.req
             q == [questionnaires[r] EXCEPT !.status = "submitted", !.at = t.at]
  <2>0. t.op = "submit"
    BY <1>10 DEF P!CommitSubmit
  <2>1. r \in Request /\ t.row \in P!Open \X CompleteAnswers /\ t.at \in Nat \ {0}
    BY <1>a, <2>0, SupplierRequests
  <2>2. /\ questionnaires' = [questionnaires EXCEPT ![r] = q]
        /\ P!Issue(P!BuildPassport(questionnaires'), P!Newest)
        /\ outdated' = outdated \cup IF t.row # P!Row(r) THEN {"request"} ELSE {}
        /\ tx' = [tx EXCEPT ![c] = P!NoTx]
        /\ UNCHANGED <<contacts, refs, records>>
    BY <1>10, <1>a, <2>1 DEF P!CommitSubmit, P!Notes, P!Ends
  <2>3. /\ q \in Questionnaire /\ q.at = t.at /\ q.at # 0 /\ q.status = "submitted"
        /\ q.answers = questionnaires[r].answers
    BY <1>a, <2>1 DEF Questionnaire
  <2>4. t.row = P!Row(r) => P!Issues(questionnaires[r].answers) = {}
    BY <2>1 DEF P!Row, CompleteAnswers
  <2>5. q.status \notin P!Open
    BY <2>3 DEF P!Open
  <2> HIDE DEF q, r
  <2> QED BY <2>0, <2>1, <2>2, <2>3, <2>4, <2>5, QuestionnaireCommits
<1>11. ASSUME P!CommitAccept(c) PROVE SupplierInv'
  <2> DEFINE t == tx[c]
             r == t.req
             q == [questionnaires[r] EXCEPT !.status = "accepted"]
  <2>0. t.op = "accept"
    BY <1>11 DEF P!CommitAccept
  <2>1. r \in Request /\ t.row[1] = "submitted"
    BY <1>a, <2>0, SupplierRequests
  <2>2. /\ questionnaires' = [questionnaires EXCEPT ![r] = q]
        /\ P!Issue(P!BuildPassport(questionnaires'), P!Newest)
        /\ outdated' = outdated \cup IF t.row # P!Row(r) THEN {"request"} ELSE {}
        /\ tx' = [tx EXCEPT ![c] = P!NoTx]
        /\ UNCHANGED <<contacts, refs, records>>
    BY <1>11, <1>a, <2>1 DEF P!CommitAccept, P!Notes, P!Ends
  <2>3. /\ q \in Questionnaire /\ q.at = questionnaires[r].at /\ q.status = "accepted"
        /\ q.answers = questionnaires[r].answers
    BY <1>a, <2>1 DEF Questionnaire
  <2>4. t.row = P!Row(r) => questionnaires[r].status \in P!Locked
    BY <2>1 DEF P!Row, P!Locked
  <2>5. "request" \notin outdated' =>
          questionnaires[r].at # 0 /\ P!Issues(questionnaires[r].answers) = {}
    BY <2>1, <2>2, <2>4 DEF SupplierInv, SubmittedIsComplete
  <2>6. q.status \notin P!Open
    BY <2>3 DEF P!Open
  <2> HIDE DEF q, r
  <2> QED BY <2>1, <2>2, <2>3, <2>5, <2>6, QuestionnaireCommits
<1>12. ASSUME P!Abort(c) PROVE SupplierInv'
  BY <1>a, <1>12, SupplierTxStep DEF P!Abort, P!Ends
<1> QED BY <1>1, <1>2, <1>3, <1>4, <1>5, <1>6, <1>7, <1>8, <1>9, <1>10, <1>11, <1>12

(* Every step of the portal.                                                *)
LEMMA SupplierStep == SupplierInv /\ [P!Next]_supplierVars => SupplierInv'
<1>1. ASSUME SupplierInv, UNCHANGED supplierVars PROVE SupplierInv'
  BY <1>1 DEF supplierVars, SupplierInv, SupplierTypes, TimesDiffer, Numbered, OneIsOpen,
     SubmittedIsComplete, PassportShowsLatest, OneIsPrimary, OneRecordEach
<1> QED BY <1>1, RegisterStep, QuestionnaireStep DEF P!Next

(* A set whose members are all the same has one at most.                    *)
LEMMA OneAtMost ==
    ASSUME NEW S, \A x, y \in S : x = y
    PROVE  P!Cardinality(S) <= 1
<1>1. CASE S = {}
  <2>1. Cardinality(S) = 0
    BY <1>1, FS_EmptySet
  <2> QED BY <2>1 DEF P!Cardinality, P!IsFiniteSet, Cardinality, IsFiniteSet
<1>2. CASE S # {}
  <2>1. PICK x : S = {x}
    BY <1>2
  <2>2. Cardinality(S) = 1
    BY <2>1, FS_Singleton
  <2> QED BY <2>2 DEF P!Cardinality, P!IsFiniteSet, Cardinality, IsFiniteSet
<1> QED BY <1>1, <1>2

(* What the checks of the portal promise.                                   *)
LEMMA SupplierPromises == SupplierInv => P!Consistent
<1> SUFFICES ASSUME SupplierInv PROVE P!Consistent
  OBVIOUS
<1>1. outdated \cap {"open", "request"} = {} => P!Cardinality(P!OpenRequests) <= 1
  <2> SUFFICES ASSUME outdated \cap {"open", "request"} = {}
               PROVE  P!Cardinality(P!OpenRequests) <= 1
    OBVIOUS
  <2>1. \A r, s \in P!OpenRequests : r = s
    BY DEF SupplierInv, OneIsOpen, P!OpenRequests
  <2> QED BY <2>1, OneAtMost
<1>2. "contacts" \notin outdated =>
        P!Cardinality({e \in Contact : contacts[e] = "primary"}) <= 1
  <2> SUFFICES ASSUME "contacts" \notin outdated
               PROVE  P!Cardinality({e \in Contact : contacts[e] = "primary"}) <= 1
    OBVIOUS
  <2> DEFINE S == {e \in Contact : contacts[e] = "primary"}
  <2>1. \A x, y \in S : x = y
    BY DEF SupplierInv, OneIsPrimary
  <2> HIDE DEF S
  <2>2. P!Cardinality(S) <= 1
    BY <2>1, OneAtMost
  <2> QED BY <2>2 DEF S
<1> QED BY <1>1, <1>2 DEF P!Consistent, SupplierInv, SubmittedIsComplete, PassportShowsLatest, OneRecordEach

(* No step takes back what is submitted, but for a transaction that had     *)
(* read it before, and a passport is only ever added to the chain.          *)
LEMMA SubmissionsKept ==
    SupplierInv /\ [P!Next]_supplierVars
      => P!SubmissionStands /\ (passports' = passports \/ P!Chain!Next)
<1> SUFFICES ASSUME SupplierInv, [P!Next]_supplierVars
             PROVE  P!SubmissionStands /\ (passports' = passports \/ P!Chain!Next)
  OBVIOUS
<1>a. /\ questionnaires \in [Request -> Questionnaire] /\ tx \in [Client -> SupplierTx]
      /\ passports \in Seq(Passport) /\ Numbered
  BY DEF SupplierInv, SupplierTypes
<1>b. \A s \in P!Open : s \notin P!Locked
  BY DEF P!Open, P!Locked
<1>1. CASE UNCHANGED <<questionnaires, passports>>
  BY <1>1 DEF P!SubmissionStands
<1>2. ASSUME NEW c \in Client, P!CommitRecompute(c)
      PROVE  P!SubmissionStands /\ P!Chain!Next
  <2>1. /\ tx[c].op = "issue" /\ tx[c].last = P!Newest /\ P!Issue(tx[c].data, tx[c].last)
        /\ UNCHANGED questionnaires
    BY <1>2 DEF P!CommitRecompute, P!VersionIsFree
  <2>2. tx[c].data \in PassportData
    BY <1>a, <2>1, SupplierRequests
  <2>3. P!Chain!Next
    BY <1>a, <2>1, <2>2, PassportIssued
  <2> QED BY <2>1, <2>3 DEF P!SubmissionStands
<1>3. ASSUME NEW c \in Client, NEW r \in Request, P!CommitCreate(c, r)
      PROVE  P!SubmissionStands /\ UNCHANGED passports
  BY <1>a, <1>3 DEF P!CommitCreate, P!SubmissionStands, P!Locked
<1>4. ASSUME NEW c \in Client, NEW r \in Request, tx[c].op \in {"save", "submit", "accept"},
             tx[c].req = r, tx' = [tx EXCEPT ![c] = P!NoTx],
             \A s \in Request : s # r => questionnaires'[s] = questionnaires[s],
             questionnaires[r].status \in P!Locked =>
               \/ tx[c].row # P!Row(r)
               \/ questionnaires'[r] = [questionnaires[r] EXCEPT !.status = "accepted"]
      PROVE  P!SubmissionStands
  <2>1. tx'[c] = P!NoTx
    BY <1>a, <1>4
  <2> QED BY <1>4, <2>1 DEF P!SubmissionStands, P!OutdatedStep
<1>5. ASSUME NEW c \in Client, NEW input \in [Question -> P!Answer], P!CommitSave(c, input)
      PROVE  P!SubmissionStands /\ UNCHANGED passports
  <2> DEFINE r == tx[c].req
  <2>1. /\ tx[c].op = "save" /\ tx' = [tx EXCEPT ![c] = P!NoTx] /\ UNCHANGED passports
        /\ r \in Request /\ tx[c].row[1] \in P!Open
    BY <1>a, <1>5, SupplierRequests DEF P!CommitSave, P!Ends
  <2>2. \A s \in Request : s # r => questionnaires'[s] = questionnaires[s]
    BY <1>a, <1>5 DEF P!CommitSave
  <2>3. questionnaires[r].status \in P!Locked => tx[c].row # P!Row(r)
    BY <1>b, <2>1 DEF P!Row
  <2> QED BY <1>4, <2>1, <2>2, <2>3
<1>6. ASSUME NEW c \in Client, P!CommitSubmit(c)
      PROVE  P!SubmissionStands /\ P!Chain!Next
  <2> DEFINE r == tx[c].req
  <2>1. /\ tx[c].op = "submit" /\ tx' = [tx EXCEPT ![c] = P!NoTx]
        /\ P!Issue(P!BuildPassport(questionnaires'), P!Newest)
        /\ questionnaires' = [questionnaires EXCEPT ![r].status = "submitted", ![r].at = tx[c].at]
    BY <1>6 DEF P!CommitSubmit, P!Ends
  <2>2. r \in Request /\ tx[c].row[1] \in P!Open /\ tx[c].at \in Nat
    BY <1>a, <2>1, SupplierRequests
  <2>3. \A s \in Request : s # r => questionnaires'[s] = questionnaires[s]
    BY <1>a, <2>1
  <2>4. questionnaires[r].status \in P!Locked => tx[c].row # P!Row(r)
    BY <1>b, <2>2 DEF P!Row
  <2>5. questionnaires' \in [Request -> Questionnaire]
    BY <1>a, <2>1, <2>2 DEF Questionnaire
  <2>6. P!BuildPassport(questionnaires') \in PassportData
    BY <2>5, BuiltPassport
  <2>7. P!Chain!Next
    BY <1>a, <2>1, <2>6, PassportIssued
  <2> QED BY <1>4, <2>1, <2>2, <2>3, <2>4, <2>7
<1>7. ASSUME NEW c \in Client, P!CommitAccept(c)
      PROVE  P!SubmissionStands /\ P!Chain!Next
  <2> DEFINE r == tx[c].req
  <2>1. /\ tx[c].op = "accept" /\ tx' = [tx EXCEPT ![c] = P!NoTx]
        /\ P!Issue(P!BuildPassport(questionnaires'), P!Newest)
        /\ questionnaires' = [questionnaires EXCEPT ![r].status = "accepted"]
    BY <1>7 DEF P!CommitAccept, P!Ends
  <2>2. r \in Request
    BY <1>a, <2>1, SupplierRequests
  <2>3. /\ \A s \in Request : s # r => questionnaires'[s] = questionnaires[s]
        /\ questionnaires'[r] = [questionnaires[r] EXCEPT !.status = "accepted"]
    BY <1>a, <2>1, <2>2
  <2>5. questionnaires' \in [Request -> Questionnaire]
    BY <1>a, <2>1, <2>2 DEF Questionnaire
  <2>6. P!BuildPassport(questionnaires') \in PassportData
    BY <2>5, BuiltPassport
  <2>7. P!Chain!Next
    BY <1>a, <2>1, <2>6, PassportIssued
  <2> QED BY <1>4, <2>1, <2>2, <2>3, <2>7
<1>8. CASE UNCHANGED supplierVars
  BY <1>8, <1>1 DEF supplierVars
<1> QED BY <1>1, <1>2, <1>3, <1>5, <1>6, <1>7, <1>8
        DEF P!Next, P!RegisterNext, P!QuestionnaireNext, P!BuyerNext, P!CreateSupplier, P!SetArchived,
            P!BeginAddContact, P!CommitAddContact, P!AddEvidence, P!BeginPromote, P!CommitPromote,
            P!Abort, P!BeginCreate, P!BeginSave, P!BeginSubmit, P!BeginAccept, P!BeginRecompute,
            P!ReadVersion

-----------------------------------------------------------------------------
(* The suite: each part keeps its own invariant, whatever the others do.    *)
IntakeInv == DocumentInv /\ ReviewInv /\ ExtractionInv /\ SupplierInv /\ ImportInv

(* The parts' invariants hold in every reachable state.                     *)
LEMMA IntakeInvariant == Spec => []IntakeInv
<1>1. Init => IntakeInv
  BY DocumentInit, ReviewInit, ExtractionInit, SupplierInit, ImportInit DEF Init, IntakeInv
<1>2. IntakeInv /\ [Next]_intakeVars => IntakeInv'
  BY Parts, DocumentStep, ReviewStep, ExtractionStep, SupplierStep, ImportStep DEF IntakeInv
<1> QED BY <1>1, <1>2, PTL DEF Spec, intakeVars

(* For any number of users, documents, runs and lines: rows have their      *)
(* types, no evidence refers to a document that is gone, datapoints and job *)
(* rows agree with promotions and model calls, an import is all or nothing. *)
THEOREM RowsAgree == Spec => []Consistent
<1>1. IntakeInv => Consistent
  BY DocumentPromises DEF IntakeInv, ReviewInv, ImportInv, ExtractionInv, X!Consistent, Consistent
<1> QED BY <1>1, IntakeInvariant, PTL

(* A document can be downloaded, unless its removal is at work on it or     *)
(* failed half way, or two requests worked on its file at a time.           *)
THEOREM DocumentsHaveObjects == Spec => []DocumentHasObject
<1>1. IntakeInv => DocumentHasObject
  BY DocumentPromises DEF IntakeInv, DocumentHasObject
<1> QED BY <1>1, IntakeInvariant, PTL

(* The checks of documents and of the supplier portal hold unless a         *)
(* concurrent request made what they had read untrue.                       *)
THEOREM ChecksHold == Spec => []ChecksHoldUnlessRaced
<1>1. IntakeInv => ChecksHoldUnlessRaced
  BY DocumentPromises, SupplierPromises DEF IntakeInv, ChecksHoldUnlessRaced
<1> QED BY <1>1, IntakeInvariant, PTL

(* However runs and reviews interleave, what awaits review was found by the *)
(* run the document shows, which counts it exactly.                         *)
THEOREM ReviewListStaysCurrent == Spec => []ReviewListIsCurrent
<1>1. IntakeInv => ReviewListIsCurrent
  BY DEF IntakeInv, ExtractionInv, ReviewListIsCurrent, X!ReviewListIsCurrent
<1> QED BY <1>1, IntakeInvariant, PTL

(* Only a review that had read the candidate before it was reviewed changes *)
(* a verdict or adds a datapoint to it.                                     *)
THEOREM ReviewsAreFinal == Spec => ReviewIsFinal
<1>1. IntakeInv /\ [Next]_intakeVars => [ReviewStands]_(X!vars)
  BY Parts, ReviewsStand DEF IntakeInv, extractionVars, X!vars
<1> QED BY <1>1, IntakeInvariant, PTL
        DEF Spec, intakeVars, ReviewIsFinal, X!ReviewIsFinal, ReviewStands

(* Only a transaction that had read a questionnaire before its submission   *)
(* changes what is submitted, and every passport extends the one chain.     *)
THEOREM SubmissionsStay == Spec => SubmissionsStand
<1>1. IntakeInv /\ [Next]_intakeVars
        => [P!SubmissionStands /\ (passports' = passports \/ P!Chain!Next)]_supplierVars
  BY Parts, SubmissionsKept DEF IntakeInv
<1> QED BY <1>1, IntakeInvariant, PTL DEF Spec, intakeVars, SubmissionsStand

=============================================================================

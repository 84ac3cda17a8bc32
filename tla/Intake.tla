------------------------------- MODULE Intake --------------------------------
(***************************************************************************)
(* Where data comes in: Documents, EvidenceLifecycle, Extraction,          *)
(* SupplierPortal and ActivityImport in one run.  Documents and Extraction *)
(* meet in the document's status and in the cascade that deletes           *)
(* candidates with their document, which neither looks at; the others in   *)
(* nothing a decision is made from.  A behaviour exercises one of them (of *)
(* the supplier portal, the register or the questionnaires), which `focus' *)
(* names, and leaves the others where they start.                          *)
(***************************************************************************)
EXTENDS Integers, TLC

CONSTANTS File, Document, Evidence, Client, None, Key, KeyOf
CONSTANTS Record, Verifier
CONSTANTS Run, Reviewer, Candidate, MaxFound, MaxReviews, NoRun
CONSTANTS Request, Contact, Ref, Question, Required, MaxPassports, MaxTime
CONSTANTS Field, Mandatory, Connector, NoConnector, MaxLines, MaxRuns

VARIABLES focus, doc, used, object, linked, promised, request, raced, torn,
          taken
VARIABLES status, version, supersedes, verification, moving, reviewed
VARIABLES cand, extraction, jobs, calls, run, holder, review, reviews,
          datapoints
VARIABLES supplier, contacts, questionnaires, refs, records, passports, tx,
          outdated
VARIABLES importRuns, activities, connectors

D == INSTANCE Documents
V == INSTANCE EvidenceLifecycle WITH Evidence <- Record, request <- moving
X == INSTANCE Extraction
P == INSTANCE SupplierPortal WITH request <- questionnaires
I == INSTANCE ActivityImport

ASSUME IntakeAssumption ==
    /\ D!DocumentAssumption /\ V!EvidenceAssumption /\ X!ExtractionAssumption
    /\ P!SupplierAssumption /\ I!ImportAssumption

documentVars == <<doc, used, object, linked, promised, request, raced, torn, taken>>
evidenceVars == <<status, version, supersedes, verification, moving, reviewed>>
extractionVars == <<cand, extraction, jobs, calls, run, holder, review,
                    reviews, datapoints>>
supplierVars == <<supplier, contacts, questionnaires, refs, records, passports,
                  tx, outdated>>
importVars == <<importRuns, activities, connectors>>

Init ==
    /\ focus \in {"documents", "evidence", "extraction", "register", "questionnaires",
                 "import"}
    /\ D!Init /\ V!Init /\ X!Init /\ P!Init /\ I!Init
    /\ supplier = "absent" <=> focus = "register"
Next ==
    /\ \/ /\ focus = "documents" /\ D!Next
          /\ UNCHANGED <<evidenceVars, extractionVars, supplierVars, importVars>>
       \/ /\ focus = "evidence" /\ V!Next
          /\ UNCHANGED <<documentVars, extractionVars, supplierVars, importVars>>
       \/ /\ focus = "extraction" /\ X!Next
          /\ UNCHANGED <<documentVars, evidenceVars, supplierVars, importVars>>
       \/ /\ focus = "register" /\ P!RegisterNext
          /\ UNCHANGED <<documentVars, evidenceVars, extractionVars, importVars>>
       \/ /\ focus = "questionnaires" /\ P!QuestionnaireNext
          /\ UNCHANGED <<documentVars, evidenceVars, extractionVars, importVars>>
       \/ /\ focus = "import" /\ I!Next
          /\ UNCHANGED <<documentVars, evidenceVars, extractionVars, supplierVars>>
    /\ UNCHANGED focus

Spec == Init /\ [][Next]_<<focus, documentVars, evidenceVars, extractionVars, supplierVars,
                          importVars>>

(* File names that differ only in what the storage key leaves out.          *)
OneKey == [f \in File |-> CHOOSE k \in Key : TRUE]

(* Evidence records are never compared with an order.                       *)
Symmetry == Permutations(Record)

-----------------------------------------------------------------------------
(* Rows and requests have their types, no evidence refers to a document     *)
(* that is gone, datapoints and job rows agree with promotions and model    *)
(* calls, and an import is all or nothing.                                  *)
Consistent ==
    CASE focus = "documents" -> D!Consistent
      [] focus = "evidence" -> V!TypeOK
      [] focus = "extraction" -> X!Consistent
      [] focus = "import" -> I!AllOrNothing
      [] OTHER -> TRUE

(* A document can be downloaded (Documents).                                *)
DocumentHasObject == D!DocumentHasObject

(* What a check promises holds unless a concurrent request made its read    *)
(* out of date: one document per file and none removed while in use         *)
(* (Documents); one open questionnaire, complete submissions shown by the   *)
(* newest passport, one primary contact and one evidence record per         *)
(* reference (SupplierPortal).                                              *)
ChecksHoldUnlessRaced ==
    D!OneDocumentPerFile /\ D!EvidenceKeepsDocument /\ P!Consistent

(* However requests interleave, no record is verified, or expires, that     *)
(* was never reviewed (EvidenceLifecycle).                                  *)
VerifiedWasReviewed == V!VerifiedWasReviewed

(* A verdict has its row, by a user who may give it (EvidenceLifecycle).    *)
VerdictOnRecord == V!VerdictOnRecord

(* A step that departs from the abstract lifecycle writes a record that has *)
(* changed since it was read (EvidenceLifecycle; EvidenceStates).           *)
ImplementsStatesUnlessStale == V!ImplementsStatesUnlessStale

(* What reviewers see is the last run's, and a review is final unless       *)
(* another had read the candidate before it (Extraction).                   *)
ReviewListIsCurrent == X!ReviewListIsCurrent
ReviewIsFinal == X!ReviewIsFinal

(* A submitted questionnaire changes only by its acceptance, unless a       *)
(* transaction had read it before it was submitted, and every passport      *)
(* extends the chain of versions (SupplierPortal; VersionChain).            *)
SubmissionsStand ==
    [][P!SubmissionStands /\ (passports' = passports \/ P!Chain!Next)]_supplierVars
=============================================================================

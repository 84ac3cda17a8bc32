----------------------------- MODULE Extraction ------------------------------
(***************************************************************************)
(* AI extraction of one document and the review of what it found           *)
(* (packages/db/src/ai-pipeline.ts).  A pipeline run is ONE transaction    *)
(* that also fetches the file and calls the model; it locks the document's *)
(* extraction row first, so runs of a document follow each other.  A       *)
(* review reads a candidate, checks that it is pending, then updates it by *)
(* id.  X_Fault is the definition X with a plausible bug (see README.md).  *)
(***************************************************************************)
EXTENDS Integers, FiniteSets

CONSTANTS
    Run,        \* pipeline runs, from the API or the queue
    Reviewer,   \* users reviewing candidates, one request at a time each
    Candidate,  \* candidate_datapoint ids
    MaxFound,   \* bound: candidates found by one run
    MaxReviews, \* bound: reviews started
    NoRun

ExtractionAssumption ==
    /\ NoRun \notin Run
    /\ IsFiniteSet(Candidate)
    /\ MaxFound \in Nat /\ MaxReviews \in Nat

VARIABLES
    cand,        \* committed candidate rows: state and the run that found them
    extraction,  \* committed document_extraction row
    jobs,        \* committed ai_job rows
    calls,       \* history: the model calls made
    run,         \* each run: its step, and the candidates it has deleted
    holder,      \* the run whose transaction holds the extraction row
    review,      \* what each reviewer's open transaction has read
    reviews,
    datapoints   \* number of datapoints created from each candidate

vars == <<cand, extraction, jobs, calls, run, holder, review, reviews, datapoints>>

CandState == {"absent", "pending", "promoted", "rejected", "deleted"}
RunStep == {"new", "parse", "classify", "extract", "write", "done", "aborted"}
Capability == {"classification", "extraction"}
AiJob == [run : Run, capability : Capability, status : {"completed", "failed"}]

NoReview == [step |-> "none"]

Init ==
    /\ cand = [c \in Candidate |-> [state |-> "absent", run |-> NoRun]]
    /\ extraction = [status |-> "none", count |-> 0, run |-> NoRun]
    /\ jobs = {}
    /\ calls = {}
    /\ run = [r \in Run |-> [step |-> "new", deleted |-> {}]]
    /\ holder = NoRun
    /\ review = [v \in Reviewer |-> NoReview]
    /\ reviews = 0
    /\ datapoints = [c \in Candidate |-> 0]

-----------------------------------------------------------------------------
(* The run upserts the extraction row and deletes the pending candidates.   *)
LockFree == holder = NoRun
Pending == {c \in Candidate : cand[c].state = "pending"}
BeginRun(r) ==
    /\ run[r].step = "new"
    /\ LockFree
    /\ holder' = r
    /\ run' = [run EXCEPT ![r] = [step |-> "parse", deleted |-> Pending]]
    /\ UNCHANGED <<cand, extraction, jobs, calls, review, reviews, datapoints>>

Ended(r, step) == [run EXCEPT ![r] = [step |-> step, deleted |-> {}]]
Unlocked(r) == IF holder = r THEN NoRun ELSE holder
WithoutDeleted(r) ==
    [c \in Candidate |->
       IF c \in run[r].deleted THEN [cand[c] EXCEPT !.state = "deleted"] ELSE cand[c]]

Parse(r) ==
    /\ run[r].step = "parse"
    /\ run' = [run EXCEPT ![r].step = "classify"]
    /\ UNCHANGED <<cand, extraction, jobs, calls, holder, review, reviews, datapoints>>

(* A file that cannot be fetched or parsed ends the run, and commits.       *)
ParseFails(r) ==
    /\ run[r].step = "parse"
    /\ extraction' = [status |-> "failed", count |-> 0, run |-> NoRun]
    /\ cand' = WithoutDeleted(r)
    /\ run' = Ended(r, "done")
    /\ holder' = Unlocked(r)
    /\ UNCHANGED <<jobs, calls, review, reviews, datapoints>>

Call(r, capability) == [run |-> r, capability |-> capability]
Classify(r) ==
    /\ run[r].step = "classify"
    /\ calls' = calls \cup {Call(r, "classification")}
    /\ run' = [run EXCEPT ![r].step = "extract"]
    /\ UNCHANGED <<cand, extraction, jobs, holder, review, reviews, datapoints>>

Extract(r) ==
    /\ run[r].step = "extract"
    /\ calls' = calls \cup {Call(r, "extraction")}
    /\ run' = [run EXCEPT ![r].step = "write"]
    /\ UNCHANGED <<cand, extraction, jobs, holder, review, reviews, datapoints>>

(* The candidates are inserted, the row is ready_for_review, and the        *)
(* transaction commits with both ai_job rows.                               *)
CandidatesAfter_KeepsOld(r, found) ==
    [c \in Candidate |-> IF c \in found THEN [state |-> "pending", run |-> r] ELSE cand[c]]
CandidatesAfter(r, found) ==
    [c \in Candidate |->
       IF c \in found THEN [state |-> "pending", run |-> r] ELSE WithoutDeleted(r)[c]]
Jobs(r) == [run : {r}, capability : Capability, status : {"completed"}]
Finish(r) ==
    /\ run[r].step = "write"
    /\ \E found \in SUBSET {c \in Candidate : cand[c].state = "absent"} :
         /\ Cardinality(found) <= MaxFound
         /\ cand' = CandidatesAfter(r, found)
         /\ extraction' = [status |-> "ready_for_review", run |-> r,
                           count |-> Cardinality(found)]
    /\ jobs' = jobs \cup Jobs(r)
    /\ run' = Ended(r, "done")
    /\ holder' = Unlocked(r)
    /\ UNCHANGED <<calls, review, reviews, datapoints>>

(* A model call that throws marks its job failed and rethrows; a call that  *)
(* takes longer than the 5 s the transaction may last, or a lost            *)
(* connection, ends the same way: everything rolls back.                    *)
AbortRun(r) ==
    /\ run[r].step \in {"parse", "classify", "extract", "write"}
    /\ calls' \in {calls, calls \cup
                     CASE run[r].step = "classify" -> {Call(r, "classification")}
                       [] run[r].step = "extract" -> {Call(r, "extraction")}
                       [] OTHER -> {}}
    /\ run' = Ended(r, "aborted")
    /\ holder' = Unlocked(r)
    /\ UNCHANGED <<cand, extraction, jobs, review, reviews, datapoints>>

-----------------------------------------------------------------------------
(* promoteCandidate and rejectCandidate.                                    *)
Reviewable_Any(s) == s \in {"pending", "promoted", "rejected"}
Reviewable(s) == s = "pending"
BeginReview(v, c) ==
    /\ review[v] = NoReview
    /\ reviews < MaxReviews /\ reviews' = reviews + 1
    /\ Reviewable(cand[c].state)
    /\ review' = [review EXCEPT ![v] = [step |-> "read", id |-> c, was |-> cand[c].state]]
    /\ UNCHANGED <<cand, extraction, jobs, calls, run, holder, datapoints>>

(* The update waits while a run holds the deleted row.                      *)
Writable(c) == \A r \in Run : c \notin run[r].deleted
PromoteCandidate(v) ==
    LET c == review[v].id
    IN  /\ review[v].step = "read"
        /\ Writable(c) /\ cand[c].state # "deleted"
        /\ cand' = [cand EXCEPT ![c].state = "promoted"]
        /\ datapoints' = [datapoints EXCEPT ![c] = @ + 1]
        /\ review' = [review EXCEPT ![v] = NoReview]
        /\ UNCHANGED <<extraction, jobs, calls, run, holder, reviews>>

RejectCandidate(v) ==
    LET c == review[v].id
    IN  /\ review[v].step = "read"
        /\ Writable(c) /\ cand[c].state # "deleted"
        /\ cand' = [cand EXCEPT ![c].state = "rejected"]
        /\ review' = [review EXCEPT ![v] = NoReview]
        /\ UNCHANGED <<extraction, jobs, calls, run, holder, reviews, datapoints>>

(* The row is gone, or the transaction fails: the review rolls back.        *)
AbortReview(v) ==
    /\ review[v] # NoReview
    /\ review' = [review EXCEPT ![v] = NoReview]
    /\ UNCHANGED <<cand, extraction, jobs, calls, run, holder, reviews, datapoints>>

(* Requests of those who review what was found, and the runs themselves.    *)
ReviewNext(v) ==
    \/ \E c \in Candidate : BeginReview(v, c)
    \/ PromoteCandidate(v)
    \/ RejectCandidate(v)
    \/ AbortReview(v)
Next ==
    \/ \E r \in Run :
         \/ BeginRun(r)
         \/ Parse(r)
         \/ ParseFails(r)
         \/ Classify(r)
         \/ Extract(r)
         \/ Finish(r)
         \/ AbortRun(r)
    \/ \E v \in Reviewer : ReviewNext(v)

Spec == Init /\ [][Next]_vars

-----------------------------------------------------------------------------
(* Types; the lock is held by a run at work, and only such a run has work.  *)
Working(r) == run[r].step \in {"parse", "classify", "extract", "write"}
TypeOK ==
    /\ cand \in [Candidate -> [state : CandState, run : Run \cup {NoRun}]]
    /\ extraction.status \in {"none", "failed", "ready_for_review"}
    /\ extraction.count \in Nat /\ extraction.run \in Run \cup {NoRun}
    /\ jobs \subseteq AiJob
    /\ calls \subseteq [run : Run, capability : Capability]
    /\ run \in [Run -> [step : RunStep, deleted : SUBSET Candidate]]
    /\ holder \in Run \cup {NoRun}
    /\ \A r \in Run : Working(r) <=> holder = r
    /\ datapoints \in [Candidate -> Nat]

(* "Clear any prior pending candidates for a clean re-run"                  *)
(* (ai-pipeline.ts:134): whatever runs and reviews interleave, every        *)
(* candidate awaiting review was found by the run the row shows, and the    *)
(* row counts the candidates of that run, those reviewed since included.    *)
PendingIsCurrent ==
    \A c \in Candidate : cand[c].state = "pending" => cand[c].run = extraction.run
CountIsExact ==
    extraction.status = "ready_for_review" =>
      extraction.count = Cardinality({c \in Candidate : cand[c].run = extraction.run})
ReviewListIsCurrent == PendingIsCurrent /\ CountIsExact

(* A review is final: neither a re-run nor another review takes it back.    *)
(* The one exception is a review that was checked before it, when the       *)
(* candidate was pending, and is written after it.                          *)
Outdated(v, c) == review[v] # NoReview /\ review[v].id = c /\ review[v].was # cand[c].state
ReviewIsFinal ==
    [][\A c \in Candidate :
         cand[c].state \in {"promoted", "rejected"}
           => \/ cand'[c].state = cand[c].state /\ datapoints'[c] = datapoints[c]
              \/ \E v \in Reviewer : Outdated(v, c) /\ review'[v] = NoReview]_vars

(* A promoted candidate has its datapoint; one that nobody has promoted, be *)
(* it pending or deleted by a re-run, has none.                             *)
DatapointIffPromoted ==
    \A c \in Candidate :
       /\ cand[c].state = "promoted" => datapoints[c] >= 1
       /\ cand[c].state \in {"absent", "pending", "deleted"} => datapoints[c] = 0

(* "Every model / stub call is an ai_job row" (docs/data-model.md:315), for *)
(* every run that commits.  A run that is rolled back, because a call threw *)
(* or took too long, loses its rows with everything else.                   *)
CallsOfCommittedRunsRecorded ==
    \A k \in calls :
       run[k.run].step = "done" =>
         \E j \in jobs : j.run = k.run /\ j.capability = k.capability

(* Types, and what the rows of datapoints and jobs say of candidates and    *)
(* calls.                                                                   *)
Consistent == TypeOK /\ DatapointIffPromoted /\ CallsOfCommittedRunsRecorded
=============================================================================

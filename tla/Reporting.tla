----------------------------- MODULE Reporting -----------------------------
(***************************************************************************)
(* What an organization is told of its state: the readiness assessment of  *)
(* a simulation (packages/domain/src/audit/readiness.ts), the evidence     *)
(* review list, the body of a regulatory filing (compliance/filing.ts),    *)
(* the compliance overview and the command centre, all derived from the    *)
(* same rows while these change.  Each is read here in one step; what may  *)
(* come between their statements is in AuditWorkspace and Compliance.      *)
(***************************************************************************)
EXTENDS ComplianceRules

CONSTANTS
    Datapoint,     \* datapoints of the period; each is what one disclosure requires
    Primary,       \* those that were measured or reported by a supplier
    Evidence, Supplier,
    MaxCalls       \* bound: changes of the rows

VARIABLES
    datapoint,     \* links, trust score or None, and calc: what is known of its
                   \* calculation, [reproduced, approved], or None
    proof,         \* evidence: status, expired (before the end of the period), and
                   \* passed, if it was ever verified
    mapping,       \* compliance_mapping rows, by required datapoint, or None
    lastPct,       \* readinessPct of the last compliance run, or None
    issues,        \* open data-quality issues: numbers of critical and warning
    intact,        \* does the audit chain verify?
    supplier,      \* [active, passport, submitted]
    calls

reportVars == <<datapoint, proof, mapping, lastPct, issues, intact, supplier, calls>>

(* The candidate a mapping is evaluated from, and its row.                  *)
CandidateOf(d) ==
    [scope |-> "organization", num |-> 1, text |-> FALSE, unit |-> None, at |-> 1,
     trust |-> datapoint[d].score, outdated |-> FALSE,
     evidence |-> {[id |-> e, status |-> proof[e].status, expired |-> proof[e].expired] :
                     e \in datapoint[d].links}]
Rule == [scope |-> "any", aggregation |-> "single", unit |-> None, minTrust |-> None]
Evaluated(d, confirmed) ==
    LET ev == EvaluateRequiredDatapoint(Rule, {CandidateOf(d)}, confirmed)
    IN  [status |-> ev.status, hasValue |-> ev.hasValue, trust |-> ev.trust,
         evidence |-> ev.evidence, confirmed |-> confirmed]
IsConfirmed(d) == mapping[d] # None /\ mapping[d].confirmed

Fresh == [links |-> {}, score |-> None, calc |-> None]
Init ==
    /\ datapoint \in {[d \in Datapoint |-> Fresh],
                      [d \in Datapoint |-> [links |-> Evidence, score |-> 95,
                                           calc |-> [reproduced |-> TRUE, approved |-> TRUE]]]}
    /\ \E verified \in BOOLEAN :
         proof = [e \in Evidence |-> [status |-> IF verified THEN "verified" ELSE "uploaded",
                                     expired |-> FALSE, passed |-> verified]]
    /\ \/ mapping = [d \in Datapoint |-> None] /\ lastPct = None
       \/ /\ mapping = [d \in Datapoint |-> Evaluated(d, TRUE)]
          /\ lastPct = ReadinessPct([d \in Datapoint |-> Evaluated(d, FALSE).status])
    /\ issues = [critical |-> 0, warning |-> 0]
    /\ intact = TRUE
    /\ supplier = [s \in Supplier |-> [active |-> TRUE, passport |-> FALSE, submitted |-> FALSE]]
    /\ calls = 0

Called == calls < MaxCalls /\ calls' = calls + 1
(* Other modules change the rows.  A calculation is approved once, replaced *)
(* by one that is not, or found not to reproduce.                           *)
DatapointChanges(d) ==
    LET calc == datapoint[d].calc
    IN  /\ Called
        /\ \/ \E e \in Evidence, linked \in BOOLEAN :
                 datapoint' = [datapoint EXCEPT ![d].links = IF linked THEN @ \cup {e} ELSE @ \ {e}]
           \/ \E n \in {40, 60, 95} : datapoint' = [datapoint EXCEPT ![d].score = n]
           \/ /\ calc # None
              /\ \E c \in {[calc EXCEPT !.approved = TRUE], [calc EXCEPT !.reproduced = FALSE],
                           [reproduced |-> TRUE, approved |-> FALSE]} :
                   datapoint' = [datapoint EXCEPT ![d].calc = c]
        /\ UNCHANGED <<proof, mapping, lastPct, issues, intact, supplier>>
Becomes(e, status, expired) ==
    proof' = [proof EXCEPT ![e].status = status, ![e].expired = expired,
                           ![e].passed = @ \/ status = "verified"]
EvidenceChanges(e) ==
    /\ Called
    /\ \/ proof[e].status = "uploaded" /\ \E s \in {"verified", "rejected"} : Becomes(e, s, FALSE)
       \/ proof[e].status = "verified" /\ \E early \in BOOLEAN : Becomes(e, "expired", early)
       \/ proof[e].status # "superseded" /\ Becomes(e, "superseded", proof[e].expired)
    /\ UNCHANGED <<datapoint, mapping, lastPct, issues, intact, supplier>>
(* A submission computes the passport; so may the organization, any time.   *)
SupplierChanges(s) ==
    /\ Called
    /\ \E row \in {[supplier[s] EXCEPT !.passport = TRUE], [supplier[s] EXCEPT !.active = ~@],
                   [supplier[s] EXCEPT !.passport = TRUE, !.submitted = TRUE]} :
         supplier' = [supplier EXCEPT ![s] = row]
    /\ UNCHANGED <<datapoint, proof, mapping, lastPct, issues, intact>>
RestChanges ==
    /\ Called
    /\ \/ \E k \in {"critical", "warning"}, opened \in BOOLEAN :
            issues' = [issues EXCEPT ![k] = IF opened THEN @ + 1 ELSE 0] /\ UNCHANGED intact
       \/ intact' = FALSE /\ UNCHANGED issues
    /\ UNCHANGED <<datapoint, proof, mapping, lastPct, supplier>>
RunComplianceEvaluation ==
    /\ Called
    /\ mapping' = [d \in Datapoint |-> Evaluated(d, IsConfirmed(d))]
    /\ lastPct' = ReadinessPct([d \in Datapoint |-> mapping'[d].status])
    /\ UNCHANGED <<datapoint, proof, issues, intact, supplier>>
ConfirmMapping(d, confirm) ==
    /\ Called
    /\ mapping[d] # None
    /\ mapping' = [mapping EXCEPT ![d] = Evaluated(d, confirm)]
    /\ UNCHANGED <<datapoint, proof, lastPct, issues, intact, supplier>>
Next ==
    \/ \E d \in Datapoint : DatapointChanges(d) \/ \E confirm \in BOOLEAN : ConfirmMapping(d, confirm)
    \/ \E e \in Evidence : EvidenceChanges(e)
    \/ \E s \in Supplier : SupplierChanges(s)
    \/ RestChanges \/ RunComplianceEvaluation

Spec == Init /\ [][Next]_reportVars

-----------------------------------------------------------------------------
(* The readiness assessment.                                                *)
Linked(d) == {proof[e] : e \in {x \in datapoint[d].links : proof[x].status \notin Dead}}
LiveEvidence(d) == {e \in Linked(d) : ~e.expired}
LiveVerified(d) == {e \in LiveEvidence(d) : e.status = "verified" \/ e.passed}
Calculated == {d \in Datapoint : datapoint[d].calc # None}
Reproduced == {d \in Calculated : datapoint[d].calc.reproduced}
Approved == {d \in Calculated : datapoint[d].calc.approved}
Scored == {d \in Datapoint : datapoint[d].score # None}
Supported == {d \in Datapoint : LiveVerified(d) # {}}
Mapped == {d \in Datapoint : mapping[d] # None}
Issue(kind, severity, subject) == [kind |-> kind, severity |-> severity, subject |-> subject]

EvidenceIssues ==
    {Issue(IF LiveEvidence(d) # {} THEN "unverified_evidence"
           ELSE IF Linked(d) # {} THEN "expired_evidence" ELSE "datapoint_without_lineage",
           "warning", d) : d \in Datapoint \ Supported}
CalculationIssues ==
    {Issue("unreproducible_calculation", "critical", d) : d \in Calculated \ Reproduced}
    \cup {Issue("unapproved_calculation", "warning", d) : d \in Calculated \ Approved}
TrustIssues ==
    {Issue("low_trust_datapoint", "warning", d) : d \in {x \in Scored : datapoint[x].score < 50}}
ComplianceGaps ==
    {d \in Mapped : mapping[d].status \in {"not_started", "data_available", "review_required"}}
ComplianceIssues ==
    {Issue(IF mapping[d].status = "review_required" THEN "compliance_review_required"
           ELSE "compliance_gap", "warning", d) : d \in ComplianceGaps}
QualityAndChainIssues ==
    {Issue("open_critical_quality_issue", "critical", n) : n \in 1 .. issues.critical}
    \cup (IF intact THEN {} ELSE {Issue("broken_audit_chain", "critical", None)})
ReadinessIssues ==
    EvidenceIssues \cup CalculationIssues \cup TrustIssues \cup ComplianceIssues
    \cup QualityAndChainIssues

(* The share n of m of a weight, rounded; all of it when there is nothing.  *)
Share(weight, n, m) == IF m = 0 THEN weight ELSE (2 * weight * n + m) \div (2 * m)
TrustLevel ==
    LET total == MapThenSumSet(LAMBDA d : datapoint[d].score, Scored)
        n == Cardinality(Scored)
    IN  IF n = 0 THEN 0 ELSE Min({10, (2 * total + 10 * n) \div (20 * n)})
EvidenceOrBetter ==
    {d \in Mapped : mapping[d].status \in {"evidence_available", "mapping_complete"}}
Readiness ==
    LET Part(weight, S, T) == Share(weight, Cardinality(S), Cardinality(T))
    IN  Part(25, Supported, Datapoint)
        + Part(20, Reproduced, Calculated)
        + Part(15, Approved, Calculated)
        + Max({0, 15 - (3 * issues.critical + issues.warning)})
        + TrustLevel
        + (IF Mapped = {} THEN 0 ELSE Part(10, EvidenceOrBetter, Mapped))
        + (IF intact THEN 5 ELSE 0)

(* The evidence review list counts links in a loop of its own.              *)
EvidenceReview(d) ==
    LET live == {e \in datapoint[d].links : proof[e].status \notin Dead /\ ~proof[e].expired}
    IN  [calc |-> datapoint[d].calc, trust |-> datapoint[d].score,
         live |-> Cardinality(live),
         verified |-> Cardinality({e \in live : proof[e].status = "verified" \/ proof[e].passed}),
         expired |-> Cardinality({e \in datapoint[d].links :
                                    proof[e].status \notin Dead /\ proof[e].expired})]

-----------------------------------------------------------------------------
(* The filing.                                                              *)
Resolution(d) ==
    IF mapping[d] = None THEN "gap"
    ELSE ClassifyFilingDatapoint(Rule, mapping[d], {proof[e].status : e \in mapping[d].evidence})
With(resolution) == {d \in Datapoint : Resolution(d) = resolution}
Blockers ==
    {<<"gap", d>> : d \in With("gap")}
    \cup (IF intact THEN {} ELSE {<<"chain", None>>})
    \cup {<<"awaiting", n>> : n \in IF With("gap") = {} THEN {Cardinality(With("flagged"))} \ {0} ELSE {}}
FilingReadiness ==
    IF With("gap") = {} /\ With("flagged") = {} /\ intact THEN "ready" ELSE "blocked"
FilingStats ==
    [required |-> Cardinality(Datapoint), reported |-> Cardinality(With("reported")),
     flagged |-> Cardinality(With("flagged")), gaps |-> Cardinality(With("gap")),
     disclosuresComplete |-> Cardinality({d \in Datapoint : Resolution(d) = "reported"})]

(* The compliance overview and the command centre; percentages in tenths.   *)
DisclosureStatus(d) == IF mapping[d] = None THEN "not_started" ELSE mapping[d].status
ComplianceOverview ==
    IF lastPct # None THEN lastPct ELSE ReadinessPct([d \in Mapped |-> mapping[d].status])

(* The command centre's figures, percentages in tenths.                     *)
Percent(n, m) == IF m = 0 THEN 0 ELSE (2000 * n + m) \div (2 * m)
PrimarySharePct == Percent(Cardinality(Datapoint \cap Primary), Cardinality(Datapoint))
WithPassport == {s \in Supplier : supplier[s].passport}
WithSubmitted == {s \in Supplier : supplier[s].submitted}
ActiveSuppliers == {s \in Supplier : supplier[s].active}
CoveragePct == Percent(Cardinality(WithPassport), Cardinality(ActiveSuppliers))
ByStatus == [s \in {DisclosureStatus(d) : d \in Mapped} |-> {d \in Mapped : DisclosureStatus(d) = s}]
CommandCenterOverview ==
    [primary |-> PrimarySharePct, scored |-> Cardinality(Scored),
     open |-> issues.critical + issues.warning,
     readiness |-> IF lastPct = None THEN 0 ELSE lastPct,
     byStatus |-> ByStatus, gaps |-> IF Mapped = {} THEN {} ELSE ComplianceGaps,
     withPassport |-> Cardinality(WithPassport), withSubmitted |-> Cardinality(WithSubmitted),
     coverage |-> CoveragePct]

-----------------------------------------------------------------------------
(* The reports agree.  Full readiness leaves next to nothing itemised: the  *)
(* shares are rounded, so at most one in twice the weight is lacking; when  *)
(* nothing is itemised, all points are given but those for warnings, trust  *)
(* and mappings; a filing is ready if and only if nothing blocks it, and    *)
(* then no gap is reported elsewhere; the review list and the assessment    *)
(* see the same evidence and calculations; the command centre agrees with   *)
(* the compliance pages, counts a passport for every supplier that has      *)
(* submitted, and covers at most all suppliers unless one with a passport   *)
(* is inactive.                                                             *)
ReportsAgree ==
    LET Lacking(S, T, weight) == 2 * weight * Cardinality(T \ S) <= Cardinality(T)
        center == CommandCenterOverview
    IN  /\ Readiness \in 0 .. 100
        /\ Readiness = 100 =>
             /\ Lacking(Supported, Datapoint, 25) /\ QualityAndChainIssues = {} /\ center.open = 0
             /\ Lacking(Reproduced, Calculated, 20) /\ Lacking(Approved, Calculated, 15)
             /\ Mapped # {} /\ Lacking(Mapped \ ComplianceGaps, Mapped, 10)
             /\ 10 * Cardinality(TrustIssues) <= center.scored
        /\ ReadinessIssues = {} =>
             Readiness >= 80 - issues.warning + (IF Mapped = {} THEN 0 ELSE 10)
                             + (IF Scored = {} THEN 0 ELSE 5)
        /\ (FilingReadiness = "ready") <=> (Blockers = {})
        /\ FilingReadiness = "ready" =>
             /\ ComplianceIssues = {} /\ EvidenceOrBetter = Datapoint /\ center.gaps = {}
             /\ FilingStats.reported = FilingStats.required
             /\ DOMAIN center.byStatus \subseteq {"mapping_complete"}
        /\ FilingStats.required = FilingStats.reported + FilingStats.flagged + FilingStats.gaps
        /\ \A d \in Datapoint :
             LET shown == EvidenceReview(d)
                 Itemised(kind, severity) == Issue(kind, severity, d) \in ReadinessIssues
             IN  /\ (shown.verified = 0) <=> \E i \in EvidenceIssues : i.subject = d
                 /\ (shown.live = 0 /\ shown.expired > 0) <=> Itemised("expired_evidence", "warning")
                 /\ (shown.calc # None /\ ~shown.calc.reproduced)
                      <=> Itemised("unreproducible_calculation", "critical")
                 /\ shown.trust \in {None} \cup 50 .. 100 <=> ~Itemised("low_trust_datapoint", "warning")
        /\ center.readiness = ComplianceOverview
        /\ center.withSubmitted <= center.withPassport
        /\ WithPassport \subseteq ActiveSuppliers => center.coverage <= 1000
=============================================================================

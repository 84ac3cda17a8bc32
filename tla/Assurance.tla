----------------------------- MODULE Assurance ------------------------------
(***************************************************************************)
(* QualityScan, AuditWorkspace, Compliance and Ask in one run: three       *)
(* registers that scans keep up to date while people decide about their    *)
(* rows, and questions answered from the rows of all (`world').  A         *)
(* simulation reads open issues, scores and mappings as `problem', which   *)
(* AuditWorkspace lets change at any time.  DataTrust is what a quality    *)
(* scan stores (`inputs'), and Reporting is what readers are told of all   *)
(* this.  A behaviour exercises one of them, which `focus' names, and      *)
(* leaves the others where they start.                                     *)
(***************************************************************************)
EXTENDS Integers, FiniteSets, TLC

CONSTANTS Scanner, Datapoint, ReportingPeriod, PeriodOf
CONSTANTS Client, Evidence, Required, RuleOf, DisclosureOf, Candidate
CONSTANTS p1, p2, d1, d2, d3, s1, s2, s3, None
CONSTANTS MaxRequests, MaxCompliance, MaxQuestions, MaxReports

VARIABLES focus, calls
VARIABLES inputs, score, issue, anomaly, scan, triage, forked
VARIABLES problem, finding, engagement, latest, package, trail, run, update
VARIABLES loaded, data, evidence, mapping, disclosure, control, filing, job,
          unsettled, crossed
VARIABLES world, asking, queries
VARIABLES dp, proof, active
VARIABLE pool
VARIABLES datapoint, held, mapped, lastPct, issues, intact, suppliers

OnePeriodEach == <<p1, p2>>

(* One disclosure with two required datapoints; one trusted datapoint of    *)
(* the first period, and a weak one of the second.                          *)
OneDisclosure == <<"d", "d">>
Candidates ==
    {[scope |-> "organization", num |-> 100, text |-> FALSE, unit |-> None, at |-> 1,
      trust |-> 80, outdated |-> FALSE, period |-> p1,
      evidence |-> {[id |-> e, expired |-> FALSE] : e \in Evidence}],
     [scope |-> "site", num |-> 50, text |-> FALSE, unit |-> None, at |-> 2,
      trust |-> 50, outdated |-> FALSE, period |-> p2, evidence |-> {}]}
Rules == <<[scope |-> "any", aggregation |-> "single", unit |-> None, minTrust |-> 70],
           [scope |-> "organization", aggregation |-> "latest", unit |-> None, minTrust |-> None]>>

Q == INSTANCE QualityScan WITH Period <- ReportingPeriod, MaxCalls <- MaxRequests
W == INSTANCE AuditWorkspace
       WITH Subject <- Datapoint, Runner <- Scanner, Period <- ReportingPeriod,
            MaxCalls <- MaxRequests
C == INSTANCE Compliance
       WITH Period <- ReportingPeriod, Rule <- RuleOf, MaxCalls <- MaxCompliance

(* The records before and after a recalculation, an expiry and a triage.    *)
Calc(period, scope, category, result, current, validTo, on) ==
    [period |-> period, scope |-> scope, category |-> category, result |-> result,
     current |-> current, validTo |-> validTo, on |-> on]
Held(id, metric, period, provenance, supplier, value, its) ==
    [id |-> id, metric |-> metric, emission |-> metric # 3, period |-> period,
     provenance |-> provenance, supplier |-> supplier, value |-> value, evidence |-> its]
Records(recalculated, expires, status, worth) ==
    [calcs |-> 1 :> Calc(p1, "scope_3", "cat_1", 449, ~recalculated, None, None)
            @@ 2 :> Calc(p1, "scope_3", "cat_4", 951, recalculated, 300, None)
            @@ 3 :> Calc(p2, "scope_2_market", None, 550, recalculated, 300, 301)
            @@ 4 :> Calc(p1, "scope_2_location", None, 749, TRUE, 300, 299),
     datapoints |-> {Held(d1, 1, p1, "calculated", s1, 449, {[dead |-> FALSE, expires |-> expires]}),
                     Held(d2, 2, p1, "estimated", s2, 951, {[dead |-> TRUE, expires |-> None]}),
                     Held(d3, 3, p1, "modeled", s3, 600, {})},
     scores |-> {[id |-> d1, current |-> TRUE, value |-> worth],
                 [id |-> d2, current |-> TRUE, value |-> 20], [id |-> d3, current |-> FALSE, value |-> 0]},
     gaps |-> {[id |-> d1, status |-> 1]}, findings |-> {[id |-> d2, severity |-> 1, status |-> status],
                                  [id |-> d3, severity |-> 2, status |-> "open"]},
     issues |-> {[id |-> d1, severity |-> 1, status |-> status]}]
K == INSTANCE Ask
       WITH World <- {Records(FALSE, None, "open", 50), Records(TRUE, 364, "resolved", 49)},
            ActivePeriod <- p1, LastDay <- p1 :> 365 @@ p2 :> 730, Asker <- {1},
            MaxRecords <- 2, MaxRef <- 3, MaxCalls <- MaxQuestions

(* One facility and one supplier; a recognised factor in force, one that    *)
(* has lapsed, and an unrecognised one of another GWP set.                  *)
Row(subject, value, unit, provenance, label, created, factor) ==
    [subject |-> subject, period |-> 1, value |-> value, text |-> FALSE, unit |-> unit,
     provenance |-> provenance, label |-> label, created |-> created, links |-> {},
     factor |-> factor]
Fits(recognised, from, to, gwp, methodology) ==
    [recognised |-> recognised, from |-> from, to |-> to, gwp |-> gwp, asOf |-> 300,
     methodology |-> methodology]
Factors == {Fits(TRUE, 0, 300, "AR6", "energy_based"), Fits(TRUE, 0, 299, "AR6", "hybrid"),
            Fits(FALSE, 301, None, "AR5", "spend_based"), Fits(FALSE, 0, 300, "AR6", "hybrid")}
Reported(value, unit, label) ==
    Row("supplier", value, unit, "supplier_reported", label, 366, None)
Rows == {Reported(1000, "kg", "human_reviewed"), Reported(1052, "kg", "ai_extracted"),
         Reported(1060, "kg", "verified"), Reported(1000, "unknown", "human_reviewed"),
         Reported(1000, None, "ai_extracted"),
         [Reported(None, "kg", "human_reviewed") EXCEPT !.period = None],
         [Reported(None, None, "verified") EXCEPT !.text = TRUE],
         Row("facility", 1000, "kg", "measured", "verified", 765, None),
         Row("facility", -1, "kg", "inferred", "ai_extracted", 766, None),
         Row("facility", 0, "kg", "modeled", "human_reviewed", 365, None)}
        \cup {Row("facility", 1000, "kg", "calculated", "human_reviewed", 365, f) : f \in Factors}
D == INSTANCE DataTrust
       WITH Supplier <- {"supplier"}, Report <- Rows, LastYear <- 3,
            (* Four subjects in one period, and one of them over four periods. *)
            Cell <- {<<s, 1>> : s \in 1 .. 4} \cup {<<1, p>> : p \in 2 .. 4}, Amount <- {0, 4, 20}

B == INSTANCE Reporting
       WITH Supplier <- Client, Primary <- {1}, proof <- held, mapping <- mapped, supplier <- suppliers,
            MaxCalls <- MaxReports

ASSUME AssuranceAssumption ==
    /\ Q!QualityScanAssumption /\ W!AuditWorkspaceAssumption /\ C!ComplianceAssumption
    /\ K!AskAssumption /\ D!DataTrustAssumption

qualityVars == <<inputs, score, issue, anomaly, scan, triage, forked>>
workspaceVars == <<problem, finding, engagement, latest, package, trail, run, update>>
complianceVars == <<loaded, data, evidence, mapping, disclosure, control, filing, job,
                    unsettled, crossed>>
askVars == <<world, asking, queries>>
trustVars == <<dp, proof, active>>
reportVars == <<datapoint, held, mapped, lastPct, issues, intact, suppliers>>

Init ==
    /\ Q!Init /\ W!Init /\ C!Init /\ K!Init /\ D!Init /\ B!Init
    /\ focus \in {"quality", "workspace", "compliance", "ask", "trust", "anomalies", "reports"}
    /\ focus # "quality" =>
         \A d \in Datapoint : inputs[d] = "good" /\ issue[d] = Q!NoIssue
    /\ focus # "workspace" =>
         problem = {} /\ \A d \in Datapoint : finding[d] = W!NoFinding
    /\ focus # "ask" => world = Records(FALSE, None, "open", 50)
    /\ focus # "reports" =>
         \A d \in Datapoint : mapped[d] = None /\ datapoint[d] = B!Fresh
    /\ (focus # "compliance" \/ ~loaded) => ~loaded /\ \A rd \in Required : data[rd] = {}
Next ==
    /\ \/ focus = "quality" /\ Q!Next
          /\ UNCHANGED <<workspaceVars, complianceVars, askVars, trustVars, pool, reportVars>>
       \/ focus = "workspace" /\ W!Next
          /\ UNCHANGED <<qualityVars, complianceVars, askVars, trustVars, pool, reportVars>>
       \/ focus = "compliance" /\ C!Next
          /\ UNCHANGED <<qualityVars, workspaceVars, askVars, trustVars, pool, reportVars>>
       \/ focus = "ask" /\ K!Next
          /\ UNCHANGED <<qualityVars, workspaceVars, complianceVars, trustVars, pool, reportVars>>
       \/ focus = "trust" /\ D!TrustNext
          /\ UNCHANGED <<calls, qualityVars, workspaceVars, complianceVars, askVars, pool,
                       reportVars>>
       \/ focus = "anomalies" /\ D!PoolNext
          /\ UNCHANGED <<calls, qualityVars, workspaceVars, complianceVars, askVars, trustVars,
                       reportVars>>
       \/ focus = "reports" /\ B!Next
          /\ UNCHANGED <<qualityVars, workspaceVars, complianceVars, askVars, trustVars, pool>>
    /\ UNCHANGED focus

Spec == Init /\ [][Next]_<<focus, calls, qualityVars, workspaceVars, complianceVars, askVars,
                          trustVars, pool, reportVars>>

-----------------------------------------------------------------------------
(* What is derived agrees with what it is derived from: one current score   *)
(* per datapoint, packages that show one state of the audit trail, statuses *)
(* that agree with confirmations, roll-ups and filings.                     *)
ViewsAgree ==
    /\ focus = "quality" => Q!TypeOK /\ Q!OneCurrentScore
    /\ focus = "workspace" => W!TypeOK /\ W!PackageShowsOneTrail
    /\ focus = "compliance" =>
         C!TypeOK /\ C!CompleteIsConfirmed /\ C!DisclosureAgrees /\ C!CompleteIsReported

(* Scans open and resolve what they should, and what people decided stays,  *)
(* but for rows decided while the scan ran (QualityScan, AuditWorkspace).   *)
DecisionsStand ==
    /\ Q!DismissedIsSticky /\ Q!ScanDecides
    /\ W!DecisionsStand /\ W!SimulationDecides

(* What readers are told is calculated correctly: answers are grounded in   *)
(* records, and a question reads what its intent asks for and nothing newer *)
(* (Ask); trust scores agree with issues and are never lowered by better    *)
(* sources, anomalies stand out from the values they are compared with      *)
(* (DataTrust); readiness, filings and overviews agree (Reporting), and     *)
(* percentages are at most a hundred (Compliance).                          *)
FiguresHold ==
    /\ [](/\ focus = "ask" => K!AnswersAreGrounded
          /\ focus = "trust" => D!ScoreAndIssuesAgree
          /\ focus = "anomalies" => D!AnomaliesStandOut
          /\ focus = "reports" => B!ReportsAgree
          /\ focus = "compliance" => C!PercentagesInRange)
    /\ K!RetrievalIsFair /\ D!ScoreIsMonotone

(* The filings of a period implement the abstract chain of versions         *)
(* (Compliance).                                                            *)
FilingsFormChains == C!FilingsFormChains

Symmetric == Permutations(Client)
=============================================================================

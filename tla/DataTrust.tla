----------------------------- MODULE DataTrust -----------------------------
(***************************************************************************)
(* The trust model and the data-quality rules (packages/domain/src/trust), *)
(* as buildTrustInput and runQualityScan feed them: two datapoints of one  *)
(* metric, their evidence, and the active reporting period, which others   *)
(* change at any time.  Days are integers, a period is a year or None and  *)
(* ends on its last day.  Anomaly detection works on a pool of its own:    *)
(* the datapoints of one metric, one at most of a subject and period,      *)
(* which are created one by one and never change.  QualityScan models when *)
(* scores, issues and findings are stored; which they are is modelled      *)
(* here.  X_Fault is the definition X with a plausible bug (README.md).    *)
(***************************************************************************)
EXTENDS Integers, FiniteSets, FiniteSetsExt

CONSTANTS
    Datapoint, Evidence,
    Supplier,      \* the subjects that are suppliers
    Report,        \* rows that may be created; the factor of a calculation is
                   \* [recognised, from, to, gwp, asOf, methodology]
    LastYear,      \* bound of the active period
    Cell,          \* of the pool: pairs of a subject and a period (a year)
    Amount,        \* values that may be reported for them
    None

DataTrustAssumption ==
    /\ LastYear \in Nat \ {0} /\ \A r \in Report : r.links = {}
    /\ Amount \subseteq Int /\ None \notin Amount

VARIABLES
    dp,            \* datapoint rows, of one metric that is mass
    proof,         \* evidence rows: status, expires, and passed, if ever verified
    active,        \* the organization's active reporting period
    pool           \* the value of each cell, or None
trustVars == <<dp, proof, active>>

Init ==
    /\ dp = [d \in Datapoint |-> None]
    /\ proof = [e \in Evidence |-> [status |-> "uploaded", expires |-> None, passed |-> FALSE]]
    /\ active = 1
    /\ pool = [c \in Cell |-> None]

LastDay(year) == 365 * year
Today == LastDay(active)
Exists(d) == dp[d] # None

(* By hand, by promotion of a candidate with the evidence made of it, or by *)
(* a calculation with the evidence of its activity.                         *)
CreateDatapoint(d, r, its) ==
    /\ ~Exists(d)
    /\ its # {} => r.factor # None \/ \E e \in Evidence : its = {e}
    /\ dp' = [dp EXCEPT ![d] = [r EXCEPT !.links = its]]
    /\ UNCHANGED <<proof, active>>
LinkDatapoint(d, e) ==
    /\ Exists(d)
    /\ dp' = [dp EXCEPT ![d].links = @ \cup {e}]
    /\ UNCHANGED <<proof, active>>
UnlinkDatapoint(d, e) ==
    /\ Exists(d)
    /\ dp' = [dp EXCEPT ![d].links = @ \ {e}]
    /\ UNCHANGED <<proof, active>>
(* A recomputation is a calculation like any other, and so makes another    *)
(* datapoint of the activity, by the same methodology; the one it had keeps *)
(* its value and is repointed to the new calculation.                       *)
OfSameActivity(r, s) ==
    /\ r.factor # None /\ s.factor # None
    /\ r.factor.methodology = s.factor.methodology /\ r.factor.asOf = s.factor.asOf
    /\ r.subject = s.subject /\ r.period = s.period
Recalculate(d, new, r, its) ==
    /\ Exists(d) /\ ~Exists(new)
    /\ OfSameActivity(r, dp[d])
    /\ dp' = [dp EXCEPT ![d].factor = r.factor, ![new] = [r EXCEPT !.links = its]]
    /\ UNCHANGED <<proof, active>>
(* EvidenceLifecycle has every state and who may move; here, those that the *)
(* score and the rules tell apart.  Expiry is dated by the clock, which may *)
(* be before or after the end of the active period.                         *)
Transition(e, from, to, today) ==
    /\ proof[e].status \in from
    /\ proof' = [proof EXCEPT ![e].status = to,
                              ![e].passed = @ \/ to = "verified",
                              ![e].expires = IF to = "expired" THEN today ELSE @]
    /\ UNCHANGED <<dp, active>>
AdvancePeriod ==
    /\ active < LastYear
    /\ active' = active + 1
    /\ UNCHANGED <<dp, proof>>

-----------------------------------------------------------------------------
(* The trust score: seven dimensions that add up.                           *)
Links(d) == {proof[e] : e \in dp[d].links}
Resolves(unit) == unit # "unknown"
PrimaryData(d) ==
    CASE dp[d].provenance = "measured"          -> 25
      [] dp[d].provenance = "supplier_reported" -> 21
      [] dp[d].provenance = "calculated"        -> 15
      [] dp[d].provenance = "estimated"         -> 9
      [] dp[d].provenance = "modeled"           -> 7
      [] dp[d].provenance = "inferred"          -> 4
LiveStatus == {"uploaded", "processing", "extracted", "reviewed", "verified"}
Current(e) == e.expires = None \/ e.expires >= Today
EvidenceAttached_DeadToo(d) == IF Links(d) # {} THEN 20 ELSE 0
EvidenceAttached(d) ==
    IF \E e \in Links(d) : e.status \in LiveStatus /\ Current(e) THEN 20
    ELSE IF Links(d) # {} THEN 6 ELSE 0
Verified(d) ==
    IF dp[d].label = "verified" \/ \E e \in Links(d) : e.status = "verified" THEN 15
    ELSE IF dp[d].label = "human_reviewed" THEN 7 ELSE 0
Points(holds, n) == IF holds THEN n ELSE 0
FactorQuality(f) ==
    IF f = None THEN 15
    ELSE Points(f.recognised, 6)
         + Points(f.from <= f.asOf /\ (f.to = None \/ f.to >= f.asOf), 5)
         + Points(f.gwp = "AR6", 4)
Tier(methodology) ==
    CASE methodology = "supplier_specific"             -> 5
      [] methodology \in {"fuel_based", "energy_based"} -> 4
      [] methodology \in {"distance_based", "hybrid"}   -> 3
      [] methodology = "average_data"                  -> 2
      [] methodology = "spend_based"                   -> 1
UnitMethodology(d) ==
    LET f == dp[d].factor
    IN  Points(Resolves(dp[d].unit), 6)
        + IF f = None \/ Tier(f.methodology) >= 4 THEN 4
          ELSE IF Tier(f.methodology) >= 2 THEN Tier(f.methodology) ELSE 0
PeriodFreshness(d) ==
    LET gap == active - dp[d].period
    IN  IF dp[d].period = None THEN 0
        ELSE IF gap <= 0 THEN 9 ELSE IF gap = 1 THEN 5 ELSE IF gap = 2 THEN 2 ELSE 0
(* Of unit, period, evidence and, for a calculation, methodology.           *)
Completeness(d) ==
    LET required == IF dp[d].factor = None THEN 3 ELSE 4
        present == Points(dp[d].unit # None, 1) + Points(dp[d].period # None, 1)
                   + Points(dp[d].links # {}, 1) + required - 3
    IN  (2 * 6 * present + required) \div (2 * required)
ScoreDatapoint(d) ==
    PrimaryData(d) + EvidenceAttached(d) + Verified(d) + FactorQuality(dp[d].factor)
    + UnitMethodology(d) + PeriodFreshness(d) + Completeness(d)

-----------------------------------------------------------------------------
(* The rules.  An issue is identified by its kind and the datapoint's       *)
(* subject, metric and period: two findings of a kind make one issue, of    *)
(* which the first counts.                                                  *)
Abs(n) == IF n < 0 THEN -n ELSE n
StaleAfterDays == 400
Peers(d) == {p \in Datapoint : Exists(p) /\ p # d}
SameSlot(d, p) == /\ dp[p].subject = dp[d].subject /\ dp[p].period = dp[d].period
                  /\ dp[p].unit = dp[d].unit /\ dp[p].value # None /\ dp[d].value # None
(* The difference relative to the larger, against so many thousandths.      *)
Apart(d, p, thousandths) ==
    1000 * Abs(dp[d].value - dp[p].value) > thousandths * Max({Abs(dp[d].value), Abs(dp[p].value)})
MissingValue(d) == dp[d].value = None /\ ~dp[d].text
MissingUnit(d) == dp[d].value # None /\ dp[d].unit = None
MissingEvidence(d) == dp[d].links = {}
UnverifiedEvidence(d) ==
    /\ dp[d].links # {} /\ dp[d].label # "verified"
    /\ ~\E e \in Links(d) : e.status = "verified" \/ e.passed
ExpiredEvidence(d) == dp[d].links # {} /\ ~\E e \in Links(d) : Current(e)
StaleData(d) == Abs(dp[d].created - Today) > StaleAfterDays
UnitInconsistency(d) ==
    dp[d].unit # None /\ \E p \in Peers(d) : dp[p].unit \notin {None, dp[d].unit}
ImpossibleValue(d) == (dp[d].value # None /\ dp[d].value < 0) \/ ~Resolves(dp[d].unit)
Duplicate(d) == \E p \in Peers(d) : SameSlot(d, p) /\ ~Apart(d, p, 5)
ConflictingSupplierReport(d) ==
    /\ dp[d].subject \in Supplier
    /\ \E p \in Peers(d) : /\ SameSlot(d, p) /\ Apart(d, p, 50)
                           /\ dp[d].provenance = "supplier_reported"
                           /\ dp[p].provenance = "supplier_reported"
OutdatedFactor(d) ==
    LET f == dp[d].factor
    IN  f # None /\ ((f.to # None /\ f.to < f.asOf) \/ ~f.recognised)
LowMethodologyTier(d) == dp[d].factor # None /\ dp[d].factor.methodology = "spend_based"
EvaluateDatapointQuality(d) ==
    LET Finds(kind, holds) == IF holds THEN {kind} ELSE {}
    IN  Finds("missing_value", MissingValue(d)) \cup Finds("missing_unit", MissingUnit(d))
        \cup Finds("missing_evidence", MissingEvidence(d))
        \cup Finds("unverified_evidence", UnverifiedEvidence(d))
        \cup Finds("expired_evidence", ExpiredEvidence(d))
        \cup Finds("stale_data", StaleData(d))
        \cup Finds("unit_inconsistency", UnitInconsistency(d))
        \cup Finds("impossible_value", ImpossibleValue(d))
        \cup Finds("duplicate", Duplicate(d))
        \cup Finds("conflicting_supplier_report", ConflictingSupplierReport(d))
        \cup Finds("outdated_factor", OutdatedFactor(d))
        \cup Finds("low_methodology_tier", LowMethodologyTier(d))

-----------------------------------------------------------------------------
(* The detectors.  Medians are doubled to stay integers; at most            *)
(* MAX_ANOMALIES_PER_SCAN findings are assumed.                             *)
Subject(c) == c[1]
Period(c) == c[2]

(* The k-th smallest of the values f has on S, from 0, and their median.    *)
Nth(f, S, k) ==
    CHOOSE v \in {f[x] : x \in S} : /\ Cardinality({x \in S : f[x] < v}) <= k
                                    /\ Cardinality({x \in S : f[x] <= v}) > k
TwiceMedian(f, S) ==
    LET n == Cardinality(S) IN Nth(f, S, (n - 1) \div 2) + Nth(f, S, n \div 2)

MinPoints == 4
(* Modified z-score over 3.5; more than 2 % off a series mostly constant.   *)
MadOutliers(S) ==
    LET median2 == TwiceMedian(pool, S)
        off2 == [c \in S |-> Abs(2 * pool[c] - median2)]
        mad4 == TwiceMedian(off2, S)
        Outlying(c) == IF mad4 = 0 THEN 50 * off2[c] > Abs(median2)
                                   ELSE 6745 * 2 * off2[c] > 35000 * mad4
    IN  IF Cardinality(S) < MinPoints THEN {} ELSE {c \in S : Outlying(c)}

(* Steps of more than 50 % from one period of a series to its next.         *)
Previous(S, c) ==
    CHOOSE b \in S : /\ Period(b) < Period(c)
                     /\ \A a \in S : Period(a) < Period(c) => Period(a) <= Period(b)
RelativeChanges(S) ==
    {c \in S : /\ \E b \in S : Period(b) < Period(c)
               /\ LET before == pool[Previous(S, c)]
                  IN  before # 0 /\ 2 * Abs(pool[c] - before) > Abs(before)}

Numeric == {c \in Cell : pool[c] # None}
SeriesOf(subject) == {c \in Numeric : Subject(c) = subject}
CrossSection(period) == {c \in Numeric : Period(c) = period}
Finding(method, point, c) == [method |-> method, subject |-> Subject(c), point |-> point, cell |-> c]
(* What a scan of a period, or of all (None), finds.                        *)
ScanAnomalies(period) ==
    LET InTime == UNION {{Finding("mad_outlier", Period(c), c) : c \in MadOutliers(S)}
                         \cup {Finding("relative_change", Period(c), c) : c \in RelativeChanges(S)} :
                         S \in {T \in {SeriesOf(Subject(c)) : c \in Numeric} : Cardinality(T) >= 2}}
        Across == UNION {{Finding("mad_outlier", Subject(c), c) : c \in MadOutliers(S)} :
                         S \in {CrossSection(Period(c)) : c \in Numeric}}
    IN  {f \in InTime \cup Across : period \in {None, Period(f.cell)}}

-----------------------------------------------------------------------------
TrustNext ==
    \/ \E d \in Datapoint :
         \/ \E e \in Evidence : LinkDatapoint(d, e) \/ UnlinkDatapoint(d, e)
         \/ \E r \in Report, its \in SUBSET Evidence :
              CreateDatapoint(d, r, its) \/ \E new \in Datapoint : Recalculate(d, new, r, its)
    \/ \E e \in Evidence :
         \/ \E to \in {"verified", "rejected"} : Transition(e, {"uploaded"}, to, None)
         \/ \E today \in {Today, Today + 1} : Transition(e, {"verified"}, "expired", today)
         \/ Transition(e, {"uploaded", "verified", "rejected", "expired"}, "superseded", None)
    \/ AdvancePeriod

AddToPool(c, v) ==
    /\ pool[c] = None
    /\ pool' = [pool EXCEPT ![c] = v]
PoolNext == \E c \in Cell, v \in Amount : AddToPool(c, v)

Next == (TrustNext /\ UNCHANGED pool) \/ (PoolNext /\ UNCHANGED trustVars)

Spec == Init /\ [][Next]_<<trustVars, pool>>

-----------------------------------------------------------------------------
(* The score and the issues agree on the evidence, although each looks at   *)
(* its status and its dates in its own way, and a datapoint that no rule    *)
(* finds fault with has evidence and a factor that earn points.             *)
EvidenceIsJudgedAlike ==
    \A d \in {x \in Datapoint : Exists(x)} :
       LET found == EvaluateDatapointQuality(d)  score == ScoreDatapoint(d)
       IN  /\ score \in 0 .. 100
           /\ "missing_evidence" \in found <=> EvidenceAttached(d) = 0
           /\ "expired_evidence" \in found => EvidenceAttached(d) = 6
           /\ "unverified_evidence" \in found => Verified(d) < 15
           /\ found = {} => EvidenceAttached(d) > 0 /\ FactorQuality(dp[d].factor) >= 6

(* Of two datapoints that fill the same slot both are reported or neither,  *)
(* as duplicates or as in conflict but never as both.                       *)
SlotIsJudgedAlike ==
    \A d \in {x \in Datapoint : Exists(x)} : \A p \in Peers(d) :
       LET found == EvaluateDatapointQuality(d)  theirs == EvaluateDatapointQuality(p)
           Mutual(kind) == (kind \in found) = (kind \in theirs)
       IN  /\ Mutual("duplicate") /\ Mutual("conflicting_supplier_report")
           /\ ~({"duplicate", "conflicting_supplier_report"} \subseteq found)
ScoreAndIssuesAgree == EvidenceIsJudgedAlike /\ SlotIsJudgedAlike

(* Evidence never counts against a datapoint, nor does its verification;    *)
(* its removal, rejection, expiry or replacement never counts for one, nor  *)
(* does a new active period; and what befalls one datapoint changes no      *)
(* score but its own.                                                       *)
ScoreIsMonotone ==
    [][\A d \in {x \in Datapoint : Exists(x)} :
         LET Better == ScoreDatapoint(d)' >= ScoreDatapoint(d)
             Worse == ScoreDatapoint(d)' <= ScoreDatapoint(d)
         IN  /\ dp[d].links \subseteq dp'[d].links /\ dp'[d].links # dp[d].links => Better
             /\ dp'[d].links \subseteq dp[d].links /\ dp'[d].links # dp[d].links => Worse
             /\ active' > active => Worse
             /\ \A e \in Evidence : proof'[e] # proof[e] =>
                  IF proof'[e].status = "verified" THEN Better ELSE Worse
             /\ dp'[d] = dp[d] /\ active' = active /\ proof' = proof => Better /\ Worse]_trustVars

(* The median splits a series and outliers are never more than half of it;  *)
(* nothing is found among equal values, nor is a step to a value that the   *)
(* series had just before, whatever it was earlier; and a drop below half   *)
(* of all earlier values is found in a scan of its period.                  *)
AnomaliesStandOut ==
    /\ \A S \in {SeriesOf(Subject(c)) : c \in Cell} \cup {CrossSection(Period(c)) : c \in Cell} :
         /\ 2 * Cardinality(MadOutliers(S)) <= Cardinality(S)
         /\ S # {} => LET median2 == TwiceMedian(pool, S)
                      IN  /\ 2 * Cardinality({c \in S : 2 * pool[c] < median2}) <= Cardinality(S)
                          /\ 2 * Cardinality({c \in S : 2 * pool[c] > median2}) <= Cardinality(S)
    /\ \A f \in ScanAnomalies(None) :
         LET alike == {c \in SeriesOf(f.subject) \cup CrossSection(Period(f.cell)) : c # f.cell}
             Different(b) == pool[b] # pool[f.cell]
             Since(b) == {a \in SeriesOf(f.subject) : Period(b) <= Period(a) /\ Period(a) < Period(f.cell)}
         IN  /\ \E c \in alike : Different(c)
             /\ f.method = "relative_change" =>
                  \A b \in SeriesOf(f.subject) :
                     Period(b) < Period(f.cell) => \E a \in Since(b) : Different(a)
    /\ \A c \in Numeric :
         LET before == {b \in SeriesOf(Subject(c)) : Period(b) < Period(c)}
         IN  before # {} /\ (\A b \in before : pool[b] > 2 * pool[c]) =>
               \E f \in ScanAnomalies(Period(c)) : f = Finding("relative_change", Period(c), c)
=============================================================================

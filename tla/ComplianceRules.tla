-------------------------- MODULE ComplianceRules --------------------------
(***************************************************************************)
(* The pure rules of compliance: how candidates resolve to the value and   *)
(* the status of a required datapoint (packages/compliance/src/evaluate),  *)
(* how statuses roll up to a disclosure (status.ts), and how a filing      *)
(* classifies what it reports (packages/domain/src/compliance/filing.ts).  *)
(* A candidate is a record [scope, num, text, unit, at, trust, evidence,   *)
(* outdated]; its evidence is a set of [id, status, expired], expired      *)
(* meaning that expiresAt lies before the period's end.                    *)
(***************************************************************************)
EXTENDS Integers, FiniteSets, FiniteSetsExt, Functions

CONSTANT None

Dead == {"rejected", "superseded"}
DefaultMinTrust == 60
AbsoluteOf(n) == IF n < 0 THEN -n ELSE n

-----------------------------------------------------------------------------
(* More than 2 per cent apart, of the larger magnitude.                     *)
Conflicting(numbers) ==
    LET base == Max({AbsoluteOf(n) : n \in numbers})
    IN  Cardinality(numbers) > 1 /\ (Max(numbers) - Min(numbers)) * 50 > base

Alone(c) == [value |-> c.num, text |-> c.text, contributing |-> {c}, conflict |-> FALSE]
First(cs) == CHOOSE c \in cs : \A o \in cs : c.at <= o.at
LastOf(cs) == CHOOSE c \in cs : \A o \in cs : o.at <= c.at

ResolveValue(rd, cs) ==
    LET numeric == {c \in cs : c.num # None}
    IN  IF rd.aggregation = "sum"
        THEN [value |-> IF numeric = {} THEN None ELSE MapThenSumSet(LAMBDA c : c.num, numeric),
              text |-> FALSE, contributing |-> cs, conflict |-> FALSE]
        ELSE IF rd.aggregation = "latest" THEN Alone(LastOf(cs))
        ELSE IF numeric # {} /\ Conflicting({c.num : c \in numeric})
        THEN [value |-> None, text |-> FALSE, contributing |-> cs, conflict |-> TRUE]
        ELSE Alone(First(cs))

Considered(rd, cs) ==
    LET own == {c \in cs : c.scope = "organization"}
    IN  IF rd.scope = "organization" /\ own # {} THEN own ELSE cs

UnitMatches(required, actual) == required = None \/ actual = None \/ required = actual
MinTrust(rd) == IF rd.minTrust = None THEN DefaultMinTrust ELSE rd.minTrust
Live(es) == {e \in es : e.status \notin Dead /\ ~e.expired}

EvaluateRequiredDatapoint(rd, candidates, confirmed) ==
    LET cs == Considered(rd, candidates)
        r == ResolveValue(rd, cs)
        evidence == UNION {c.evidence : c \in r.contributing}
        trusts == {c.trust : c \in r.contributing} \ {None}
        trust == IF trusts = {} THEN None ELSE Min(trusts)
        flagged ==
            \/ r.conflict
            \/ \E c \in r.contributing : c.outdated \/ ~UnitMatches(rd.unit, c.unit)
            \/ evidence # {} /\ Live(evidence) = {}
        ladder ==
            IF ~(r.value # None \/ r.text \/ r.conflict) THEN "not_started"
            ELSE IF Live(evidence) = {} THEN "data_available"
            ELSE IF confirmed /\ ~flagged /\ trust # None /\ trust >= MinTrust(rd)
            THEN "mapping_complete" ELSE "evidence_available"
    IN  IF cs = {}
        THEN [status |-> "not_started", hasValue |-> FALSE, trust |-> None, evidence |-> {}]
        ELSE [status |-> IF flagged /\ ladder # "not_started" THEN "review_required" ELSE ladder,
              hasValue |-> r.value # None \/ r.text, trust |-> trust,
              evidence |-> {e.id : e \in Live(evidence)}]

-----------------------------------------------------------------------------
Rank(status) ==
    CASE status = "not_started" -> 0
      [] status \in {"data_available", "review_required"} -> 1
      [] status = "evidence_available" -> 2
      [] status = "mapping_complete" -> 3

RollUpDisclosureStatus(statuses) ==
    IF statuses = {} \/ "not_started" \in statuses THEN "not_started"
    ELSE IF "review_required" \in statuses THEN "review_required"
    ELSE CHOOSE s \in statuses : \A t \in statuses : Rank(s) <= Rank(t)

(* In tenths of a per cent; Math.round rounds halves up.                    *)
ReadinessPct(f) ==
    LET n == Cardinality(DOMAIN f)
        total == MapThenSumSet(LAMBDA rd : Rank(f[rd]), DOMAIN f)
    IN  IF n = 0 THEN 0 ELSE (2000 * total + 3 * n) \div (6 * n)

Satisfied(f) == Cardinality({rd \in DOMAIN f : f[rd] \in {"evidence_available", "mapping_complete"}})

-----------------------------------------------------------------------------
(* `statuses' are those the mapping's evidence has when the filing is made. *)
ClassifyFilingDatapoint(rd, m, statuses) ==
    IF \/ ~m.hasValue
       \/ rd.minTrust # None /\ (m.trust = None \/ m.trust < rd.minTrust)
       \/ statuses \subseteq {"rejected", "expired", "superseded"}
    THEN "gap"
    ELSE IF m.status = "mapping_complete" /\ m.confirmed THEN "reported" ELSE "flagged"
=============================================================================

----------------------------- MODULE Compliance -----------------------------
(***************************************************************************)
(* Compliance mappings, disclosure statuses and regulatory filings of one  *)
(* organization (packages/db/src/compliance.ts, filing.ts).  Evaluations,  *)
(* confirmations by people and filings are READ COMMITTED transactions     *)
(* that read early and write late; what one has written is locked and      *)
(* appears when it commits.                                                *)
(* X_Fault is the definition X with a plausible bug (see README.md).       *)
(***************************************************************************)
EXTENDS ComplianceRules, Sequences

CONSTANTS
    Required,     \* keys of the required datapoints, 1..n in the rules' order
    Rule,         \* [Required -> rules of the rule store]
    DisclosureOf, \* [Required -> disclosures]
    Candidate,    \* datapoints; their evidence is a set of [id, expired]
    Evidence,
    Period,
    Client,
    MaxCalls      \* bound: requests and changes of the data

ComplianceAssumption ==
    /\ Required \subseteq Nat \ {0} /\ IsFiniteSet(Required)
    /\ DOMAIN Rule = Required /\ DOMAIN DisclosureOf = Required
    /\ \A rd \in Required : Rule[rd].minTrust \in Nat \cup {None}
    /\ IsFiniteSet(Candidate)
    /\ \A c \in Candidate : /\ {"at", "trust", "text"} \subseteq DOMAIN c
                            /\ c.at \in Nat /\ c.trust \in Nat \cup {None} /\ c.text \in BOOLEAN

VARIABLES
    loaded,       \* is the rule store loaded into the global tables?
    data,         \* [Required -> the datapoints of its metric]
    evidence,     \* statuses of the evidence
    mapping,      \* compliance_mapping rows
    disclosure,   \* disclosure_status rows
    control,      \* a compliance_control row: its status, and whether it was tested
    filing,       \* [Period -> regulatory_filing rows, by version]
    job,          \* the transactions
    calls,
    unsettled,    \* history: mappings (un)confirmed while they were evaluated
    crossed       \* history: disclosures whose mappings changed in a roll-up

vars == <<loaded, data, evidence, mapping, disclosure, control, filing, job,
          calls, unsettled, crossed>>
Disclosure == Range(DisclosureOf)

Idle == [op |-> "idle"]
NoMapping == [status |-> "none", confirmed |-> FALSE]

Init ==
    /\ loaded \in BOOLEAN
    /\ data \in [Required -> {{}, Candidate}]
    /\ evidence = [e \in Evidence |-> "verified"]
    /\ mapping = [rd \in Required |-> NoMapping]
    /\ disclosure = [dis \in Disclosure |-> None]
    /\ control = None
    /\ filing = [p \in Period |-> <<>>]
    /\ job = [c \in Client |-> Idle]
    /\ calls = 0 /\ unsettled = {} /\ crossed = {}

Called == calls < MaxCalls /\ calls' = calls + 1
rows == <<loaded, data, evidence, mapping, disclosure, control, filing>>
history == <<unsettled, crossed>>

LoadRuleStore ==
    /\ Called
    /\ loaded' = TRUE
    /\ UNCHANGED <<data, evidence, mapping, disclosure, control, filing, job, history>>

(* Datapoints come and evidence is judged, by other modules.                *)
AddDatapoint(rd, c) ==
    /\ Called
    /\ c \notin data[rd]
    /\ data' = [data EXCEPT ![rd] = @ \cup {c}]
    /\ UNCHANGED <<loaded, evidence, mapping, disclosure, control, filing, job, history>>
EvidenceTurns(e, status) ==
    /\ Called
    /\ evidence' = [evidence EXCEPT ![e] = status]
    /\ UNCHANGED <<loaded, data, mapping, disclosure, control, filing, job, history>>

(* An existing control keeps the status that is not given.                  *)
UpsertControl(status) ==
    /\ Called
    /\ LET old == IF control = None THEN [status |-> "not_implemented", tested |-> FALSE] ELSE control
       IN  control' = [status |-> IF status = None THEN old.status ELSE status,
                       tested |-> old.tested \/ status \in {"passed", "failed"}]
    /\ UNCHANGED <<loaded, data, evidence, mapping, disclosure, filing, job, history>>

-----------------------------------------------------------------------------
(* What both kinds of evaluation read: the datapoints of the period (of all *)
(* of them without one) with the statuses of their evidence.                *)
WithStatus(c) ==
    [c EXCEPT !.evidence = {[id |-> e.id, expired |-> e.expired, status |-> evidence[e.id]] : e \in @}]
GatherInputs(rd, p) == {WithStatus(c) : c \in {d \in data[rd] : p = None \/ d.period = p}}
Evaluate(rd, p, confirmed) == EvaluateRequiredDatapoint(Rule[rd], GatherInputs(rd, p), confirmed)

Written(c) == IF "rows" \in DOMAIN job[c] THEN DOMAIN job[c].rows ELSE {}
Unlocked(c, rd) == \A o \in Client \ {c} : rd \notin Written(o)
Row(ev, confirmed, p) ==
    [status |-> ev.status, hasValue |-> ev.hasValue, trust |-> ev.trust,
     evidence |-> ev.evidence, confirmed |-> confirmed, period |-> p]
Writes(old, rd, row) == [k \in DOMAIN old \cup {rd} |-> IF k = rd THEN row ELSE old[k]]
MappingAfter(c) ==
    [rd \in Required |-> IF rd \in Written(c) THEN job[c].rows[rd] ELSE mapping[rd]]

Summary(f) == [status |-> RollUpDisclosureStatus(Range(f)), satisfied |-> Satisfied(f),
               readinessPct |-> ReadinessPct(f)]
Statuses(dis, m) ==
    [rd \in {k \in Required : DisclosureOf[k] = dis /\ m[k] # NoMapping} |-> m[rd].status]

(* An evaluation writes the mappings one by one; an existing one keeps      *)
(* `confirmed', which may differ by then from what was read.                *)
RunComplianceEvaluation(c, p) ==
    /\ Called
    /\ job[c] = Idle
    /\ loaded
    /\ job' = [job EXCEPT ![c] =
                 [op |-> "evaluation", period |-> p, todo |-> Required, rows |-> <<>>,
                  read |-> [rd \in Required |-> mapping[rd].confirmed],
                  found |-> [rd \in Required |-> Evaluate(rd, p, mapping[rd].confirmed)]]]
    /\ UNCHANGED <<rows, history>>
UpsertMapping(c) ==
    LET rd == Min(job[c].todo)
    IN  /\ job[c].op = "evaluation" /\ job[c].todo # {}
        /\ Unlocked(c, rd)
        /\ job' = [job EXCEPT ![c].todo = @ \ {rd},
                     ![c].rows = Writes(@, rd, Row(job[c].found[rd], mapping[rd].confirmed,
                                                   job[c].period))]
        /\ UNCHANGED <<rows, calls, history>>
CompleteEvaluation(c) ==
    /\ job[c].op = "evaluation" /\ job[c].todo = {}
    /\ mapping' = MappingAfter(c)
    /\ disclosure' = [dis \in Disclosure |-> Summary(Statuses(dis, MappingAfter(c)))]
    /\ job' = [job EXCEPT ![c] = Idle]
    /\ unsettled' = {rd \in Required : job[c].rows[rd].confirmed # job[c].read[rd]}
    /\ crossed' = {}
    /\ UNCHANGED <<loaded, data, evidence, control, filing, calls>>

-----------------------------------------------------------------------------
(* A confirmation re-evaluates one mapping for the period it had, then      *)
(* rolls up the siblings it can see.                                        *)
BeginConfirm(c, rd, confirm) ==
    /\ Called
    /\ job[c] = Idle
    /\ mapping[rd] # NoMapping
    /\ job' = [job EXCEPT ![c] =
                 [op |-> "confirm", rd |-> rd, period |-> mapping[rd].period, confirm |-> confirm,
                  found |-> Evaluate(rd, mapping[rd].period, confirm)]]
    /\ UNCHANGED <<rows, history>>
Confirmed(ev, confirm, m) == Row(ev, confirm, m.period)
ConfirmMapping(c) ==
    LET r == job[c]
    IN  /\ r.op = "confirm"
        /\ Unlocked(c, r.rd)
        /\ job' = [job EXCEPT ![c] =
                     [op |-> "roll up", rd |-> r.rd,
                      rows |-> [k \in {r.rd} |-> Confirmed(r.found, r.confirm, mapping[k])]]]
        /\ UNCHANGED <<rows, calls, history>>
RecomputeRollup(c) ==
    /\ job[c].op = "roll up"
    /\ job' = [job EXCEPT ![c] =
                 [op |-> "confirmed", rd |-> job[c].rd, rows |-> job[c].rows,
                  siblings |-> Statuses(DisclosureOf[job[c].rd], MappingAfter(c))]]
    /\ UNCHANGED <<rows, calls, history>>
CompleteConfirm(c) ==
    LET dis == DisclosureOf[job[c].rd]
    IN  /\ job[c].op = "confirmed"
        /\ mapping' = MappingAfter(c)
        /\ disclosure' = [disclosure EXCEPT ![dis] = IF @ = None THEN None
                                                     ELSE Summary(job[c].siblings)]
        /\ job' = [job EXCEPT ![c] = Idle]
        /\ unsettled' = unsettled \ {job[c].rd}
        /\ crossed' = IF job[c].siblings = Statuses(dis, MappingAfter(c))
                      THEN crossed \ {dis} ELSE crossed \cup {dis}
        /\ UNCHANGED <<loaded, data, evidence, control, filing, calls>>

-----------------------------------------------------------------------------
(* A filing reads the mappings, of whatever period they are, then their     *)
(* evidence, stores its documents, and takes the next version number.       *)
BeginFiling(c, p) ==
    /\ Called
    /\ job[c] = Idle
    /\ loaded
    /\ job' = [job EXCEPT ![c] = [op |-> "filing", period |-> p, read |-> mapping]]
    /\ UNCHANGED <<rows, history>>
StatusesOf(m) == {evidence[e] : e \in m.evidence}
Classified(rd, m) ==
    IF m = NoMapping THEN "gap" ELSE ClassifyFilingDatapoint(Rule[rd], m, StatusesOf(m))
AssembleFiling(c) ==
    LET resolution == [rd \in Required |-> Classified(rd, job[c].read[rd])]
    IN  /\ job[c].op = "filing"
        /\ job' = [job EXCEPT ![c] =
                     [op |-> "stored", period |-> job[c].period,
                      reported |-> {rd \in Required : resolution[rd] = "reported"}]]
        /\ UNCHANGED <<rows, calls, history>>
NextVersion(p) == [version |-> Len(filing[p]) + 1, supersedes |-> Len(filing[p])]
ReadPreviousVersion(c) ==
    /\ job[c].op = "stored"
    /\ job' = [job EXCEPT ![c] = [op |-> "versioned", period |-> job[c].period,
                                  reported |-> job[c].reported,
                                  next |-> NextVersion(job[c].period)]]
    /\ UNCHANGED <<rows, calls, history>>
VersionIsFree_Always(p, n) == TRUE
VersionIsFree(p, n) == \A i \in 1..Len(filing[p]) : filing[p][i].version # n
CreateFiling(c) ==
    LET r == job[c]
    IN  /\ r.op = "versioned"
        /\ VersionIsFree(r.period, r.next.version)
        /\ filing' = [filing EXCEPT ![r.period] = Append(@,
                        [version |-> r.next.version, supersedes |-> r.next.supersedes,
                         readiness |-> IF r.reported = Required THEN "ready" ELSE "blocked"])]
        /\ job' = [job EXCEPT ![c] = Idle]
        /\ UNCHANGED <<loaded, data, evidence, mapping, disclosure, control, calls, history>>

(* A failure, a taken version number, a deadlock or a timeout.              *)
Abort(c) ==
    /\ job[c] # Idle
    /\ job' = [job EXCEPT ![c] = Idle]
    /\ UNCHANGED <<rows, calls, history>>

-----------------------------------------------------------------------------
(* Compilations of filings, the other requests, and what others change.     *)
FilingNext(c) ==
    \/ \E p \in Period : BeginFiling(c, p)
    \/ AssembleFiling(c)
    \/ ReadPreviousVersion(c)
    \/ CreateFiling(c)
Next ==
    \/ LoadRuleStore
    \/ \E rd \in Required, c \in Candidate : AddDatapoint(rd, c)
    \/ \E e \in Evidence, status \in {"expired", "rejected"} : EvidenceTurns(e, status)
    \/ \E status \in {None, "failed"} : UpsertControl(status)
    \/ \E c \in Client :
         \/ \E p \in Period \cup {None} : RunComplianceEvaluation(c, p)
         \/ UpsertMapping(c)
         \/ CompleteEvaluation(c)
         \/ \E rd \in Required, confirm \in BOOLEAN : BeginConfirm(c, rd, confirm)
         \/ ConfirmMapping(c)
         \/ RecomputeRollup(c)
         \/ CompleteConfirm(c)
         \/ FilingNext(c)
         \/ Abort(c)

Spec == Init /\ [][Next]_vars

-----------------------------------------------------------------------------
(* Types of the rows; a complete mapping has a value and live evidence.     *)
TypeOK ==
    /\ \A rd \in Required :
         mapping[rd].status = "mapping_complete" =>
           mapping[rd].hasValue /\ mapping[rd].evidence # {}
    /\ control # None => control.status \in {"not_implemented", "implemented", "passed", "failed"}

(* A disclosure's readiness is at most a hundred per cent.                  *)
PercentagesInRange ==
    \A dis \in Disclosure : disclosure[dis] # None => disclosure[dis].readinessPct \in 0..1000

(* "mapping_complete: Data + evidence + confirmed mapping + Trust Score     *)
(* above threshold" (docs/compliance-architecture.md:71), unless somebody   *)
(* (un)confirmed it while it was evaluated.                                 *)
CompleteIsConfirmed ==
    \A rd \in Required \ unsettled :
       mapping[rd].status = "mapping_complete" => mapping[rd].confirmed

(* A disclosure's status, count and percentage are those of its mappings,   *)
(* unless a sibling changed between a confirmation's roll-up and commit.    *)
DisclosureAgrees ==
    \A dis \in Disclosure \ crossed :
       disclosure[dis] # None => disclosure[dis] = Summary(Statuses(dis, mapping))

(* The rules of evaluation and of filing agree: a filing reports exactly    *)
(* the complete mappings, but for those whose evidence has lapsed since.    *)
CompleteIsReported ==
    \A rd \in Required \ unsettled :
       mapping[rd] # NoMapping /\ "verified" \in StatusesOf(mapping[rd]) =>
         (Classified(rd, mapping[rd]) = "reported" <=> mapping[rd].status = "mapping_complete")

(* The filings of each period are the versions of one chain, whatever       *)
(* filings of the period are drawn up at a time (VersionChain).             *)
VersionsOf(f) ==
    [i \in DOMAIN f |-> [version |-> f[i].version, supersedes |-> f[i].supersedes]]
FilingChain == [p \in Period |-> VersionsOf(filing[p])]
Chain == INSTANCE VersionChain WITH Subject <- Period, chain <- FilingChain
FilingsFormChains == Chain!Spec
=============================================================================

-------------------------------- MODULE Ask --------------------------------
(***************************************************************************)
(* Ask TRACE (packages/db/src/ask.ts): a question becomes an intent by one *)
(* model call, the intent one of eleven fixed retrievals over the          *)
(* organization's records, and the numbered records an answer by a second  *)
(* call.  All of it is one READ COMMITTED transaction that waits for the   *)
(* model twice: a failing or slow call takes back every row it wrote.      *)
(* Questions share nothing but the records they read.                      *)
(*                                                                         *)
(* `world' is what the retrievals read: calcs is a function from ids,      *)
(* datapoints, scores, gaps, findings and issues are sets.  Statuses and   *)
(* severities are numbers in the order of their enumerations where a query *)
(* orders by them.  A blank question is refused before anything is done.   *)
(***************************************************************************)
EXTENDS CarbonRules, SequencesExt

CONSTANTS
    World,         \* states of the organization's records
    ActivePeriod,  \* the configured period
    LastDay,       \* [period -> its year's last day]
    Asker,         \* requests, of one question each
    MaxRecords, MaxRef,
    MaxCalls       \* bound: questions and changes of the records

Intents == {"emissions_summary", "emissions_trend", "top_scope3_categories",
            "top_suppliers_by_emissions", "missing_evidence", "estimated_datapoints",
            "outdated_factors", "low_trust_datapoints", "compliance_gaps", "open_findings",
            "data_quality_issues", "unsupported"}
Period == DOMAIN LastDay
AskAssumption == ActivePeriod \in Period /\ MaxRecords \in Nat \ {0} /\ MaxRef > MaxRecords

VARIABLES
    world,
    asking,        \* each request: where it is, what it has written and read
    queries,       \* committed ask_query rows, each with its ai_job rows
    calls
askVars == <<world, asking, queries, calls>>

Idle == [at |-> "idle"]
Done == [at |-> "done"]
Init ==
    /\ world \in World
    /\ asking = [c \in Asker |-> Idle]
    /\ queries = {}
    /\ calls = 0
Called == calls < MaxCalls /\ calls' = calls + 1
Others(w) ==
    /\ Called
    /\ world' = w
    /\ UNCHANGED <<asking, queries>>

-----------------------------------------------------------------------------
(* Retrievals.  A record has the id and the value it shows and its rank in  *)
(* the order of the query, 0 where any order may be returned.               *)
Record(id, value, rank) == [id |-> id, value |-> value, rank |-> rank]
Current(w) == {k \in DOMAIN w.calcs : w.calcs[k].current}
InPeriod(w, p) == {k \in Current(w) : w.calcs[k].period = p}
Figures == <<"scope_1", "scope_2", "scope_2_location", "scope_2_market", "scope_3", "total">>
EmissionsSummary(w, p) ==
    LET figure == SummariseInventory(w.calcs, InPeriod(w, p))
    IN  {Record(Figures[i], figure[Figures[i]], i) : i \in DOMAIN Figures}
(* The periods with calculations are read first, then one after the other.  *)
PeriodsListed(w) == {w.calcs[k].period : k \in Current(w)}
EmissionsTrend(w, p) == 
    Record(p, SummariseInventory(w.calcs, InPeriod(w, p))["total"], LastDay[p])
TopScope3Categories(w, p) ==
    {Record(row.category, row.value, -row.value)
       : row \in {r \in AggregateEmissions(w.calcs, InPeriod(w, p)) : r.scope = "scope_3"}}

Of(w, p) == {d \in w.datapoints : d.period = p}
Attributed(w, p) == {d \in Of(w, p) : d.supplier # None /\ d.emission}
TopSuppliers(w, p) ==
    LET Sum(s) == MapThenSumSet(LAMBDA d : d.value, {d \in Attributed(w, p) : d.supplier = s})
    IN  {Record(s, Sum(s), -Sum(s)) : s \in {d.supplier : d \in Attributed(w, p)}}
Live(e, asOf) == ~e.dead /\ (e.expires = None \/ e.expires >= asOf)
MissingEvidence(w, p) ==
    {Record(d.id, d.value, d.metric)
       : d \in {x \in Of(w, p) : \A e \in x.evidence : ~Live(e, LastDay[p])}}
EstimatedDatapoints(w, p) ==
    {Record(d.id, d.value, d.metric)
       : d \in {x \in Of(w, p) : x.provenance \in {"estimated", "modeled", "inferred"}}}
OutdatedFactors(w, p) ==
    LET AsOf(k) == IF w.calcs[k].on = None THEN LastDay[p] ELSE w.calcs[k].on
    IN  {Record(k, w.calcs[k].result, 0)
           : k \in {x \in Current(w) : w.calcs[x].validTo # None /\ w.calcs[x].validTo < AsOf(x)}}
LowTrust(w) ==
    {Record(t.id, t.value, t.value) : t \in {x \in w.scores : x.current /\ x.value < 50}}
OpenFindings(w) ==
    {Record(f.id, f.severity, f.severity)
       : f \in {x \in w.findings : x.status \in {"open", "acknowledged", "remediating"}}}
DataQualityIssues(w) ==
    {Record(i.id, i.severity, i.severity)
       : i \in {x \in w.issues : x.status \in {"open", "acknowledged"}}}

Retrieval(intent, w, p) ==
    CASE intent = "emissions_summary"          -> EmissionsSummary(w, p)
      [] intent = "top_scope3_categories"      -> TopScope3Categories(w, p)
      [] intent = "top_suppliers_by_emissions" -> TopSuppliers(w, p)
      [] intent = "missing_evidence"           -> MissingEvidence(w, p)
      [] intent = "estimated_datapoints"       -> EstimatedDatapoints(w, p)
      [] intent = "outdated_factors"           -> OutdatedFactors(w, p)
      [] intent = "low_trust_datapoints"       -> LowTrust(w)
      [] intent = "compliance_gaps"            -> {Record(g.id, 0, g.status) : g \in w.gaps}
      [] intent = "open_findings"              -> OpenFindings(w)
      [] intent = "data_quality_issues"        -> DataQualityIssues(w)
      [] intent = "unsupported"                -> {}
(* The first MaxRecords in an order that agrees with the ranks.             *)
Numbered(found) ==
    {SubSeq(order, 1, Min({Len(order), MaxRecords}))
       : order \in {o \in SetToSeqs(found) : \A i, j \in DOMAIN o : i < j => o[i].rank <= o[j].rank}}

-----------------------------------------------------------------------------
Running == [status |-> "running", tokens |-> 0]
Completed(tokens) == [status |-> "completed", tokens |-> tokens]

RunAskQuery(c) ==
    /\ Called
    /\ asking[c] = Idle
    /\ asking' = [asking EXCEPT ![c] = [at |-> "intent", jobs |-> <<Running>>]]
    /\ UNCHANGED <<world, queries>>
(* The model may name a period; the configured one is taken otherwise.      *)
ClassifyAskIntent(c, intent, period, tokens) ==
    /\ asking[c].at = "intent"
    /\ asking' = [asking EXCEPT ![c] =
         [at |-> IF intent = "emissions_trend" THEN "periods" ELSE "retrieve", intent |-> intent,
          period |-> IF period = None THEN ActivePeriod ELSE period, todo |-> {}, trend |-> {},
          jobs |-> <<Completed(tokens)>>]]
    /\ UNCHANGED <<world, queries, calls>>
ListPeriods(c) ==
    /\ asking[c].at = "periods"
    /\ asking' = [asking EXCEPT ![c].at = "trend", ![c].todo = PeriodsListed(world)]
    /\ UNCHANGED <<world, queries, calls>>
SummarisePeriod(c, p) ==
    /\ asking[c].at = "trend"
    /\ p \in asking[c].todo /\ \A q \in asking[c].todo : LastDay[p] <= LastDay[q]
    /\ asking' = [asking EXCEPT ![c].todo = @ \ {p}, ![c].trend = @ \cup {EmissionsTrend(world, p)}]
    /\ UNCHANGED <<world, queries, calls>>
Found(c) ==
    IF asking[c].at = "trend" THEN asking[c].trend
    ELSE Retrieval(asking[c].intent, world, asking[c].period)
Finish(c, records, jobs, cited) ==
    queries' = queries \cup
      {[intent |-> asking[c].intent, jobs |-> jobs,
        period |-> IF asking[c].intent = "unsupported" THEN None ELSE asking[c].period,
        recordCount |-> Len(records), records |-> records,
        tokens |-> FoldLeft(LAMBDA sum, j : sum + j.tokens, 0, jobs),
        answered |-> cited # {}, citations |-> {[ref |-> i, record |-> records[i]] : i \in cited}]}
(* With nothing to go by the fixed answer is stored, and no second call     *)
(* made.                                                                    *)
Retrieves(c) == asking[c].at = "retrieve" \/ (asking[c].at = "trend" /\ asking[c].todo = {})
Retrieve(c) ==
    /\ Retrieves(c)
    /\ \E records \in Numbered(Found(c)) :
          IF records = <<>>
          THEN /\ Finish(c, <<>>, asking[c].jobs, {})
               /\ asking' = [asking EXCEPT ![c] = Done]
          ELSE /\ asking' = [asking EXCEPT ![c] =
                    [at |-> "answer", intent |-> @.intent, period |-> @.period,
                     records |-> records, jobs |-> Append(@.jobs, Running)]]
               /\ UNCHANGED queries
    /\ UNCHANGED <<world, calls>>
(* The model may cite numbers no record has.                                *)
Cited(c, refs) == refs \cap DOMAIN asking[c].records
ComposeAskAnswer(c, refs, tokens) ==
    /\ asking[c].at = "answer"
    /\ Finish(c, asking[c].records, <<asking[c].jobs[1], Completed(tokens)>>, Cited(c, refs))
    /\ asking' = [asking EXCEPT ![c] = Done]
    /\ UNCHANGED <<world, calls>>
(* The model fails, answers out of schema or too late: the failure is noted *)
(* on the job, and rolled back with it.                                     *)
AbortQuery(c) ==
    /\ asking[c] \notin {Idle, Done}
    /\ asking' = [asking EXCEPT ![c] = Done]
    /\ UNCHANGED <<world, queries, calls>>

Next ==
    \/ \E w \in World : Others(w)
    \/ \E c \in Asker :
         \/ RunAskQuery(c)
         \/ \E intent \in Intents, period \in Period \cup {None}, tokens \in {1, 2} :
              ClassifyAskIntent(c, intent, period, tokens)
         \/ ListPeriods(c)
         \/ \E p \in Period : SummarisePeriod(c, p)
         \/ Retrieve(c)
         \/ \E refs \in SUBSET (1 .. MaxRef), tokens \in {1, 2} : ComposeAskAnswer(c, refs, tokens)
         \/ AbortQuery(c)

Spec == Init /\ [][Next]_askVars

-----------------------------------------------------------------------------
(* A stored query has its completed calls and their cost, the second only   *)
(* if there was something to answer from; it is answered just when it cites *)
(* records it retrieved, in the order of their ranks.                       *)
AnswersAreGrounded ==
    \A q \in queries :
       /\ \A i \in DOMAIN q.jobs : q.jobs[i].status = "completed"
       /\ Len(q.jobs) = IF q.recordCount = 0 THEN 1 ELSE 2
       /\ q.tokens = FoldLeft(LAMBDA sum, j : sum + j.tokens, 0, q.jobs)
       /\ q.answered = (q.citations # {})
       /\ q.answered => q.intent # "unsupported"
       /\ \A x, y \in q.citations :
             /\ x.record \in ToSet(q.records)
             /\ x.ref < y.ref => x.record.rank <= y.record.rank /\ x.record # y.record

(* What the model is shown is true when it is read, each thing once, and    *)
(* nothing that fits is missed: a datapoint is shown to lack evidence just  *)
(* if all it has is dead by the end of the period's year, and no supplier   *)
(* that is left out emits more.  A trend's totals are those of the          *)
(* summaries of the moment, a total per period that was listed.             *)
Shown(c, records) ==
    LET all == ToSet(records)
        ids == {r.id : r \in all}
        fits == Len(records) < MaxRecords
        p == asking[c].period
        bare == {d.id : d \in {x \in Of(world, p) : {e \in x.evidence : Live(e, LastDay[p])} = {}}}
    IN  /\ Cardinality(ids) = Len(records)
        /\ asking[c].intent = "missing_evidence" => ids \subseteq bare /\ (fits => ids = bare)
        /\ asking[c].intent = "top_suppliers_by_emissions" =>
              \A d \in Attributed(world, p) :
                 d.supplier \in ids \/ (~fits /\ \A r \in all : r.value >= d.value)
TrendIsTrue(c) ==
    \A r \in asking'[c].trend \ asking[c].trend :
       /\ r.id \in asking[c].todo
       /\ Record("total", r.value, 6) \in EmissionsSummary(world, r.id)
RetrievalIsFair ==
    [][\A c \in Asker :
          /\ Retrieves(c) /\ asking'[c].at = "answer" => Shown(c, asking'[c].records)
          /\ Retrieves(c) /\ asking'[c] = Done /\ queries' # queries => Shown(c, <<>>)
          /\ asking[c].at = "trend" /\ asking'[c].at = "trend" => TrendIsTrue(c)]_askVars
=============================================================================

---------------------------- MODULE Procurement ----------------------------
(***************************************************************************)
(* Procurement intelligence (packages/db/src/procurement.ts and            *)
(* packages/domain/src/procurement): the comparison of an organization's   *)
(* suppliers by carbon intensity, and saved what-if scenarios that run the *)
(* carbon engine again on lines taken from calculations.  The comparison   *)
(* is a READ COMMITTED transaction: suppliers first, then emissions.       *)
(*                                                                         *)
(* Engine results are in the last decimal the engine keeps; `Fine' of them *)
(* make the last decimal of an aggregate (ten make a tonne here).  Spend   *)
(* is in thousands; an intensity is exact in units of one aggregate        *)
(* decimal per `Scale' thousands.                                          *)
(***************************************************************************)
EXTENDS CarbonRules, SequencesExt

CONSTANTS
    Supplier,      \* a sequence: the suppliers by name
    Profile,       \* what may be known of one: active, spend, tier, passport, trust
    Line,          \* calculations: supplier, value, unit, factor, methodology
    Change,        \* changes a scenario may make: supplier, pct, factor, drop
    Start,         \* the calculations that may be there at the start
    Reader,        \* transactions that compare
    Fine, Scale,
    MaxPct,        \* the column's limit of a percentage, in hundredths
    MaxCalls       \* bound: changes and requests

Known == ToSet(Supplier)
Emission(line) == ComputeEmission(line.value, line.unit, line.factor)
ProcurementAssumption ==
    /\ \A p \in Profile : p.spend \in {None, 0} \/ Scale % p.spend = 0
    /\ \A line \in Line, change \in Change : (line.value * change.pct) % 100 = 0

VARIABLES
    profile,       \* supplier and supplier_relationship rows
    calculated,    \* calculations with a supplier's emission datapoint, in order
    job,           \* the suppliers a comparison has read
    comparison,    \* the last comparison given, and what it was computed from
    offered,       \* the lines last offered for a scenario, and their results
    saved,         \* procurement_scenario rows
    calls
procurementVars == <<profile, calculated, job, comparison, offered, saved, calls>>

Idle == [at |-> "idle"]
Init ==
    /\ profile \in [Known -> Profile]
    /\ calculated \in Start
    /\ job = [r \in Reader |-> Idle]
    /\ comparison = None /\ offered = <<>> /\ saved = {}
    /\ calls = 0
Called == calls < MaxCalls /\ calls' = calls + 1

UpdateSupplier(s, p) ==
    /\ Called
    /\ profile' = [profile EXCEPT ![s] = p]
    /\ UNCHANGED <<calculated, job, comparison, offered, saved>>
(* A calculation that succeeds echoes its inputs.                           *)
RunCalculation(line) ==
    /\ Called
    /\ Emission(line) # None
    /\ calculated' = Append(calculated, line)
    /\ UNCHANGED <<profile, job, comparison, offered, saved>>

-----------------------------------------------------------------------------
(* Comparison.  A row of the input has the supplier's datapoints summed and *)
(* rounded; of their methodologies supplier_specific wins, any other that   *)
(* the database returns first.                                              *)
RoundSigned(n, d) == IF n < 0 THEN -RoundHalfUp(-n, d) ELSE RoundHalfUp(n, d)
Total(amounts) == FoldFunction(LAMBDA a, b : a + b, 0, amounts)
Emissions(lines) == [i \in DOMAIN lines |-> Emission(lines[i])]
LinesOf(s, lines) == SelectSeq(lines, LAMBDA line : line.supplier = s)
Methodologies(lines) ==
    LET all == {lines[i].methodology : i \in DOMAIN lines}
    IN  IF "supplier_specific" \in all THEN {"supplier_specific"}
        ELSE IF all = {} THEN {None} ELSE all
Inputs(read, lines, methodology) ==
    [s \in DOMAIN methodology |->
       [spend |-> read[s].spend, tier |-> read[s].tier, passport |-> read[s].passport,
        trust |-> read[s].trust, methodology |-> methodology[s],
        emissions |-> IF LinesOf(s, lines) = <<>> THEN None
                      ELSE RoundHalfUp(Total(Emissions(LinesOf(s, lines))), Fine)]]

Or0(x) == IF x = None THEN 0 ELSE x
Ranked(in) ==
    {s \in DOMAIN in : in[s].emissions # None /\ in[s].spend # None /\ in[s].spend # 0}
Intensity(row) == row.emissions * (Scale \div row.spend)
(* To four decimals of a tonne per thousand.                                *)
RoundedIntensity(row) == RoundHalfUp(Intensity(row) * 1000, Scale)
ByName == [s \in Known |-> CHOOSE i \in DOMAIN Supplier : Supplier[i] = s]
(* The domain of `value', highest first, equal ones as `place' has them.    *)
HighestFirst(value, place) ==
    LET First(s, t) == value[s] > value[t] \/ (value[s] = value[t] /\ place[s] < place[t])
    IN  [i \in 1 .. Cardinality(DOMAIN value) |->
           CHOOSE s \in DOMAIN value : Cardinality({t \in DOMAIN value : First(t, s)}) = i - 1]

(* Twice the median.                                                        *)
Median2(ranking, in) ==
    LET n == Len(ranking)  m == n \div 2
        At(i) == Intensity(in[ranking[i]])
    IN  IF n = 0 THEN None ELSE IF n % 2 = 0 THEN At(m) + At(m + 1) ELSE 2 * At(m + 1)

AttributionQuality(row) ==
    IF row.emissions = None THEN "none"
    ELSE IF row.methodology \in {"supplier_specific", "spend_based"} THEN row.methodology
    ELSE "other"
Flags(row) ==
    (IF AttributionQuality(row) \in {"spend_based", "none"} THEN {AttributionQuality(row)} ELSE {})
    \cup (IF ~row.passport THEN {"no passport"} ELSE {})
    \cup (IF row.trust # None /\ row.trust < 50 THEN {"low trust"} ELSE {})

(* What a supplier above the median would save at the median, in parts      *)
(* of 2 * Scale, and what is proposed about it: more than half a tonne to   *)
(* save, or more than a tonne to refine or to engage for.                   *)
SavingAt(row, median2) == 2 * Scale * row.emissions - row.spend * median2
Proposals(s, row, median2, isRanked) ==
    LET Of(kind, saving) == [kind |-> kind, supplier |-> s, saving |-> saving]
    IN  (IF /\ isRanked
            /\ 2 * Scale * RoundedIntensity(row) > 1000 * median2
            /\ SavingAt(row, median2) > 10 * Scale
         THEN <<Of("reduce_intensity", RoundHalfUp(SavingAt(row, median2), 2 * Scale))>>
         ELSE <<>>)
        \o (IF AttributionQuality(row) = "spend_based" /\ row.emissions > 10
            THEN <<Of("refine_data", None)>> ELSE <<>>)
        \o (IF ~row.passport /\ row.tier # None /\ row.tier <= 1 /\ row.emissions > 10
            THEN <<Of("engage_supplier", None)>> ELSE <<>>)
OpportunityCap == 6
BestFirst(proposals) ==
    LET value == [i \in DOMAIN proposals |->
                    IF proposals[i].saving = None THEN -1 ELSE proposals[i].saving]
        order == HighestFirst(value, [i \in DOMAIN proposals |-> i])
    IN  [i \in DOMAIN order |-> proposals[order[i]]]

CompareSuppliers(in) ==
    LET ranking == HighestFirst([s \in Ranked(in) |-> Intensity(in[s])], ByName)
        key == [s \in DOMAIN in |-> IF s \in Ranked(in) THEN RoundedIntensity(in[s]) ELSE -1]
        rows == HighestFirst(key, ByName)
        Emitted(seq) == Total([i \in DOMAIN seq |-> Or0(in[seq[i]].emissions)])
        found == FlattenSeq([i \in DOMAIN rows |->
                   IF in[rows[i]].emissions = None THEN <<>>
                   ELSE Proposals(rows[i], in[rows[i]], Median2(ranking, in), rows[i] \in Ranked(in))])
        total == Emitted(rows)
        spendBased == SelectSeq(rows, LAMBDA s : in[s].methodology = "spend_based")
    IN  [ranking |-> ranking, rows |-> rows,
         flags |-> [s \in DOMAIN in |-> Flags(in[s])],
         total |-> total, spend |-> Total([s \in DOMAIN in |-> Or0(in[s].spend)]),
         emissionsShare |-> [s \in DOMAIN in |->
            IF total = 0 \/ in[s].emissions = None THEN None
            ELSE RoundHalfUp(10000 * in[s].emissions, total)],
         spendBasedShare |-> IF total = 0 THEN 0
            ELSE RoundHalfUp(1000 * Emitted(spendBased), total),
         median2 |-> Median2(ranking, in),
         found |-> found,
         opportunities |-> SubSeq(BestFirst(found), 1, Min({Len(found), OpportunityCap}))]

BeginComparison(r) ==
    /\ Called
    /\ job[r] = Idle
    /\ job' = [job EXCEPT ![r] = [at |-> "suppliers",
                                  read |-> [s \in {x \in Known : profile[x].active} |-> profile[s]]]]
    /\ UNCHANGED <<profile, calculated, comparison, offered, saved>>
FinishComparison(r) ==
    /\ job[r].at = "suppliers"
    /\ \E methodology \in [DOMAIN job[r].read -> {line.methodology : line \in ToSet(calculated)} \cup {None}] :
          /\ \A s \in DOMAIN methodology : methodology[s] \in Methodologies(LinesOf(s, calculated))
          /\ LET in == Inputs(job[r].read, calculated, methodology)
             IN  comparison' = [in |-> in, out |-> CompareSuppliers(in)]
    /\ job' = [job EXCEPT ![r] = Idle]
    /\ UNCHANGED <<profile, calculated, offered, saved, calls>>

-----------------------------------------------------------------------------
(* Scenarios.  A supplier's line is its largest calculation's; the client   *)
(* may run the lines it was offered later, or lines of its own.             *)
ScenarioLinesForSuppliers(S) ==
    /\ Called
    /\ \E order \in SetToSeqs({s \in S : LinesOf(s, calculated) # <<>>}) :
       \E lines \in [DOMAIN order -> ToSet(calculated)] :
          /\ \A i \in DOMAIN order :
                /\ lines[i].supplier = order[i]
                /\ \A other \in ToSet(LinesOf(order[i], calculated)) :
                      Emission(other) <= Emission(lines[i])
          /\ offered' = lines
    /\ UNCHANGED <<profile, calculated, job, comparison, saved>>

(* Of two changes to a supplier the last counts.  A factor of None leaves   *)
(* the line's.                                                              *)
ChangesOf(line, changes) == SelectSeq(changes, LAMBDA c : c.supplier = line.supplier)
Project(line, changes) ==
    IF ChangesOf(line, changes) = <<>> THEN line
    ELSE LET change == Last(ChangesOf(line, changes))
         IN  [line EXCEPT !.value = (@ * change.pct) \div 100,
                          !.factor.value = IF change.factor = None THEN @ ELSE change.factor]
Dropped(line, changes) == ChangesOf(line, changes) # <<>> /\ Last(ChangesOf(line, changes)).drop
ProjectScenario(lines, changes) ==
    LET Projected(line) == IF Dropped(line, changes) THEN 0 ELSE Emission(Project(line, changes))
        baseline == Total(Emissions(lines))
        projected == Total([i \in DOMAIN lines |-> Projected(lines[i])])
    IN  [baseline |-> RoundHalfUp(baseline, Fine), projected |-> RoundHalfUp(projected, Fine),
         delta |-> RoundSigned(projected - baseline, Fine),
         pct |-> IF baseline = 0 THEN 0 ELSE RoundSigned(10000 * (projected - baseline), baseline),
         deltas |-> [i \in DOMAIN lines |->
                       RoundSigned(Projected(lines[i]) - Emission(lines[i]), Fine)]]
(* Refused with no line, with units that do not convert, and with a         *)
(* percentage that does not fit its column.                                 *)
RunProcurementScenario(lines, changes) ==
    /\ Called
    /\ lines # <<>>
    /\ \A i \in DOMAIN lines : Emission(lines[i]) # None
    /\ LET result == ProjectScenario(lines, changes)
       IN  /\ result.pct < MaxPct
           /\ saved' = saved \cup {[lines |-> lines, changes |-> changes, result |-> result]}
    /\ UNCHANGED <<profile, calculated, job, comparison, offered>>

Next ==
    \/ \E s \in Known, p \in Profile : UpdateSupplier(s, p)
    \/ \E line \in Line : RunCalculation(line)
    \/ \E r \in Reader : BeginComparison(r) \/ FinishComparison(r)
    \/ \E S \in SUBSET Known : ScenarioLinesForSuppliers(S)
    \/ \E lines \in {offered} \cup {<<line>> : line \in Line}, change \in Change :
         \/ RunProcurementScenario(lines, <<change>>)
         \/ \E other \in Change : RunProcurementScenario(lines, <<change, other>>)

Spec == Init /\ [][Next]_procurementVars

-----------------------------------------------------------------------------
(* A comparison ranks by intensity without gaps, a supplier below the       *)
(* median is never told to come down to it, no more would be saved than is  *)
(* emitted, and of up to six quantified proposals the cap cuts none,        *)
(* whatever changes between its reads.                                      *)
ComparisonIsFair ==
    comparison # None =>
       LET in == comparison.in  out == comparison.out
       IN  /\ ToSet(out.ranking) = Ranked(in) /\ Len(out.ranking) = Cardinality(Ranked(in))
           /\ \A i, j \in DOMAIN out.ranking :
                 i < j => Intensity(in[out.ranking[i]]) >= Intensity(in[out.ranking[j]])
           /\ out.total = Total([i \in DOMAIN out.rows |-> Or0(in[out.rows[i]].emissions)])
           /\ LET reductions == {o \in ToSet(out.found) : o.kind = "reduce_intensity"}
              IN  /\ 2 * Cardinality(reductions) <= Cardinality(Ranked(in))
                  /\ MapThenSumSet(LAMBDA o : o.saving, reductions) <= out.total
                  /\ \A o \in reductions : 2 * Intensity(in[o.supplier]) > out.median2
           /\ {o \in ToSet(out.found) : o.saving # None} \subseteq ToSet(out.opportunities)

(* A scenario's totals are its lines', to the rounding of each; what is not *)
(* changed stays as it is; and cuts alone never raise the emissions.        *)
ScenarioAddsUp ==
    \A s \in saved :
       LET r == s.result
           Gone(i) == Dropped(s.lines[i], s.changes)
           error == Total(r.deltas) - r.delta
           Cuts(c) == c.drop \/ (c.pct <= 100 /\ c.factor = None)
       IN  /\ error \in -Len(s.lines) .. Len(s.lines)
           /\ r.projected - r.baseline - r.delta \in -1 .. 1
           /\ (\A i \in DOMAIN s.changes : Cuts(s.changes[i])) => r.delta <= 0
           /\ \A i \in DOMAIN s.lines :
                /\ ChangesOf(s.lines[i], s.changes) = <<>> => r.deltas[i] = 0
                /\ Gone(i) => r.deltas[i] = -RoundHalfUp(Emission(s.lines[i]), Fine)
=============================================================================

----------------------------- MODULE Inventory ------------------------------
(***************************************************************************)
(* Activity data, calculations, the datapoints they produce, and the       *)
(* emission rows of one organization and one reporting period              *)
(* (packages/db/src/carbon.ts, apps/api: activity-data, calculations,      *)
(* emission-factors).  A request is a READ COMMITTED transaction: it reads *)
(* first, others may commit, then it writes.                               *)
(***************************************************************************)
EXTENDS CarbonRules, Sequences

CONSTANTS
    Activity,
    Start,       \* what `activity' may be at the start
    ScopeOf,     \* [Activity -> Scopes]: the scope is never edited
    Unit,        \* the units activities are entered in
    Category,    \* GHG categories; an activity may have None
    Factor,      \* emission factors that may be added to the library
    Value,       \* quantities of activities
    Evidence,
    Client,
    MaxCalls     \* bound: requests

InventoryAssumption ==
    /\ ScopeOf \in [Activity -> Scopes]
    /\ Value \subseteq Nat /\ None \notin Category

VARIABLES
    activity,    \* activity_data rows and their evidence links
    factors,     \* emission_factor rows
    calc,        \* calculation rows, in the order they are committed
    datapoint,   \* datapoint rows with a calculationId, likewise
    emission,    \* emission rows; `stamp' tells rows of different rollups apart
    tx,          \* the transactions: what each has read
    calls,
    raced,       \* history: activities deleted while they were calculated
    forked,      \* history: calculations recomputed when superseded
    doubled      \* history: have overlapping rollups left duplicates?

vars == <<activity, factors, calc, datapoint, emission, tx, calls, raced, forked, doubled>>
stored == <<activity, factors, calc, datapoint, emission>>
history == <<raced, forked, doubled>>

Idle == [op |-> "idle"]
Criteria(a, row) ==
    [scope |-> ScopeOf[a], unit |-> row.unit, category |-> row.category,
     geography |-> None, methodology |-> None, asOf |-> 1]

Init ==
    /\ activity \in Start
    /\ factors \in {F \in SUBSET Factor : F # {}}
    /\ calc = <<>> /\ datapoint = <<>> /\ emission = {}
    /\ tx = [c \in Client |-> Idle]
    /\ calls = 0 /\ raced = {} /\ forked = {} /\ doubled = FALSE

Called == calls < MaxCalls /\ calls' = calls + 1
Live(a) == activity[a].status = "live"
Calcs == DOMAIN calc
Successors(k) == {next \in Calcs : calc[next].supersedes = k}
Current == {k \in Calcs : Successors(k) = {}}

-----------------------------------------------------------------------------
(* Activities and factors.                                                  *)
CreateActivity(a, value, unit, category) ==
    /\ Called
    /\ activity[a].status = "none"
    /\ activity' = [activity EXCEPT ![a] =
                      [status |-> "live", value |-> value, unit |-> unit,
                       category |-> category, evidence |-> {}]]
    /\ UNCHANGED <<factors, calc, datapoint, emission, tx, history>>
UpdateActivity(a, value, unit, category) ==
    /\ Called
    /\ Live(a)
    /\ activity' = [activity EXCEPT ![a].value = value, ![a].unit = unit, ![a].category = category]
    /\ UNCHANGED <<factors, calc, datapoint, emission, tx, history>>
LinkEvidence(a, e) ==
    /\ Called
    /\ Live(a) /\ e \notin activity[a].evidence
    /\ activity' = [activity EXCEPT ![a].evidence = @ \cup {e}]
    /\ UNCHANGED <<factors, calc, datapoint, emission, tx, history>>
UnlinkEvidence(a, e) ==
    /\ Called
    /\ activity[a].status # "none" /\ e \in activity[a].evidence
    /\ activity' = [activity EXCEPT ![a].evidence = @ \ {e}]
    /\ UNCHANGED <<factors, calc, datapoint, emission, tx, history>>
CreateFactor(f) ==
    /\ Called
    /\ f \notin factors
    /\ factors' = factors \cup {f}
    /\ UNCHANGED <<activity, calc, datapoint, emission, tx, history>>

(* A deletion counts the activity's calculations, then writes.              *)
BeginDelete(c, a) ==
    /\ Called
    /\ tx[c] = Idle
    /\ Live(a)
    /\ \A k \in Calcs : calc[k].activity # a
    /\ tx' = [tx EXCEPT ![c] = [op |-> "delete", activity |-> a, last |-> Len(calc)]]
    /\ UNCHANGED <<stored, history>>
Calculating(a) == \E c \in Client : tx[c].op = "run" /\ tx[c].activity = a
SoftDelete(c) ==
    LET a == tx[c].activity
    IN  /\ tx[c].op = "delete"
        /\ activity' = [activity EXCEPT ![a].status = "deleted"]
        /\ tx' = [tx EXCEPT ![c] = Idle]
        /\ raced' = IF Calculating(a) \/ \E k \in Calcs : k > tx[c].last /\ calc[k].activity = a
                    THEN raced \cup {a} ELSE raced
        /\ UNCHANGED <<factors, calc, datapoint, emission, calls, forked, doubled>>

-----------------------------------------------------------------------------
(* Calculations.  A run reads the activity with its evidence, then selects  *)
(* a factor (or takes the one it was given) and writes; a recomputation is  *)
(* a run that then supersedes the old row and repoints its datapoints.      *)
RunCalculation(c, a, given) ==
    /\ Called
    /\ tx[c] = Idle
    /\ Live(a)
    /\ tx' = [tx EXCEPT ![c] = [op |-> "run", activity |-> a, read |-> activity[a],
                                given |-> given, old |-> 0]]
    /\ UNCHANGED <<stored, history>>
RecomputeCalculation(c, k) ==
    /\ Called
    /\ tx[c] = Idle
    /\ Live(calc[k].activity)
    /\ tx' = [tx EXCEPT ![c] = [op |-> "run", activity |-> calc[k].activity,
                                read |-> activity[calc[k].activity],
                                given |-> None, old |-> k]]
    /\ UNCHANGED <<stored, history>>

Row(a, read, f, old) ==
    [activity |-> a, value |-> read.value, unit |-> read.unit, factor |-> f,
     scope |-> ScopeOf[a], category |-> read.category,
     result |-> ComputeEmission(read.value, read.unit, f),
     supersedes |-> old, approved |-> FALSE]
Repointed(old, fresh) ==
    [i \in DOMAIN datapoint |-> IF datapoint[i].calc = old THEN [datapoint[i] EXCEPT !.calc = fresh]
                                ELSE datapoint[i]]
FactorsFor(r) ==
    IF r.given # None THEN {r.given}
    ELSE SelectEmissionFactor(factors, Criteria(r.activity, r.read))
CompleteRun(c, f) ==
    LET r == tx[c]
        row == Row(r.activity, r.read, f, r.old)
        fresh == Len(calc) + 1
    IN  /\ r.op = "run"
        /\ f \in FactorsFor(r)
        /\ row.result # None
        /\ calc' = Append(calc, row)
        /\ datapoint' = Append(Repointed(r.old, fresh),
                               [calc |-> fresh, value |-> row.result, evidence |-> r.read.evidence])
        /\ tx' = [tx EXCEPT ![c] = Idle]
        /\ forked' = IF r.old # 0 /\ Successors(r.old) # {} THEN forked \cup {r.old} ELSE forked
        /\ raced' = IF Live(r.activity) THEN raced ELSE raced \cup {r.activity}
        /\ UNCHANGED <<activity, factors, emission, calls, doubled>>

(* The engine on the row alone.                                             *)
Reproduces(row) == ComputeEmission(row.value, row.unit, row.factor) = row.result

BeginApprove(c, k) ==
    /\ Called
    /\ tx[c] = Idle
    /\ ~calc[k].approved /\ Successors(k) = {}
    /\ tx' = [tx EXCEPT ![c] = [op |-> "approve", calc |-> k]]
    /\ UNCHANGED <<stored, history>>
Approve(c) ==
    /\ tx[c].op = "approve"
    /\ calc' = [calc EXCEPT ![tx[c].calc].approved = TRUE]
    /\ tx' = [tx EXCEPT ![c] = Idle]
    /\ UNCHANGED <<activity, factors, datapoint, emission, calls, history>>

-----------------------------------------------------------------------------
(* The rollup reads the current calculations, deletes the rows it sees and  *)
(* writes new ones.  Rows without a category escape the unique key: NULLs   *)
(* are distinct.                                                            *)
RecomputeEmissions(c) ==
    /\ Called
    /\ tx[c] = Idle
    /\ tx' = [tx EXCEPT ![c] = [op |-> "rollup", stamp |-> calls', ids |-> Current,
                                overlap |-> FALSE, gone |-> {}]]
    /\ UNCHANGED <<stored, history>>
DeleteRows(c) ==
    /\ tx[c].op = "rollup"
    /\ tx' = [tx EXCEPT ![c].op = "replace", ![c].gone = emission]
    /\ UNCHANGED <<stored, calls, history>>
Rows(c) == {[scope |-> t.scope, category |-> t.category, value |-> t.value,
             sources |-> t.sources, stamp |-> tx[c].stamp]
              : t \in AggregateEmissions(calc, tx[c].ids)}
KeyIsFree(rows, new) ==
    \A r \in rows, n \in new : n.category # None => GroupOf(r) # GroupOf(n)
ReplaceRows(c) == (emission \ tx[c].gone) \cup Rows(c)
CompleteRollup(c) ==
    /\ tx[c].op = "replace"
    /\ KeyIsFree(emission \ tx[c].gone, Rows(c))
    /\ emission' = ReplaceRows(c)
    /\ tx' = [d \in Client |-> CASE d = c -> Idle
                                 [] tx[d].op = "replace" /\ d # c -> [tx[d] EXCEPT !.overlap = TRUE]
                                 [] OTHER -> tx[d]]
    /\ doubled' = tx[c].overlap
    /\ UNCHANGED <<activity, factors, calc, datapoint, calls, raced, forked>>

(* A check that fails, a taken key, incompatible units, a lost connection.  *)
Abort(c) ==
    /\ tx[c] # Idle
    /\ tx' = [tx EXCEPT ![c] = Idle]
    /\ UNCHANGED <<stored, calls, history>>

-----------------------------------------------------------------------------
(* Requests about activity data and about the emission rows.                *)
ActivityNext ==
    \E a \in Activity :
       \/ \E v \in Value, u \in Unit, cat \in Category \cup {None} :
            CreateActivity(a, v, u, cat) \/ UpdateActivity(a, v, u, cat)
       \/ \E e \in Evidence : LinkEvidence(a, e) \/ UnlinkEvidence(a, e)
       \/ \E c \in Client : BeginDelete(c, a)
RollupNext(c) == RecomputeEmissions(c) \/ DeleteRows(c) \/ CompleteRollup(c)
Next ==
    \/ ActivityNext
    \/ \E f \in Factor : CreateFactor(f)
    \/ \E c \in Client :
         \/ \E a \in Activity, f \in factors \cup {None} : RunCalculation(c, a, f)
         \/ \E k \in Calcs : RecomputeCalculation(c, k) \/ BeginApprove(c, k)
         \/ \E f \in factors : CompleteRun(c, f)
         \/ SoftDelete(c)
         \/ Approve(c)
         \/ RollupNext(c)
         \/ Abort(c)

Spec == Init /\ [][Next]_vars

-----------------------------------------------------------------------------
(* "a 2027 factor change never alters a 2026 result" (docs/data-model.md:   *)
(* 283): whatever is edited later, a calculation reproduces from its row,   *)
(* a superseded one precedes its successor, and no activity with            *)
(* calculations is deleted, but in a race with one.                         *)
CalculationsStand ==
    /\ \A k \in Calcs : Reproduces(calc[k]) /\ calc[k].supersedes < k
    /\ \A a \in Activity \ raced :
         activity[a].status = "deleted" => \A k \in Calcs : calc[k].activity # a

(* Every datapoint cites a calculation nothing supersedes, whatever runs    *)
(* and recomputations overlap; and unless a superseded calculation was      *)
(* recomputed, one chain has one current end.                               *)
DatapointsFollow ==
    /\ \A i \in DOMAIN datapoint : datapoint[i].calc \in Current
    /\ \A k \in Calcs \ forked : Cardinality(Successors(k)) <= 1

(* An emission row is the sum of its sources to the nearest fourth decimal, *)
(* there is one row of a scope and category, and no calculation is in two   *)
(* rows, unless two rollups of uncategorised emissions overlapped.          *)
IsNearest(value, exact) ==
    /\ value % AggUnit = 0
    /\ 2 * (value - exact) \in 1 - AggUnit .. AggUnit
RowsAddUp ==
    \A r \in emission :
       /\ r.sources # {} /\ IsNearest(r.value, ResultOf(calc, r.sources))
       /\ \A k \in r.sources : GroupOf(calc[k]) = GroupOf(r)
       /\ \A o \in emission \ {r} :
            /\ r.category # None => GroupOf(o) # GroupOf(r)
            /\ doubled \/ (GroupOf(o) # GroupOf(r) /\ o.sources \cap r.sources = {})

(* When a rollup commits, the rows are those of the calculations it read,   *)
(* each in one row, unless another rollup overlapped; and the summary of    *)
(* these calculations is no further from the sum of a scope's rows than     *)
(* rounding each of them takes it.                                          *)
RowsOf(rows, s) == {r \in rows : r.scope = s}
RollupIsInventory ==
    [][\A c \in Client :
         tx[c].op = "replace" /\ emission' # emission /\ tx'[c] = Idle /\ ~tx[c].overlap =>
           LET figure == SummariseInventory(calc, tx[c].ids)
           IN  /\ UNION {r.sources : r \in emission'} = tx[c].ids
               /\ \A s \in Scopes :
                    LET rows == RowsOf(emission', s)
                        apart == MapThenSumSet(LAMBDA r : r.value, rows) - figure[s]
                        bound == AggUnit * (Cardinality(rows) + 1)
                    IN  2 * apart \in -bound .. bound]_vars

(* "produces a calculated datapoint" (packages/db/test/integration/         *)
(* carbon-flow.test.ts:128): one, with the result as its value.             *)
OneDatapointPerCalculation ==
    \A k \in Current :
       \E i \in DOMAIN datapoint :
         /\ {j \in DOMAIN datapoint : datapoint[j].calc = k} = {i}
         /\ datapoint[i].value = calc[k].result
=============================================================================

---------------------------- MODULE CarbonRules ----------------------------
(***************************************************************************)
(* The pure rules of the carbon engine (packages/domain/src/carbon): units *)
(* and conversion, the calculation of emissions, the selection of an       *)
(* emission factor, and the roll-up into an inventory.  Quantities are     *)
(* integers; the unit of a result is the last of the six decimals the code *)
(* rounds a tonnage to.  A unit is [code, dimension, toBase]; a factor is  *)
(* [id, org, value, per, tonne, scope, category, geography, methodology,   *)
(* version, from, to]: `per' its denominator unit, `tonne' how many of its *)
(* numerator unit make one unit of result, `from' and `to' days.           *)
(***************************************************************************)
EXTENDS Integers, FiniteSets, FiniteSetsExt

CONSTANT None

(* ROUND_HALF_UP, of n / d with 0 <= n and 0 < d.                           *)
RoundHalfUp(n, d) == (2 * n + d) \div (2 * d)

(* Conversion within a dimension; one currency is never another.            *)
Convertible(from, to) ==
    /\ from.dimension = to.dimension
    /\ from.dimension = "currency" => from.code = to.code

(* Only the result is rounded, after both conversions.                      *)
ComputeEmission(value, unit, f) ==
    IF Convertible(unit, f.per)
    THEN RoundHalfUp(value * unit.toBase * f.value, f.per.toBase * f.tonne)
    ELSE None

-----------------------------------------------------------------------------
(* Selection.  The scores are the code's, times 100000: the milliseconds of *)
(* `from' divided by 1e10 are 864 per day.  Which of two best ones wins is  *)
(* the order of the rows, which the query does not ask for.                 *)
Agrees(own, wanted) == own = None \/ wanted = None \/ own = wanted
Eligible(f, criteria) ==
    /\ f.scope = criteria.scope
    /\ f.per.dimension = criteria.unit.dimension
    /\ f.from <= criteria.asOf
    /\ f.to = None \/ criteria.asOf <= f.to
    /\ Agrees(f.category, criteria.category)
    /\ Agrees(f.geography, criteria.geography)
Weight(holds, w) == IF holds THEN w ELSE 0
Score(f, criteria) ==
      Weight(f.org, 100000000)
    + Weight(criteria.methodology # None /\ f.methodology = criteria.methodology, 30000000)
    + Weight(criteria.geography # None /\ f.geography = criteria.geography, 20000000)
    + Weight(criteria.category # None /\ f.category = criteria.category, 10000000)
    + 864 * f.from + 100000 * f.version
SelectEmissionFactor(candidates, criteria) ==
    LET eligible == {f \in candidates : Eligible(f, criteria)}
    IN  {f \in eligible : \A other \in eligible : Score(other, criteria) <= Score(f, criteria)}

-----------------------------------------------------------------------------
(* Roll-up.  `ids' is a set of ids and calc[id] has a scope, a category    *)
(* and a result; a group is a scope with a category (or None).  Sums are    *)
(* exact; each row and each figure of the summary is then rounded on its    *)
(* own, to four decimals, so the figures need not add up to each other.     *)
AggUnit == 100
AtFourDecimals(v) == AggUnit * RoundHalfUp(v, AggUnit)

ResultOf(calc, ids) == MapThenSumSet(LAMBDA k : calc[k].result, ids)
GroupOf(row) == [scope |-> row.scope, category |-> row.category]
AggregateEmissions(calc, ids) ==
    {[scope |-> g.scope, category |-> g.category,
      sources |-> {k \in ids : GroupOf(calc[k]) = g},
      value |-> AtFourDecimals(ResultOf(calc, {k \in ids : GroupOf(calc[k]) = g}))]
       : g \in {GroupOf(calc[k]) : k \in ids}}

(* Market-based scope 2 stands in for location-based where there is any.    *)
Scopes == {"scope_1", "scope_2_location", "scope_2_market", "scope_3"}
SummariseInventory(calc, ids) ==
    LET exact == [s \in Scopes |-> ResultOf(calc, {k \in ids : calc[k].scope = s})]
        reported == IF exact["scope_2_market"] > 0 THEN exact["scope_2_market"]
                    ELSE exact["scope_2_location"]
        total == exact["scope_1"] + reported + exact["scope_3"]
    IN  [x \in Scopes \cup {"scope_2", "total"} |->
           AtFourDecimals(CASE x = "scope_2" -> reported
                            [] x = "total" -> total
                            [] OTHER -> exact[x])]
=============================================================================

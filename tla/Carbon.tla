------------------------------- MODULE Carbon -------------------------------
(***************************************************************************)
(* Inventory, CarbonTwin, Footprints, Benchmark and Procurement in one     *)
(* run.  The graph and the footprints read the datapoints of calculations  *)
(* as `emitted' and `intensity', the benchmark the latest graph and        *)
(* footprints as `data', which their modules let change at any time.  A    *)
(* behaviour exercises one of them, which `focus' names, and leaves the    *)
(* others where they start.                                                *)
(***************************************************************************)
EXTENDS Integers, FiniteSets, TLC

CONSTANTS a1, a2, e1, s1, s2, s3, s4, p1, p2, p3, f1, o1, o2, o3, c1, c2, None, Root

VARIABLES focus, calls
VARIABLES activity, factors, calc, datapoint, emission, tx, raced, forked, doubled
VARIABLES active, emitted, own, links, snapshots, scenarios
VARIABLES product, bom, intensity, pcf
VARIABLES org, week, bucket
VARIABLES profile, calculated, comparison, offered, saved
VARIABLES job

Kg == [code |-> "kg", dimension |-> "mass", toBase |-> 1]
FactorRow(id, isOwn, value, from, to) ==
    [id |-> id, org |-> isOwn, value |-> value, per |-> Kg, tonne |-> 1000, scope |-> "scope_1",
     category |-> None, geography |-> None, methodology |-> None, version |-> 1,
     from |-> from, to |-> to]

(* An activity without a category and one with, or still to be entered; a   *)
(* global factor and one of the organization's own.  One result of 50 is    *)
(* rounded to 100, two to 100 as well.                                      *)
Global == FactorRow(1, FALSE, 49500, 0, None)
Entered(category) ==
    [status |-> "live", value |-> 1, unit |-> Kg, category |-> category, evidence |-> {}]
I == INSTANCE Inventory
       WITH Activity <- {a1, a2}, ScopeOf <- a1 :> "scope_1" @@ a2 :> "scope_1", Unit <- {Kg},
            Start <- {a1 :> first @@ a2 :> Entered(None)
                        : first \in {[status |-> "none"], Entered("cat_1")}},
            Category <- {"cat_1"},
            Factor <- {Global, FactorRow(2, TRUE, 33300, 0, 1)},
            Value <- {1, 3}, Evidence <- {e1}, Client <- {c1, c2}, MaxCalls <- 4

(* Four suppliers, with a chain of links longer than the depth limit, and   *)
(* links that close a cycle, shorten the chain or double a link.            *)
Supplies(from, to, label) == [from |-> from, to |-> to, label |-> label]
T == INSTANCE CarbonTwin
       WITH Supplier <- {s1, s2, s3, s4}, MaxGraphDepth <- 1,
            Name <- s1 :> "n1" @@ s2 :> "n2" @@ s3 :> "n3" @@ s4 :> "n4",
            Declared <- {{Supplies(s1, s2, "n2"), Supplies(s2, s3, "n3"), Supplies(s3, s4, "n4")}},
            Link <- {Supplies(s1, s3, None), Supplies(s4, s1, None), Supplies(s2, s3, "n4"),
                     Supplies(s3, None, "n4")},
            Emission <- {s1 :> 1 @@ s2 :> 8 @@ s3 :> 0 @@ s4 :> 4,
                         s1 :> 3 @@ s2 :> 3 @@ s3 :> 3 @@ s4 :> 1},
            Own <- {[scope1 |-> 2, market |-> 0, location |-> 5]},
            Intervention <- {[kind |-> "decarbonize", node |-> s1, pct |-> 50],
                             [kind |-> "substitute", node |-> s2, value |-> 7],
                             [kind |-> "drop_node", node |-> s2],
                             [kind |-> "reroute", node |-> Root, to |-> s1, new |-> s2]},
            Computer <- {c1, c2}, MaxCalls <- 3

(* Three products, with a hierarchy of three levels or of two.              *)
BomLine(source, of, qty, mg, tier) ==
    [source |-> source, of |-> of, qty |-> qty, unit |-> Kg, mg |-> mg, tier |-> tier]
FactorLine == BomLine("factor", f1, 2, 0, "secondary")
SubLine(p, qty) == BomLine("sub_product", p, qty, 0, "secondary")
Part == p1 :> <<FactorLine, BomLine("supplier", None, 1, 0, "secondary")>>
F == INSTANCE Footprints
       WITH Product <- {p1, p2, p3}, Line <- {SubLine(p2, 3)},
            Start <- {Part @@ p2 :> <<SubLine(p1, 2)>> @@ p3 :> <<SubLine(p2, 1)>>,
                      Part @@ p3 :> <<SubLine(p1, 1), BomLine("manual", None, 1, 500, "primary")>>},
            Factor <- f1 :> FactorRow(1, FALSE, 1500, 0, None), FactorTier <- f1 :> "primary",
            Intensity <- {None, 30}, Allocation <- {50}, Computer <- {c1, c2}, MaxCalls <- 4

(* Three organizations of which two make a publishable bucket.              *)
Ratio(v) == [m \in {"evidence_backed_pct"} |-> v]
B == INSTANCE Benchmark
       WITH Org <- {o1, o2, o3}, Sector <- {"energy"}, Metric <- {"evidence_backed_pct"},
            Profile <- {Ratio(10), Ratio(40), Ratio(None)},
            KAnon <- 2, Refresh <- {c1, c2}, MaxWeek <- 2, MaxCalls <- 3

(* Two suppliers that spend-based estimates of one value are known of and   *)
(* a third; enough proposals to be more than the cap.                       *)
Known(isActive, spend, tier, passport, trust) ==
    [active |-> isActive, spend |-> spend, tier |-> tier, passport |-> passport, trust |-> trust]
Estimate(s, value, factor, method) ==
    [supplier |-> s, value |-> value, unit |-> Kg, methodology |-> method,
     factor |-> FactorRow(1, FALSE, factor, 0, None)]
Estimates == <<Estimate(s1, 100, 1500, "spend_based"), Estimate(s2, 100, 630, "spend_based"),
               Estimate(s3, 100, 1500, "spend_based")>>
P == INSTANCE Procurement
       WITH Supplier <- <<s1, s2, s3>>,
            Profile <- {Known(TRUE, 2, 1, FALSE, 40), Known(TRUE, 6, 1, FALSE, None),
                        Known(FALSE, None, None, TRUE, 70)},
            Line <- {Estimate(s1, 200, 25, "supplier_specific"), Estimate(s2, 100, 1000, "average")},
            Start <- {<<>>, Estimates},
            Change <- {[supplier |-> s1, pct |-> 50, factor |-> None, drop |-> FALSE],
                       [supplier |-> s2, pct |-> 100, factor |-> 3700, drop |-> FALSE],
                       [supplier |-> s3, pct |-> 100, factor |-> None, drop |-> TRUE]},
            Reader <- {c1, c2}, Fine <- 4, Scale <- 6, MaxPct <- 30000, MaxCalls <- 3

ASSUME CarbonAssumption ==
    /\ I!InventoryAssumption /\ T!CarbonTwinAssumption /\ P!ProcurementAssumption
    /\ F!FootprintsAssumption /\ B!BenchmarkAssumption

inventoryVars == <<activity, factors, calc, datapoint, emission, tx, raced, forked, doubled>>
twinVars == <<active, emitted, own, links, snapshots, scenarios>>
footprintVars == <<product, bom, intensity, pcf>>
benchmarkVars == <<org, week, bucket>>
procurementVars == <<profile, calculated, comparison, offered, saved>>

Init ==
    /\ I!Init /\ T!Init /\ F!Init /\ B!Init /\ P!Init
    /\ focus \in {"inventory", "twin", "footprints", "benchmark", "procurement"}
    /\ focus # "inventory" => factors = {Global} /\ activity[a1].status = "none"
    /\ focus # "twin" => emitted[s1] = 1
    /\ intensity = None
    /\ focus # "footprints" => product[p2].status = "none"
    /\ focus # "procurement" => calculated = <<>>
    /\ profile[s1].spend = 2 /\ profile[s2] = profile[s1] /\ profile[s3].spend = 6
    /\ org[o1].data = Ratio(10) /\ org[o2].data = Ratio(40) /\ org[o3].data = Ratio(None)
Next ==
    /\ \/ /\ focus = "inventory" /\ I!Next
          /\ UNCHANGED <<twinVars, footprintVars, benchmarkVars, procurementVars, job>>
       \/ /\ focus = "twin" /\ T!Next
          /\ UNCHANGED <<inventoryVars, footprintVars, benchmarkVars, procurementVars>>
       \/ /\ focus = "footprints" /\ F!Next
          /\ UNCHANGED <<inventoryVars, twinVars, benchmarkVars, procurementVars>>
       \/ /\ focus = "benchmark" /\ B!Next
          /\ UNCHANGED <<inventoryVars, twinVars, footprintVars, procurementVars>>
       \/ /\ focus = "procurement" /\ P!Next
          /\ UNCHANGED <<inventoryVars, twinVars, footprintVars, benchmarkVars>>
    /\ UNCHANGED focus

Spec == Init /\ [][Next]_<<focus, calls, inventoryVars, twinVars, footprintVars, benchmarkVars,
                           procurementVars, job>>

(* Requests are never compared with an order.                               *)
Symmetry == Permutations({c1, c2})

-----------------------------------------------------------------------------
(* Calculations, the datapoints and the emission rows made of them agree    *)
(* whatever overlaps; graphs and footprints roll up all that is below, each *)
(* once; scenarios start from their snapshot or lines; benchmarks are       *)
(* anonymous and comparisons fair.                                          *)
CarbonAddsUp ==
    CASE focus = "inventory" -> I!CalculationsStand /\ I!DatapointsFollow /\ I!RowsAddUp
      [] focus = "twin" ->
           T!LinksAreKeyed /\ T!RollUpIsComplete /\ T!TraceIsShortest /\ T!HotspotsAreTheTop
           /\ T!ScenarioIsMeasured
      [] focus = "footprints" -> F!FootprintRollsUp
      [] focus = "benchmark" -> B!BenchmarkIsAnonymous /\ B!ComparisonIsFair
      [] focus = "procurement" -> P!ComparisonIsFair /\ P!ScenarioAddsUp

(* Graph snapshots and the footprints of each product implement the         *)
(* abstract chain of versions; and a rollup leaves the inventory it read    *)
(* (Inventory).                                                             *)
Chain == INSTANCE VersionChain
           WITH Subject <- {p1, p2, p3, Root},
                chain <- [s \in {p1, p2, p3, Root} |->
                            IF s = Root THEN T!SnapshotChain ELSE F!RecordChain(s)]
CarbonSteps == Chain!Spec /\ I!RollupIsInventory

(* A calculation has one datapoint, with its result (Inventory).            *)
OneDatapointPerCalculation == I!OneDatapointPerCalculation
=============================================================================

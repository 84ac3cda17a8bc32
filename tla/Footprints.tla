----------------------------- MODULE Footprints -----------------------------
(***************************************************************************)
(* Products, their bills of materials and their carbon footprints          *)
(* (packages/db/src/pcf.ts, packages/domain/src/network/pcf.ts).  A        *)
(* computation is a READ COMMITTED transaction that reads the product, the *)
(* sub-products line by line, and the last version.  Masses are integers,  *)
(* in the milligrams the code rounds to.                                   *)
(* X_Fault is the definition X with a plausible bug (see README.md).       *)
(***************************************************************************)
EXTENDS CarbonRules, Sequences, SequencesExt, TLC

CONSTANTS
    Product,
    Line,         \* BOM lines: source, of (what it refers to), qty, unit, mg, tier
    Start,        \* bills of materials that may be there at the start
    Factor,       \* [id -> emission factor]
    FactorTier,   \* [id -> tier of the factor's methodology]
    Intensity,    \* what a supplier's intensity may be, mg per unit, or None
    Allocation,   \* shares of a process, per cent
    Computer,
    MaxCalls      \* bound: changes and requests

FootprintsAssumption ==
    /\ None \notin Product
    /\ Allocation \subseteq 0 .. 100

VARIABLES
    product,      \* product rows: "none", "active" or "archived", with their allocation
    bom,          \* [Product -> Seq(Line)], by sort order
    intensity,    \* the one supplier's
    pcf,          \* [Product -> Seq of pcf_record rows], in the order of creation
    job,
    calls

footprintVars == <<product, bom, intensity, pcf, job, calls>>

Idle == [at |-> "idle"]
Init ==
    /\ \E start \in Start :
         /\ product = [p \in Product |-> [status |-> IF p \in DOMAIN start THEN "active" ELSE "none",
                                         allocation |-> 100]]
         /\ bom = [p \in Product |-> IF p \in DOMAIN start THEN start[p] ELSE <<>>]
    /\ intensity \in Intensity
    /\ pcf = [p \in Product |-> <<>>]
    /\ job = [c \in Computer |-> Idle]
    /\ calls = 0
Called == calls < MaxCalls /\ calls' = calls + 1
Exists(p) == product[p].status # "none"

CreateProduct(p, share) ==
    /\ Called
    /\ ~Exists(p)
    /\ product' = [product EXCEPT ![p] = [status |-> "active", allocation |-> share]]
    /\ UNCHANGED <<bom, intensity, pcf, job>>
UpdateProduct(p, share, status) ==
    /\ Called
    /\ Exists(p)
    /\ product' = [product EXCEPT ![p] = [status |-> status, allocation |-> share]]
    /\ UNCHANGED <<bom, intensity, pcf, job>>
(* An archived product keeps its lines and records, and may be computed.    *)
ArchiveProduct(p) ==
    /\ Called
    /\ Exists(p)
    /\ product' = [product EXCEPT ![p].status = "archived"]
    /\ UNCHANGED <<bom, intensity, pcf, job>>
IntensityChanges(i) ==
    /\ Called
    /\ intensity' = i
    /\ UNCHANGED <<product, bom, pcf, job>>

(* Only a direct reference to itself is refused.                            *)
ValidateLineSource(p, line) ==
    line.source = "sub_product" => line.of # p /\ Exists(line.of)
AddBomLine(p, line) ==
    /\ Called
    /\ Exists(p)
    /\ ValidateLineSource(p, line)
    /\ bom' = [bom EXCEPT ![p] = Append(@, line)]
    /\ UNCHANGED <<product, intensity, pcf, job>>
UpdateBomLine(p, i, line) ==
    /\ Called
    /\ i \in DOMAIN bom[p]
    /\ ValidateLineSource(p, line)
    /\ bom' = [bom EXCEPT ![p][i] = line]
    /\ UNCHANGED <<product, intensity, pcf, job>>
DeleteBomLine(p, i) ==
    /\ Called
    /\ i \in DOMAIN bom[p]
    /\ bom' = [bom EXCEPT ![p] = RemoveAt(@, i)]
    /\ UNCHANGED <<product, intensity, pcf, job>>

-----------------------------------------------------------------------------
(* Resolution: milligrams per unit of a line, or None.  The factor is       *)
(* applied to one unit and rounded as a calculation is, to a gram.          *)
NoRecord == [version |-> 0, total |-> None, rating |-> None]
LatestPcf(p) == IF pcf[p] = <<>> THEN NoRecord ELSE Last(pcf[p])
Resolved(line, mg, tier, version) ==
    [kg |-> IF mg = None THEN 0 ELSE line.qty * mg,
     tier |-> IF mg = None THEN "estimated" ELSE tier, version |-> version]
FactorPerUnit(line) ==
    LET grams == ComputeEmission(1, line.unit, Factor[line.of])
    IN  IF grams = None THEN None ELSE 1000 * grams
ResolveLine(line, seen) ==
    CASE line.source = "factor" ->
           Resolved(line, FactorPerUnit(line),
                    IF line.tier # "secondary" THEN line.tier ELSE FactorTier[line.of], 0)
      [] line.source = "supplier" -> Resolved(line, seen, "estimated", 0)
      [] line.source = "sub_product" ->
           LET sub == LatestPcf(line.of)
           IN  Resolved(line, sub.total,
                        IF sub.rating \in {"A", "B"} THEN "primary" ELSE "secondary", sub.version)
      [] line.source = "manual" -> Resolved(line, line.mg, line.tier, 0)

Mass(lines, I) == MapThenSumSet(LAMBDA i : lines[i].kg, I)
Rating(primary, all) ==
    LET perMille == IF all > 0 THEN RoundHalfUp(1000 * primary, all) ELSE 0
    IN  CASE perMille >= 800 -> "A"
          [] perMille \in 600 .. 799 -> "B"
          [] perMille \in 400 .. 599 -> "C"
          [] perMille \in 200 .. 399 -> "D"
          [] perMille < 200 -> "E"
ComputeProductFootprint(lines, share) ==
    LET subtotal == Mass(lines, DOMAIN lines)
        primary == {i \in DOMAIN lines : lines[i].tier = "primary"}
    IN  [total |-> RoundHalfUp(subtotal * share, 100),
         rating |-> Rating(Mass(lines, primary), subtotal)]

-----------------------------------------------------------------------------
ComputePcf(c, p) ==
    /\ Called
    /\ job[c] = Idle
    /\ Exists(p)
    /\ job' = [job EXCEPT ![c] = [at |-> "lines", of |-> p, bom |-> bom[p],
                                  share |-> product[p].allocation, intensity |-> intensity,
                                  resolved |-> <<>>]]
    /\ UNCHANGED <<product, bom, intensity, pcf>>
ResolveNext(c) ==
    LET j == job[c]
    IN  /\ j.at = "lines"
        /\ Len(j.resolved) < Len(j.bom)
        /\ job' = [job EXCEPT ![c].resolved =
                     Append(@, ResolveLine(j.bom[Len(@) + 1], j.intensity))]
        /\ UNCHANGED <<product, bom, intensity, pcf, calls>>
ReadPrevious(c) ==
    LET j == job[c]
    IN  /\ j.at = "lines"
        /\ Len(j.resolved) = Len(j.bom)
        /\ job' = [job EXCEPT ![c] = [at |-> "create", of |-> j.of, row |->
                     ComputeProductFootprint(j.resolved, j.share) @@
                     [version |-> LatestPcf(j.of).version + 1,
                      supersedes |-> LatestPcf(j.of).version,
                      bom |-> j.bom, share |-> j.share, intensity |-> j.intensity,
                      resolved |-> j.resolved]]]
        /\ UNCHANGED <<product, bom, intensity, pcf, calls>>
VersionIsFree_Always(p, v) == TRUE
VersionIsFree(p, v) == v \notin {pcf[p][i].version : i \in DOMAIN pcf[p]}
CreateRecord(c) ==
    /\ job[c].at = "create"
    /\ VersionIsFree(job[c].of, job[c].row.version)
    /\ pcf' = [pcf EXCEPT ![job[c].of] = Append(@, job[c].row)]
    /\ job' = [job EXCEPT ![c] = Idle]
    /\ UNCHANGED <<product, bom, intensity, calls>>
(* The version was taken, or the request failed.                            *)
AbortPcf(c) ==
    /\ job[c] # Idle
    /\ job' = [job EXCEPT ![c] = Idle]
    /\ UNCHANGED <<product, bom, intensity, pcf, calls>>

Next ==
    \/ \E p \in Product :
         \/ \E share \in Allocation :
              CreateProduct(p, share) \/ \E s \in {"active", "archived"} : UpdateProduct(p, share, s)
         \/ ArchiveProduct(p)
         \/ \E line \in Line :
              AddBomLine(p, line) \/ \E i \in DOMAIN bom[p] : UpdateBomLine(p, i, line)
         \/ \E i \in DOMAIN bom[p] : DeleteBomLine(p, i)
    \/ \E i \in Intensity : IntensityChanges(i)
    \/ \E c \in Computer :
         \/ \E p \in Product : ComputePcf(c, p)
         \/ ResolveNext(c)
         \/ ReadPrevious(c)
         \/ CreateRecord(c)
         \/ AbortPcf(c)

Spec == Init /\ [][Next]_footprintVars

-----------------------------------------------------------------------------
Subs(lines) == {lines[i].of : i \in {k \in DOMAIN lines : lines[k].source = "sub_product"}}
Below(p) ==
    LET after[n \in 0 .. Cardinality(Product)] ==
          IF n = 0 THEN Subs(bom[p]) ELSE after[n - 1] \cup UNION {Subs(bom[q]) : q \in after[n - 1]}
    IN  after[Cardinality(Product)]
(* The latest record was computed from the product as it is, and from the   *)
(* latest record of each sub-product.                                       *)
UpToDate(p) ==
    LET r == LatestPcf(p)
    IN  /\ r.version > 0
        /\ r.bom = bom[p] /\ r.share = product[p].allocation /\ r.intensity = intensity
        /\ \A i \in DOMAIN bom[p] :
             bom[p][i].source = "sub_product" =>
               r.resolved[i].version > 0 /\ r.resolved[i].version = LatestPcf(bom[p][i].of).version
(* The footprint of a product, rolled up from the lines below it.           *)
RollUp[p \in Product, depth \in 0 .. Cardinality(Product)] ==
    LET Of(line) ==
          IF line.source = "sub_product"
          THEN IF depth = 0 THEN 0 ELSE line.qty * RollUp[line.of, depth - 1]
          ELSE ResolveLine(line, intensity).kg
    IN  RoundHalfUp(MapThenSumSet(LAMBDA i : Of(bom[p][i]), DOMAIN bom[p])
                      * product[p].allocation, 100)

(* "a deeper cycle would surface as stale sub-PCF values, not a crash"      *)
(* (docs/decisions/ADR-021-product-carbon-footprints.md:110): where a       *)
(* product and all below it are up to date there is no cycle, and its       *)
(* footprint is the whole hierarchy rolled up, whatever computations and    *)
(* edits overlapped.                                                        *)
FootprintRollsUp ==
    \A p \in Product :
       (\A q \in {p} \cup Below(p) : UpToDate(q)) =>
          /\ p \notin Below(p)
          /\ LatestPcf(p).total = RollUp[p, Cardinality(Product)]

(* The records of a product as a chain of versions.                         *)
RecordChain(p) ==
    [i \in DOMAIN pcf[p] |-> [version |-> pcf[p][i].version, supersedes |-> pcf[p][i].supersedes]]
=============================================================================

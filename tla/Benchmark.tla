----------------------------- MODULE Benchmark ------------------------------
(***************************************************************************)
(* Cross-tenant benchmarking (packages/db/src/benchmark.ts, packages/      *)
(* domain/src/network/benchmark.ts).  A refresh lists the organizations    *)
(* that opted in, reads each in a transaction of its own, and writes one   *)
(* bucket after the other; the daily job and an administrator may run one  *)
(* at the same time.                                                       *)
(***************************************************************************)
EXTENDS Integers, FiniteSets, FiniteSetsExt, Sequences, SequencesExt

CONSTANTS
    Org, Sector, Metric,
    Profile,     \* what an organization's data may say: [Metric -> 0 .. 100 \cup {None}]
    KAnon,
    Refresh,     \* runs of the job
    MaxWeek,     \* bound: periods
    MaxCalls,    \* bound: changes and refreshes
    None

BenchmarkAssumption ==
    /\ KAnon \in Nat \ {0} /\ None \notin Sector
    /\ Profile \subseteq [Metric -> 0 .. 100 \cup {None}]

VARIABLES
    org,      \* organization rows: sector, optIn; and `data', the ratios they yield
    week,     \* the current period
    bucket,   \* benchmark_bucket rows, by sector, metric and period
    job,
    calls

benchmarkVars == <<org, week, bucket, job, calls>>

Idle == [at |-> "idle"]
NoBucket == [contributors |-> 0]
Init ==
    /\ org \in [Org -> [sector : Sector, optIn : {TRUE}, data : Profile]]
    /\ week = 1
    /\ bucket = [key \in Sector \X Metric \X (1 .. MaxWeek) |-> NoBucket]
    /\ job = [j \in Refresh |-> Idle]
    /\ calls = 0
Called == calls < MaxCalls /\ calls' = calls + 1

SetBenchmarkSettings(o, sector, optIn) ==
    /\ Called
    /\ optIn => sector # None
    /\ org' = [org EXCEPT ![o].sector = sector, ![o].optIn = optIn]
    /\ UNCHANGED <<week, bucket, job>>
(* A new graph snapshot or footprint.                                       *)
DataChanges(o, profile) ==
    /\ Called
    /\ org' = [org EXCEPT ![o].data = profile]
    /\ UNCHANGED <<week, bucket, job>>
WeekPasses ==
    /\ week < MaxWeek
    /\ week' = week + 1
    /\ UNCHANGED <<org, bucket, job, calls>>

-----------------------------------------------------------------------------
(* The value at the nearest rank, of an ascending sequence.                 *)
Percentile(sorted, p) == sorted[Max({1, (p * Len(sorted) + 99) \div 100})]
Group(contributions, sector, metric) ==
    {c \in contributions : c.sector = sector /\ c.data[metric] # None}
Bucket(group, metric, listed) ==
    LET sorted == SortSeq([i \in 1 .. Cardinality(group) |-> SetToSeq(group)[i].data[metric]], <)
        p == IF Cardinality(group) < KAnon THEN <<>>
             ELSE [q \in 1 .. 5 |-> Percentile(sorted, 25 * (q - 1))]
    IN  [contributors |-> Cardinality(group), suppressed |-> p = <<>>, quartile |-> p,
         metric |-> metric, group |-> group, listed |-> listed]

RefreshBenchmarkBuckets(j) ==
    LET listed == {o \in Org : org[o].optIn /\ org[o].sector # None}
    IN  /\ Called
        /\ job[j] = Idle
        /\ job' = [job EXCEPT ![j] = [at |-> "read", period |-> week, listed |-> listed,
                                      todo |-> listed, got |-> {}]]
        /\ UNCHANGED <<org, week, bucket>>
(* An organization has nothing to contribute without a sector or a value,   *)
(* or when its transaction fails.                                           *)
Contribution(o) ==
    IF org[o].sector = None \/ \A m \in Metric : org[o].data[m] = None THEN {}
    ELSE {[org |-> o, sector |-> org[o].sector, data |-> org[o].data]}
OrgBenchmarkContribution(j, o, read) ==
    /\ job[j].at = "read" /\ o \in job[j].todo
    /\ read \in {{}, Contribution(o)}
    /\ job' = [job EXCEPT ![j].todo = @ \ {o}, ![j].got = @ \cup read]
    /\ UNCHANGED <<org, week, bucket, calls>>
Groups(got) == {k \in Sector \X Metric : Group(got, k[1], k[2]) # {}}
ComputeBuckets(j) ==
    /\ job[j].at = "read" /\ job[j].todo = {}
    /\ job' = [job EXCEPT ![j] = [at |-> "write", period |-> job[j].period,
                                  listed |-> job[j].listed, todo |-> Groups(job[j].got),
                                  got |-> job[j].got]]
    /\ UNCHANGED <<org, week, bucket, calls>>
UpsertBucket(j, k) ==
    /\ job[j].at = "write" /\ k \in job[j].todo
    /\ bucket' = [bucket EXCEPT ![<<k[1], k[2], job[j].period>>] =
                    Bucket(Group(job[j].got, k[1], k[2]), k[2], job[j].listed)]
    /\ job' = [job EXCEPT ![j].todo = @ \ {k}]
    /\ UNCHANGED <<org, week, calls>>
(* The end, with all buckets written or not.                                *)
RefreshEnds(j) ==
    /\ job[j] # Idle
    /\ job' = [job EXCEPT ![j] = Idle]
    /\ UNCHANGED <<org, week, bucket, calls>>

Next ==
    \/ \E o \in Org :
         \/ \E s \in Sector \cup {None}, optIn \in BOOLEAN : SetBenchmarkSettings(o, s, optIn)
         \/ \E p \in Profile : DataChanges(o, p)
    \/ WeekPasses
    \/ \E j \in Refresh :
         \/ RefreshBenchmarkBuckets(j)
         \/ \E o \in Org : \E read \in {{}, Contribution(o)} : OrgBenchmarkContribution(j, o, read)
         \/ ComputeBuckets(j)
         \/ \E k \in Sector \X Metric : UpsertBucket(j, k)
         \/ RefreshEnds(j)

Spec == Init /\ [][Next]_benchmarkVars

-----------------------------------------------------------------------------
(* What an organization is shown: where its value stands in the bucket of   *)
(* its sector, of the period asked for or the newest.  `position' is its    *)
(* place between least and greatest, in hundredths of a percent.            *)
InLineBand == 3
NoComparison == [standing |-> "unknown", position |-> None]
CompareToBenchmark(value, b) ==
    LET least == b.quartile[1]
        median == b.quartile[3]
        width == b.quartile[5] - least
    IN  IF value = None \/ b.contributors = 0 THEN NoComparison
        ELSE IF b.suppressed THEN NoComparison
        ELSE [standing |-> IF value - median > InLineBand THEN "ahead"
                           ELSE IF value - median < -InLineBand THEN "behind" ELSE "in_line",
              position |-> IF width = 0 THEN 5000
                           ELSE Max({0, Min({10000, (20000 * (value - least) + width) \div (2 * width)})})]
(* `contributors' is that of some row with numbers: rows come in no order.  *)
BenchmarkComparison(sector, values, asked) ==
    LET kept == {w \in 1 .. MaxWeek : \E m \in Metric : bucket[<<sector, m, w>>].contributors > 0}
        period == IF asked # None THEN asked ELSE IF kept = {} THEN None ELSE Max(kept)
        row == [m \in Metric |-> IF period = None THEN NoBucket ELSE bucket[<<sector, m, period>>]]
        shown == {m \in Metric : row[m].contributors > 0 /\ ~row[m].suppressed}
    IN  IF sector = None THEN [eligible |-> FALSE, period |-> None, contributors |-> {}, metrics |-> <<>>]
        ELSE [eligible |-> TRUE, period |-> period,
              contributors |-> {row[m].contributors : m \in shown},
              metrics |-> [m \in Metric |-> CompareToBenchmark(values[m], row[m])]]

-----------------------------------------------------------------------------
Published == {bucket[k] : k \in {x \in DOMAIN bucket : bucket[x].contributors > 0}}

(* "Below the threshold nothing numeric is stored" (docs/decisions/ADR-023- *)
(* cross-tenant-benchmarking.md:41) and "Opting out removes it from the     *)
(* next refresh" (66): what is published are the quartiles of at least      *)
(* KAnon organizations, each once, that had opted in when the refresh that  *)
(* wrote them listed them; and nobody opts in without a sector.             *)
BenchmarkIsAnonymous ==
    /\ \A o \in Org : org[o].optIn => org[o].sector # None
    /\ \A b \in Published :
         LET contributors == {c.org : c \in b.group}
             At(q) == b.quartile[q + 1]
             AtMost(v) == Cardinality({c \in b.group : c.data[b.metric] <= v})
             AtLeast(v) == Cardinality({c \in b.group : c.data[b.metric] >= v})
         IN  /\ contributors \subseteq b.listed /\ Cardinality(contributors) = b.contributors
             /\ b.suppressed <=> b.contributors < KAnon
             /\ b.suppressed => b.quartile = <<>>
             /\ ~b.suppressed => \A q \in 0 .. 4 :
                  /\ 4 * AtMost(At(q)) >= q * b.contributors
                  /\ 4 * AtLeast(At(q)) >= (4 - q) * b.contributors

(* "unknown when the bucket is missing or suppressed" (ADR-023:73), whatever *)
(* was read before the buckets changed: a comparison reveals only what at   *)
(* least KAnon organizations made, of the newest period with anything; and  *)
(* it is fair: a greater value never stands or lies lower, and who is ahead *)
(* lies above the median.                                                   *)
Rank(c) == CASE c.standing = "behind" -> 1 [] c.standing = "in_line" -> 2 [] c.standing = "ahead" -> 3
ComparisonIsFair ==
    \A sector \in Sector, asked \in {None} \cup 1 .. MaxWeek, low, high \in Profile :
       LET Seen(values) == BenchmarkComparison(sector, values, asked)
           c == Seen(low)
       IN  /\ \A n \in c.contributors : n >= KAnon
           /\ asked = None /\ c.period = None => \A k \in DOMAIN bucket : k[1] = sector => bucket[k] = NoBucket
           /\ \A m \in Metric :
                LET lower == c.metrics[m]
                    higher == Seen(high).metrics[m]
                IN  /\ lower.standing # "unknown" => c.contributors # {}
                    /\ (lower.standing = "unknown") <=> (lower.position = None)
                    /\ lower.standing # "unknown" /\ higher.standing # "unknown" /\ low[m] <= high[m] =>
                         Rank(lower) <= Rank(higher) /\ lower.position <= higher.position
                    /\ lower.standing = "ahead" => lower.position > 0
                    /\ lower.standing = "behind" => lower.position < 10000
=============================================================================

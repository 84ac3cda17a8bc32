----------------------------- MODULE CarbonTwin -----------------------------
(***************************************************************************)
(* The supply-chain carbon graph of one organization and period: the pure  *)
(* traversal and its interventions (packages/domain/src/network: graph,    *)
(* scenario), then the requests over it (packages/db/src/network.ts):      *)
(* declared upstream links, versioned snapshots, scenarios over them.  A   *)
(* computation is a READ COMMITTED transaction: it reads suppliers and     *)
(* emissions, then the links, then the last version.                       *)
(***************************************************************************)
EXTENDS Integers, FiniteSets, FiniteSetsExt, Sequences, SequencesExt

CONSTANTS
    Root, MaxGraphDepth,
    Supplier,
    Name,          \* [Supplier -> STRING]
    Declared,      \* the links that may be there at the start
    Link,          \* the links that may be saved: from, to and label (or None)
    Emission,      \* a subset of [Supplier -> Nat]
    Own,           \* the organization's scope 1 and 2, [scope1, market, location]
    Intervention,
    Computer,      \* transactions that compute snapshots
    MaxCalls,      \* bound: changes and requests
    None

CarbonTwinAssumption ==
    /\ Emission \subseteq [Supplier -> Nat]
    /\ Root \notin Supplier /\ MaxGraphDepth \in Nat

-----------------------------------------------------------------------------
(* A graph is built from `direct', the emissions attributed to each node,   *)
(* and a sequence of edges [from, to]: the traversal takes them in that     *)
(* order.                                                                   *)
Clean(direct, edges) ==
    SelectSeq(edges, LAMBDA e : {e.from, e.to} \subseteq DOMAIN direct /\ e.from # e.to)
Children(edges, n) ==
    LET out == SelectSeq(edges, LAMBDA e : e.from = n)
    IN  [i \in DOMAIN out |-> out[i].to]

(* The unique descendants of a node: depth first, capped, guarded against   *)
(* cycles.  `capped' is the warning that the depth limit was reached.       *)
RECURSIVE Walk(_, _, _, _, _)
Walk(edges, n, depth, ancestry, seen) ==
    IF depth > MaxGraphDepth THEN [seen EXCEPT !.capped = TRUE]
    ELSE FoldLeft(LAMBDA s, child :
                    IF child \in ancestry \cup s.nodes THEN s
                    ELSE Walk(edges, child, depth + 1, ancestry \cup {child},
                              [s EXCEPT !.nodes = @ \cup {child}]),
                  seen, Children(edges, n))
Descendants(edges, n) == Walk(edges, n, 0, {n}, [nodes |-> {}, capped |-> FALSE])

DirectOf(direct, nodes) == MapThenSumSet(LAMBDA n : direct[n], nodes)
Upstream_PerEdge(direct, edges, n) ==
    FoldLeft(LAMBDA sum, child : sum + direct[child], 0, Children(edges, n))
Upstream(direct, edges, n) == DirectOf(direct, Descendants(edges, n).nodes)

BuildCarbonGraph(direct, edgeInputs) ==
    LET edges == Clean(direct, edgeInputs)
    IN  [direct |-> direct,
         edges |-> edges,
         total |-> [n \in DOMAIN direct |-> direct[n] + Upstream(direct, edges, n)],
         capped |-> \E n \in DOMAIN direct : Descendants(edges, n).capped]

(* The shortest path from the root, breadth first and in the order of the   *)
(* edges, by node; nodes the root does not lead to have none.               *)
RECURSIVE Search(_, _, _)
Search(edges, queue, path) ==
    IF queue = <<>> THEN path
    ELSE LET new == SelectSeq(Children(edges, Head(queue)), LAMBDA n : n \notin DOMAIN path)
         IN  Search(edges, Tail(queue) \o new,
                    path @@ [n \in ToSet(new) |-> Append(path[Head(queue)], n)])
TracePath(graph, n) ==
    LET path == Search(graph.edges, <<Root>>, Root :> <<Root>>)
    IN  IF n \in DOMAIN path THEN path[n] ELSE None

(* Ranked by total; the hotspots are the prefix that first reaches 80 % of  *)
(* the sum of the totals.  Nodes of equal totals are ranked by label, which *)
(* is not modelled.                                                         *)
Ranked(total, nodes) == SetToSortSeq(nodes, LAMBDA a, b : total[a] > total[b])
RankHotspots(graph) ==
    LET ranked == Ranked(graph.total, DOMAIN graph.total \ {Root})
        running == [i \in 0 .. Len(ranked) |->
                      DirectOf(graph.total, {ranked[j] : j \in 1 .. i})]
        grand == running[Len(ranked)]
        reached == {i \in 1 .. Len(ranked) : 5 * running[i] >= 4 * grand}
        cut == IF reached = {} THEN Len(ranked) ELSE Min(reached)
    IN  {ranked[i] : i \in {j \in 1 .. cut : graph.total[ranked[j]] > 0}}

-----------------------------------------------------------------------------
(* Interventions, applied to node and edge inputs [direct, edges].  One     *)
(* whose target is not there is skipped; the root cannot be dropped.        *)
Decarbonize(g, iv) ==
    [g EXCEPT !.direct[iv.node] = (@ * (100 - iv.pct) + 50) \div 100]
Substitute(g, iv) == [g EXCEPT !.direct[iv.node] = iv.value]
DropNode(g, iv) ==
    IF iv.node = Root THEN g
    ELSE [direct |-> [n \in DOMAIN g.direct \ {iv.node} |-> g.direct[n]],
          edges |-> SelectSeq(g.edges, LAMBDA e : iv.node \notin {e.from, e.to})]
Reroute(g, iv) ==
    LET moved == {i \in DOMAIN g.edges : g.edges[i] = [from |-> iv.node, to |-> iv.to]}
    IN  IF moved = {} \/ iv.new \notin DOMAIN g.direct THEN g
        ELSE [g EXCEPT !.edges[Min(moved)].to = iv.new]
Intervene(g, iv) ==
    IF iv.kind = "reroute" THEN Reroute(g, iv)
    ELSE IF iv.node \notin DOMAIN g.direct THEN g
    ELSE CASE iv.kind = "decarbonize" -> Decarbonize(g, iv)
           [] iv.kind = "substitute" -> Substitute(g, iv)
           [] iv.kind = "drop_node" -> DropNode(g, iv)
ApplyNetworkScenario(graph, interventions) ==
    LET base == [direct |-> graph.direct, edges |-> graph.edges]
        after == FoldLeft(Intervene, base, interventions)
    IN  [baseline |-> BuildCarbonGraph(base.direct, base.edges).total[Root],
         projected |-> BuildCarbonGraph(after.direct, after.edges).total[Root]]

-----------------------------------------------------------------------------
VARIABLES
    active,      \* the active suppliers
    emitted,     \* the sum of a supplier's emission datapoints
    own,         \* the organization's emission rows
    links,       \* supply_chain_edge rows
    snapshots,   \* carbon_graph_snapshot rows, in the order of creation
    scenarios,   \* network_scenario rows
    job,         \* what each computation has read
    calls

twinVars == <<active, emitted, own, links, snapshots, scenarios, job, calls>>
sources == <<active, emitted, own, links>>

Idle == [at |-> "idle"]
Init ==
    /\ active = Supplier
    /\ emitted \in Emission
    /\ own \in Own
    /\ links \in Declared
    /\ snapshots = <<>> /\ scenarios = {}
    /\ job = [c \in Computer |-> Idle]
    /\ calls = 0
Called == calls < MaxCalls /\ calls' = calls + 1

(* Suppliers are archived and restored, calculations change emissions.      *)
SetArchived(s) ==
    /\ Called
    /\ active' = IF s \in active THEN active \ {s} ELSE active \cup {s}
    /\ UNCHANGED <<emitted, own, links, snapshots, scenarios, job>>
EmissionsChange(e) ==
    /\ Called
    /\ emitted' = e
    /\ UNCHANGED <<active, own, links, snapshots, scenarios, job>>

(* A link is identified by its buyer and its label, which is the supplier's *)
(* name when it has none; saving it again sets or clears its supplier.      *)
LabelOf(l) == IF l.label # None THEN l.label ELSE Name[l.to]
SameLink(l) == {m \in links : m.from = l.from /\ m.label = LabelOf(l)}
UpsertSupplyChainEdge(l) ==
    /\ Called
    /\ l.to # l.from
    /\ l.to # None \/ l.label # None
    /\ links' = (links \ SameLink(l)) \cup {[l EXCEPT !.label = LabelOf(l)]}
    /\ UNCHANGED <<active, emitted, own, snapshots, scenarios, job>>
DeleteSupplyChainEdge(l) ==
    /\ Called
    /\ l \in links
    /\ links' = links \ {l}
    /\ UNCHANGED <<active, emitted, own, snapshots, scenarios, job>>

-----------------------------------------------------------------------------
(* The root carries scope 1 and scope 2, market based where there is any;   *)
(* a link to a party that is not an active supplier gets a stub.            *)
RootDirect(o) == o.scope1 + IF o.market > 0 THEN o.market ELSE o.location
Target(l, suppliers) == IF l.to \in suppliers THEN l.to ELSE <<l.from, l.label>>
Nodes(read, declared) ==
    LET stubs == {Target(l, read.active) : l \in declared} \ read.active
    IN  [n \in {Root} \cup read.active \cup stubs |->
           IF n = Root THEN RootDirect(read.own)
           ELSE IF n \in read.active THEN read.emitted[n] ELSE 0]
Edges(read, declared) ==
    SetToSeq({[from |-> Root, to |-> s] : s \in read.active}) \o
    [i \in DOMAIN declared |->
       [from |-> declared[i].from, to |-> Target(declared[i], read.active)]]

ComputeCarbonGraph(c) ==
    /\ Called
    /\ job[c] = Idle
    /\ job' = [job EXCEPT ![c] = [at |-> "links", active |-> active, emitted |-> emitted,
                                  own |-> own]]
    /\ UNCHANGED <<sources, snapshots, scenarios>>
(* The links come in whatever order the database returns them.              *)
BuildGraph(c, declared) ==
    /\ job[c].at = "links"
    /\ LET graph == BuildCarbonGraph(Nodes(job[c], ToSet(declared)), Edges(job[c], declared))
       IN  job' = [job EXCEPT ![c] = [at |-> "create", graph |-> graph,
                                      version |-> Len(snapshots) + 1]]
    /\ UNCHANGED <<sources, snapshots, scenarios, calls>>
VersionIsFree(v) == v \notin {snapshots[i].version : i \in DOMAIN snapshots}
CreateSnapshot(c) ==
    /\ job[c].at = "create"
    /\ VersionIsFree(job[c].version)
    /\ snapshots' = Append(snapshots, [version |-> job[c].version, graph |-> job[c].graph])
    /\ job' = [job EXCEPT ![c] = Idle]
    /\ UNCHANGED <<sources, scenarios, calls>>
(* The version was taken, or the request failed.                            *)
AbortCompute(c) ==
    /\ job[c] # Idle
    /\ job' = [job EXCEPT ![c] = Idle]
    /\ UNCHANGED <<sources, snapshots, scenarios, calls>>

(* The snapshot of a version, or the latest; none if there is no such.      *)
CarbonGraphAt(version) ==
    LET rows == {snapshots[i] : i \in DOMAIN snapshots}
    IN  {r \in rows : IF version = None THEN \A s \in rows : s.version <= r.version
                      ELSE r.version = version}
(* Where a node of it is found.  The calculations behind it are Inventory's. *)
CarbonGraphNodeTrace(n, version) ==
    LET Trace(r) ==
          LET path == TracePath(r.graph, n)
          IN  [version |-> r.version, path |-> IF path = None THEN <<n>> ELSE path,
               hops |-> IF path = None THEN 0 ELSE Len(path) - 1]
    IN  {Trace(r) : r \in {x \in CarbonGraphAt(version) : n \in DOMAIN x.graph.direct}}

(* A scenario starts from the version it names, or from the latest.         *)
RunNetworkScenario(version, interventions) ==
    /\ Called
    /\ \E base \in CarbonGraphAt(version) :
         LET result == ApplyNetworkScenario(base.graph, interventions)
         IN  scenarios' = scenarios \cup
             {[base |-> base.version, interventions |-> interventions,
               baseline |-> result.baseline, projected |-> result.projected]}
    /\ UNCHANGED <<sources, snapshots, job>>

Next ==
    \/ \E s \in Supplier : SetArchived(s)
    \/ \E e \in Emission : EmissionsChange(e)
    \/ \E l \in Link : UpsertSupplyChainEdge(l)
    \/ \E l \in links : DeleteSupplyChainEdge(l)
    \/ \E c \in Computer :
         \/ ComputeCarbonGraph(c)
         \/ \E declared \in SetToSeqs(links) : BuildGraph(c, declared)
         \/ CreateSnapshot(c)
         \/ AbortCompute(c)
    \/ \E version \in {None} \cup DOMAIN snapshots, first \in Intervention :
         \/ RunNetworkScenario(version, <<first>>)
         \/ \E second \in Intervention : RunNetworkScenario(version, <<first, second>>)

Spec == Init /\ [][Next]_twinVars

-----------------------------------------------------------------------------
(* A link is found again by its key, which it shares with no other, and     *)
(* nobody supplies itself.                                                  *)
LinksAreKeyed ==
    \A l \in links :
       /\ l.to # l.from
       /\ \A m \in links \ {l} : <<m.from, m.label>> # <<l.from, l.label>>

Graphs == {snapshots[i].graph : i \in DOMAIN snapshots}
Step(g, S) == S \cup {g.edges[i].to : i \in {j \in DOMAIN g.edges : g.edges[j].from \in S}}
Within(g, n, hops) ==
    LET after[i \in 0 .. hops] == IF i = 0 THEN {n} ELSE Step(g, after[i - 1])
    IN  after[hops]
Reach(g, n) == Within(g, n, Cardinality(DOMAIN g.direct)) \ {n}

(* "the sum of its unique descendants' direct emissions" (docs/decisions/   *)
(* ADR-020-carbon-twin-graph.md:48), whatever cycles, diamonds and parallel *)
(* links are declared and in whatever order: a graph that reports no depth  *)
(* limit rolls up just what is reachable, any other no more than that; and  *)
(* its total is the complete footprint, each party counted once.            *)
RollUpIsComplete ==
    \A g \in Graphs :
       /\ g.total[Root] = DirectOf(g.direct, DOMAIN g.direct)
       /\ \A n \in DOMAIN g.direct :
            LET reachable == g.direct[n] + DirectOf(g.direct, Reach(g, n))
            IN  IF g.capped THEN g.total[n] <= reachable ELSE g.total[n] = reachable

(* "the shortest hop path from the root" (ADR-020:81): a trace leads from   *)
(* the root to the node, by links of the graph of the version asked for,    *)
(* and no way is shorter; only parties that emit nothing are not found.     *)
TraceIsShortest ==
    \A version \in {None} \cup DOMAIN snapshots :
       LET shown == IF version = None THEN Len(snapshots) ELSE version
       IN  shown > 0 => \A n \in DOMAIN snapshots[shown].graph.direct :
             \E t \in CarbonGraphNodeTrace(n, version) :
                LET g == snapshots[shown].graph
                    joined == {<<g.edges[i].from, g.edges[i].to>> : i \in DOMAIN g.edges}
                IN  /\ t.version = shown /\ t.hops = Len(t.path) - 1 /\ Last(t.path) = n
                    /\ \A i \in 1 .. t.hops : <<t.path[i], t.path[i + 1]>> \in joined
                    /\ t.path[1] = Root \/ (t.hops = 0 /\ n \notin Reach(g, Root) /\ g.total[n] = 0)
                    /\ t.hops > 0 => n \notin Within(g, Root, t.hops - 1)

(* "the smallest prefix whose cumulative share reaches" 80 % (ADR-020:59):  *)
(* no smaller set of suppliers does, and none outside is bigger than one    *)
(* inside.                                                                  *)
HotspotsAreTheTop ==
    \A g \in Graphs :
       LET all == DOMAIN g.total \ {Root}
           hot == RankHotspots(g)
           Reaches(S) == 5 * DirectOf(g.total, S) >= 4 * DirectOf(g.total, all)
       IN  /\ Reaches(hot)
           /\ \A h \in hot : ~Reaches(hot \ {h}) \/ g.total[h] > Min({g.total[x] : x \in hot})
           /\ \A h \in hot, o \in all \ hot : g.total[o] <= g.total[h]

(* A scenario is measured against the snapshot it names as it was stored,   *)
(* and cuts and removals alone never raise the footprint.                   *)
ScenarioIsMeasured ==
    \A s \in scenarios :
       /\ s.baseline = snapshots[s.base].graph.total[Root]
       /\ (\A i \in DOMAIN s.interventions :
             s.interventions[i].kind \in {"decarbonize", "drop_node"}) => s.projected <= s.baseline

(* The snapshots as a chain of versions, each after the one before it.      *)
SnapshotChain ==
    [i \in DOMAIN snapshots |->
       [version |-> snapshots[i].version, supersedes |-> snapshots[i].version - 1]]
=============================================================================

# Verification of res-sim

res-sim is a set of Python programs that compute resilient forwarding tables
for data center networks and evaluate them: a network is generated, tables are
computed that survive several failed cables, and flows are walked over the
tables while cables or switches are down. This directory holds TLA+ models of
the parts that make the results right, the TLC runs that check them on small
networks, and TLAPS proofs of what holds on every network.

The programs are single-threaded and communicate by files. What is hard in
them is not concurrency. It is that a result depends on long sequences of
random choices, that state is shared by reference between calls, and that a
packet's fate depends on tables written in many different steps. So actions
here are loop iterations and calls, the nondeterminism is that of
`random.choice`, `random.shuffle`, set and dictionary iteration and the
randomised igraph, and the failures are those the evaluation draws.

## Inventory

| Component | State | Operations | What makes it correct |
|---|---|---|---|
| **edst forest** (`tree_alg.py`: `edst_tree`, `edst_forest`, nested `djs_*`) | the set of available edges shared by all calls, candidates and picked edges of a call, parent pointers, ranks and edge sets on the vertices, degrees, the forest | draw an edge, redraw it while its ends are busy, use or skip it, return the tree, give up | trees are disjoint and span; no edge is lost; it stops only when no tree is left; every call ends |
| **arc-disjoint trees** (`adst_tree`, `adst_forest`) | the residual digraph, the tree under construction | grow an arc that keeps enough maximum flow | arc-disjoint spanning trees |
| **tree tables** (`edst_fwdtable_normal`, `adst_fwdtable`, `edst_fwdtable_dfr`) | per destination and switch, ordered entries for every current tree | build, from a forest and random orders | an intact tree is always found |
| **tree walk** (`tree_throughput.py`: `fwdtable_walk_path*`, `populate_topk_cache`) | the packet: switch, current tree, failed trees, hops | start, forward, drop, arrive | delivery while a tree is intact, no cable twice, termination |
| **priority queue** (`priority_dict.py`) | dictionary and heap with stale pairs | `__setitem__`, `setdefault`, `update`, `del`, `smallest`, `pop_smallest` | it is a priority queue; the heap stays bounded |
| **flow throughput** (`compute_flow_throughputs`, `init_ports`, `reset_*`) | flows on ports, used capacity, rates, the queue of ports | pop the tightest port, rate its flows, requeue | capacities kept, max-min fair rates, it ends |
| **Plinko routes** (`resnet_alg.py`: rounds of `main`) | the tables, the (failures, route) pairs of this and of the next round | default routes, a backup per edge of every route, round after round | t rounds survive any t failures; entries never conflict |
| **Plinko walk** (`resnet_throughput.py`: `plinko_walk_path`) | the packet: switch, reverse path, hops | look up, follow to the first failed edge, drop, arrive | at most one match, delivery, termination |
| **path dependency graphs** (`resnet_dfr.py`: `plinko_path_cdg`) | a stack of routes and reverse paths | walk a route, push its backups | every dependency of a packet is found |
| **virtual channels** (`resnet_dfr.py`: `assign_vcs` and what it calls) | the channel graph, the paths removed from it, the search (stack, visited), the finished channels | build a channel, depth-first passes, break a cycle, finish | every path is whole on one channel, channels are acyclic, it ends |
| **tree graph and deadlock-free trees** (`ttg_*`, `edst_fwdtable_dfr`) | the graph of allowed changes of tree, the search that breaks its cycles, the layers of trees of each destination, its tables | build, search, break a cycle, choose and layer the trees, write the tables of a destination | no assert fails; no deadlock over all destinations; still resilient |
| **table compression** (`resnet_alg.py`, `bitweave.py`, `suri.py`) | packed TCAM and LPM tables | pack, check | packed tables match like the originals |
| **topology tools** (`topo/`) | devices and links | egft, hyperx, jellyfish, optimise | degrees and hosts as asked for |
| **correlated failures** | the failed set | grow a connected set | it ends with the size asked for |
| **bounds, runners, I/O** | none, or files | print formulas, run commands, JSON | - |
| **graph libraries** (vendored igraph, with the patch `src/igraph-0.6.5/src/res-sim_igraph-0.6.5.patch`) | the indexed edge list, the circular queue, the stack of temporaries, the state of a search | add and delete, breadth first search with shuffled levels, shortest paths with shuffled edges | edges keep their ends and names; a randomised search still finds shortest paths; temporaries are freed |
| **rest of igraph, networkx** | vendored libraries | maximum flow, feedback arc set, DAG test | external, by their results |

How they interact. `topo_gen.py` writes a network that every other program
reads. `tree_alg.py` grows a forest and writes tree tables; `tree_throughput.py`
reads them and walks flows. `resnet_alg.py` writes Plinko tables;
`resnet_throughput.py` walks them, and `resnet_dfr.py` derives dependency
graphs from them and assigns virtual channels. Both throughput programs hand
the paths of a round to `compute_flow_throughputs`, which uses
`priority_dict`. All of them ask igraph for trees and routes, and rely on the
patched searches choosing at random. `flow.path`, `Port.used` and `Port.flows` are shared objects
that live across the evaluations of a round.

Hard behaviours: a set passed by reference and changed by the callee; random
picks that decide whether another tree exists; tables filled by many loop
iterations and read in an order that must fit; headers that grow over several
failures; a heap with stale entries; priorities that change while the queue is
drained; edges deleted under a running depth-first search; edge ids that move when edges
are deleted; a circular queue shuffled in place while it wraps around; a count
of temporaries written as a number; loops whose termination is not obvious. PROJECT.json lists each at its line.

## Modules

    Topology, ForestCall -- EdstForest <== EdstUnionFind        (<== implements)
        |                       '-- EdstForestProofs <-- EdstUnionFindProofs
        |---- TreeTables -- TreeWalk -- TreeWalkProofs
        |---- TreeTransitions -- DfrTrees -- DfrTreesProofs
        '---- PlinkoRoutes -- PlinkoWalk -- PlinkoCdg
                                  '-- PlinkoProofs
    PriorityMap <== PriorityDict -- QueueProofs
        '-- used by FlowThroughput -- FlowThroughputProofs
    VcAssign -- VcAssignProofs
    DQueue
        '---- RandomBfs <== Bfs ---.        DQueue, Bfs -- QueueProofs
        '---- ShortestPaths -------+--- GraphSearch
    EdgeList <== IndexedGraph -----'

`MC*` modules hold the networks of the TLC runs.

**Topology.** `build_graph`: switches `V`, cables `E` (parallel ones are
different), `Ends`. A port of a switch is represented by the cable in it, which
the code keeps in bijection (`v.edges[port]`); only `PlinkoCdg` needs the
numbers.

**ForestCall** holds the arguments of `edst_forest`. **EdstForest** is the
algorithm: `block[v]` is the component of `v`, `es[v]` the edges stored at its
root. `Use`, `Skip` are one iteration of the while loop of `edst_tree`, `Finish`
its return together with the next call, `GiveUp` its return of `None`. The tree is read off `es[root]`, as the code does, not off
`pickedE`. **EdstUnionFind** has what the code really has: `_parent`, `_rank`,
`_es` (stale below a root), recursive path compression as an effect on all
visited vertices, and the redraw of edges at busy vertices. Its `Refinement`
maps `block` to equality of roots. The two orders of the ends of an edge
(`v1`, `v2`) are both tried. TLC checks the properties on EdstUnionFind only:
EdstForest has no run of its own, its theorems reach the code through the
refinement.

**TreeTables, TreeWalk.** A tree is what the tables use of it, the next edge of
every switch (`nh`); `Init` takes every edge-disjoint or arc-disjoint family of
trees. `BuildTables` models the whole construction for one destination:
`EdstRow` and `AdstRow` are the two builders, `Orders` the shuffle followed by
the stable sort by length. `StartRound` draws failed cables or failed switches
(which take their cables down, as in `main`), `Start` draws a starting tree from
`TopK`, `Forward` is one lookup: the first entry whose tree is not marked and
whose cable is up.

**PriorityMap** is the abstract queue, **PriorityDict** the dictionary with its
heap; the heap is a bag because equal pairs do occur. One step of the while
loop of a lookup is one action. `dict.__delitem__` is inherited, so stale pairs
also come from deletions.

**FlowThroughput** does one turn of the outer loop per action (`Pop`,
`Assign`), with the inner loops over flows and their ports summed up in
`Charged` and `Requeued`; `NextModel` is the reset and second evaluation on the
same ports. Popping is `Lowest` of PriorityMap, which PriorityDict implements.
Rates are integers: the comment of `Port` allows "a large number" in place of
1.0, and 144 divides without remainder in the instance, so the tolerance of the
asserts (0.99 to 1.01) is not needed. The proofs do not assume exact division.

**PlinkoRoutes** is the loop over rounds for one destination, `--model plinko`,
`--fail edges`. `Init` draws default routes, `NextRound` swaps the dependency
tables, `Backup(d)` is the whole body for one route and one set of failures:
where it fails, what is known there, an existing or a shortest route, the table
entries (`Entries`, one for source routing, one per hop for hop-by-hop), and
the dependencies for the next round. Hops and reverse paths are cables; a
reverse path starts at the switch that looks it up. igraph's choice is any
shortest path, because the patched igraph of this repository randomises
traversals. **PlinkoWalk** adds the packet of `plinko_walk_path`: `Forward` is
one turn of its loop. **PlinkoCdg** evaluates `plinko_path_cdg` on finished
tables, with port numbers, and compares it with what packets do.

**TreeTransitions** has the transition graphs as operators: lines, layers of
the several widths, the orders that are left of a complete graph without a
feedback arc set, and the choice and layering of the trees. **DfrTrees** is the
rest of `--dfr`. `Init` draws a forest of the instance and the arguments `main`
accepts. `BuildTtg`, `MaxDag`, `RandDag` make the graph; `NewSearch`, `Pop`,
`PopRoot`, `BreakCycle`, `SuccessorsDone`, `Searched`, `Acyclic` are the random
depth first search that breaks the cycles of a complete graph, on which the code
goes on with paths and successors it read before arcs were removed; `Label` has
the asserts that follow. `FwdtableDfr(d)` is `edst_fwdtable_dfr` for one
destination after the other; a failing assert is the state `"assert"`. `deps`
collects what an edge of a tree waits for in the tables of all destinations.
`Send` draws failures, a start and the order of the tables of one destination,
`Forward`, `Drop`, `Arrive` walk.

**VcAssign** is `assign_vcs`: `Build`, `StartPass`, `Start`, `Pop`, `Examine`,
`EndPass`, `Finish`. A channel is a set of (arc, arc, path) triples, igraph's
multigraph with the attribute `cdg_num`. Two abstractions, neither of which
adds or removes an outcome: the random order of the start arcs at the bottom of
the stack is revealed when the next unvisited one is needed, and a successor
that parallel edges list several times is examined once (its second look finds
the cycle broken). `removed_cdg_idxs` is a bag so that a path listed twice
would show.

**DQueue** is igraph's circular queue (`dqueue.pmt`): cells, `begin`, `end`,
`NULL` for empty, growth when full, and the patched shuffle that swaps triples
in place (`DqSwap`). **IndexedGraph** is `type_indexededgelist.c`: `from`, `to`,
the two orders `oi`, `ii` made by two bucket sorts (`VectorOrder`), their starts
`os`, `is` (`CreateStart`), adding and deleting, incident edges and neighbours.
**EdgeList** is what callers rely on: a sequence of named edges.

**Bfs** is `igraph_i_bfs` as patched: two queues of triples <child, parent,
distance>, one for this level and one for the next. `Child` fills the first,
`Shuffle` and `Swap` are the shuffle turn by turn, `PopKnown`, `PopNew` take a
triple, `Scan` looks at a neighbour, `EndLevel` exchanges the queues, `Return`
frees. `finally` is the stack of what an error has to free. **RandomBfs** is
what such a search promises without queues: at each level each waiting vertex
goes to any of the vertices it waits for. **ShortestPaths** is
`igraph_get_shortest_paths` as patched: the codes of `father`, the edges of a
vertex visited in random order (`Visit`, `Edge`), the count of targets reached,
`Answer` walking back from each target. **GraphSearch** composes them: a graph is
built and edited, and searched in between, all on one `finally` stack.

## Runs

All passing runs are complete explorations.

| Run | Instance | Shows |
|---|---|---|
| `edst_union_find` | 5 switches, 8 cables; a hub of degree 5 so that `Busy` occurs with edges left to draw; `TryCount` up to 5 (27,803 states) | the inductive invariant; trees disjoint and spanning; `Maximal`: the forest ends only when the rest of the cables cannot connect the network, whatever was drawn; `RankOrder` (no cycle of parents, at least 2^rank vertices under a root); the refinement of EdstForest; termination |
| `tree_walk_edst` | all pairs of edge-disjoint trees on a ring of 4 with diagonals and a doubled cable, all tables, up to 2 failed cables or switches | the inductive invariant, `IntactTreeDelivers`, `Resilient` (k trees survive any k-1 failures), `NoArcTwice`, `TransitAvoidsFailures` (a packet is never at a failed switch although the walk only looks at cables), termination (39,704 states) |
| `dfr_trees` | 3 switches, 8 cables, 4 edge-disjoint trees, every type of transition graph, up to 3 failures (178,553 states) | `AssertsHold`, `LayersResilient` (k layers of trees survive k-1 failures), `DeadlockFree` over the tables of all destinations, termination of the cycle breaking and of every walk |
| `priority_dict` | 3 keys, 2 priorities | heap and dictionary implement the map; heap at most twice the keys; lookups return |
| `flow_throughput` | 7 flows on a triangle, 3 with detours, all but one possibly without a path | the inductive invariant, `UsedIsSum` (port accounts), `MaxMinFair`, rates given in rising order, both evaluations end |
| `vc_assign` | 3 paths, 13 possible graphs each, 4 arcs | `WholePaths`, `EachPathOnce`, `OnlyCyclesCost`, termination |
| `plinko_walk` | a wheel of 5 switches and 7 cables, up to 3 failures; source routes of one switch for 2 rounds, compression-aware hop-by-hop routes of three switches that share tables for 2 rounds and of one for 3 | `KnowsWhatFailed`, `Exclusive`, `Resilient`, termination also beyond the resilience |
| `graph_search` | graphs of up to 5 vertices and 7 edges ever added, directed or not, with loops and double edges, edited between searches (694,185 states) | `EdgesKept` (IndexedGraph implements EdgeList), `IndexRight`, `PathsRight`, `ShortestTree`, `LayersRight`, `SearchRefines` (the queues implement RandomBfs) |
| `plinko_dfr` | a ring of 4 with a second way, `--dfr`, 2 rounds | violates `NoPortTwice` |
| `plinko_cdg` | the same network, ports numbered | violates `DependenciesFound` |
| `finally_stack` | graphs of 3 vertices | violates `FinallyClean` |
| `tree_walk_adst` | an octahedron, 6 switches and 12 cables, with one forest of four arc-disjoint trees; any 3 failed cables | violates `Resilient` |

Why the bounds are enough to be interesting. The eight cables of
`edst_union_find` have forests of one and of two trees, so `Maximal` is checked
where greedy picks cost a tree. Two failures can hit both of two trees, so
drops happen and `IntactTreeDelivers` is not vacuous. Four transition-graph
trees give graphs of one to four layers, random parts with cycles, and trees that are left
out; three failures exceed the resilience of most of them. Three keys and two
priorities reach every kind of stale pair (key gone, lower, higher, equal to
the current one) and the rebuild. Seven flows on shared ports give up to three
rate levels. Three paths are enough for a pass that leaves a cycle behind and
for a third channel. Two rounds on the wheel have backups of backups; three
failures exceed them, so drops and long detours occur. In `graph_search` a new
queue has 2 cells (100 in the code) so that it grows and wraps around within a
search, and the stack has room for 4 temporaries (1,000,000 in the code), so
that a second search aborts: the object the first one leaves behind is one too
many. `Rounds`, `MaxTries`, `TopTrees`, `QueueSize` and
`FinallySize` are values the code has, small here; `MaxFailures`,
`MaxVertices`, `MaxBorn` (edges ever added), `Batches` and `Targets` (the lists
added and asked for) are bounds of the models alone.

Each property has a mutated definition beside the original ("Mutant: ..."): a
plausible slip in the same code that makes the property fail on the same
instance.

`CHECK_DEADLOCK FALSE` stands where the program stops: after the forest is
returned, a flow is walked, both evaluations are done, all channels are
assigned, no more edges may be added or the library aborted. `priority_dict`
has no end and is checked for deadlock.

### Fairness

The programs are single-threaded: a loop that can take its next iteration
takes it. So `WF_vars(Next)` for EdstUnionFind, TreeWalk, FlowThroughput and
VcAssign, and weak fairness of the loop alone where the rest of `Next` is the
choice of a caller: the walk in PlinkoWalk, the running lookup in PriorityDict,
the breaking of cycles and the walk in DfrTrees. No fairness is assumed of
random choices: the liveness properties hold however adverse they are.
GraphSearch states no liveness.

## Findings

* `adst_fwdtable` puts the reverse tree behind a tree it takes from the sorted
  list, but not the reverse tree of that one (`tree_alg.py:1575`). Four
  arc-disjoint trees do not survive three failed cables, against
  "NUM_TREES = [0, 2, 3, 5] # Resilience + 1" (`run_adst_throughput.py:25`): a
  packet at switch 4 on tree 2 finds tree 2 and its reverse, tree 3, failed
  there, goes on along tree 1 although tree 4, the reverse of tree 3, would
  deliver, and at the next switch finds tree 1 failed, and tree 4 failed at the
  other end of the cable that broke tree 3. Run `tree_walk_adst`. With three
  trees, or with tables that keep every tree and its reverse tree together,
  nothing is lost: both are proved below.
* With `--dfr`, `shortest_path` builds a directed graph without the arcs
  already used, and the next branch overwrites it, since its condition tests
  the network and not the graph just built (`resnet_alg.py:429`); a route can
  use a port twice, against the comment at line 408. Run `plinko_dfr`.
* `plinko_path_cdg` appends the way back in forward order (`resnet_dfr.py:149`)
  where tables and packets put the last hop first, so it misses backups whose
  reverse path has two or more hops through different ports, and with them
  dependencies. Run `plinko_cdg`; with the order of the tables the same run
  has no violation.
* The patched `igraph_i_bfs` puts four temporaries on the stack of what an
  error frees (`visitors.c:297-302`, the second queue is the patch's) and takes
  three off (line 396), against `igraph_error.h:536`. Every search leaves a
  freed array behind; an error in a later call frees it again, and after a
  million searches the library aborts. Run `finally_stack`.

Observed while modelling, without a run of their own:

* A flow between two hosts of one switch returns its path before the switch is
  compared with the failed ones (`tree_throughput.py:293`), against the assert
  at line 710. TreeWalk has the early return (`SameSwitch`).
* With more trees asked for than the forest has, the assert on `maxl1` at
  `tree_alg.py:1123` fails for the random graphs. DfrTrees asks for no more.
* `igraph_delete_edges` writes `graph->ii` before its last allocations that can
  fail (`type_indexededgelist.c:465`), where `igraph_error.h:88` promises
  arguments that are semantically unchanged after an error.

## Proofs

All theorems hold for every value of the constants that satisfies the named
assumptions of the modules.

**EdstForestProofs** (any finite multigraph, `TopologyAssumption`). `IInv` adds
to the properties: the blocks partition `V` and each is connected by its stored
edges (`Partitioned`); stored edges are picked edges, and a picked edge is
stored at both its ends (`Stored`); blocks plus picked edges number `|V|`
(`Counted`); an available edge no longer considered lies in a block
(`Considered`). `Counted` turns the loop's exit test into "one block", hence a
spanning tree; `Considered` turns "out of candidates" into "what is left does
not cross a block", hence `Maximal`. Theorems: `Invariance`, `TypeCorrect`,
`Disjointness`, `SpanningTrees`, `EdgesKept`, `MaximalForest`.

**EdstUnionFindProofs** (the same networks). djs_find is a recursive function,
so what it computes is established first: following pointers n times is shown
total by induction over n (`NatSet`, from the library's least-element theorem
rather than its induction rule), and since ranks strictly rise along pointers
and stay below `|V|` (`Ranked`), |V| steps reach a root (`Found`). Compression
and a union then change `RootIn` as they should (`Compressed`, `Unite`).
`UFInv` adds to the ranks that a drawn edge is one of the call's and that no
rank exceeds the number of picked edges, which is below `|V|` while there are
two components. Each action maps to an action of EdstForest or to a stutter
(`Implements`), and EdstForestProofs, instantiated under the mapping, gives the
properties of the forest of the code: `Invariance`, `TypeCorrect`,
`Disjointness`, `SpanningTrees`, `MaximalForest`. `FindEnds`: the recursion of
djs_find ends. `RanksInOrder` adds that a root of rank r heads at least 2^r
vertices: powers of two are counted as the subsets of 1..r (`Doubled`), and a
union raises a rank only where it joins two classes of that rank.

**TreeWalkProofs** (any network, any number of trees, edge- or arc-disjoint,
any table order, default trees included). The invariant: a row offers every
resilient tree and an entry marks only trees offered above it (`RowsOffer`,
proved of `EdstRow` and of the loop of `AdstRow` for every order); marked trees
are broken. The forwarding step takes the first entry that matches, so every
tree above it was marked or has a failed edge here; the drop step means that of
all trees. That a packet is never on a failed switch needs that all cables of a
failed switch are down (`SwitchesDown`).

Of edge-disjoint trees each failed cable breaks one at most, and
`ResilienceIsTreesMinusOne` follows by an injection of the trees into the failed
edges. Of arc-disjoint trees it may break two, and the injection has to come
from the walk (`ArcInv`): each marked tree was found failed at some switch, and
no two over the same cable (`MarksFound`). For the tree that uses a cable found
failed the other way is marked too, or carries the packet now, and a tree never
leads back to the far end of a cable it brings packets over (`NoWayBack`,
`NeverMeets`), so it is not found failed there. This needs that a row has the
reverse tree of each tree right behind it or above it (`ReversesFollow`):
`PairedReversesSurvive`. The rows of `adst_fwdtable` have that but for reverse
trees themselves (`RowsPaired`, an invariant of its loop). With up to three trees
the exception does no harm (`ThirdIntact`): it matters only for a default tree
with its reverse and the reverse of that, the two cables found failed are then
all there are, and the third tree crosses neither of them. That is
`ThreeArcDisjointTreesSurvive`; with four trees the run `tree_walk_adst` shows
the exception does harm.

That no link is crossed twice the same way (`NoArcTwice`) is about the path
behind the packet: each hop was made on some tree at some switch (`Crossed`). A
tree that was left is marked, since the other entries of a row mark the tree the
packet came on (`RowsBegin`), and the current one never leads back to a switch
it has passed (`NeverMeets`); two hops over the same cable the same way would be
on the same tree, as the trees are disjoint. The default trees take the cables
of all others, so `NoLinkTwice` assumes there are none.

Theorems: `TypeCorrect`, `WalkInvariant`, `MarksAreRight`,
`OneIntactTreeDelivers`, `ResilienceIsTreesMinusOne`, `PairedReversesSurvive`,
`ThreeArcDisjointTreesSurvive`, `NoLinkTwice`, `NoFailedSwitchOnPath`.

**QueueProofs** holds the proofs of three data structures. The dictionary (any
finite set of keys, any integer priorities): `HeapCovers`, that the current
pair of every key is in the heap, is inductive and gives the refinement of
PriorityMap step by step: a lookup returns from a head that is current, and
every current pair is at or below the head. The size of the heap is counted as
a set of numbered copies (`Copies`), so that pushing, popping and rebuilding
add, take or replace members of a finite set (`SizeInv`). Theorems:
`DictInvariant`, `TypeCorrect`, `CurrentPairsStay`, `HeapStaysSmall`,
`Implements`.

The queue of igraph (of any size) stands for a sequence (`DqItems`):
`NewQueue`, `EPtrFinds` (the k-th element, wrapped around or not),
`PushAppends` (growing included), `PopTakesHead`, `SwapExchanges` (a turn of
the shuffle exchanges two items and nothing else).

The search of igraph, Bfs on two such queues (any graph, edited between
searches, queues of any size). `BfsInv`: a queue holds whole items of three,
each names a vertex, an added one and its distance; while the loop over the
neighbours of a vertex runs, its position is within them. So a push is one more
pair that waits (`PushItem`), three pops take one (`PopItem`) and a swap
changes none (`SwapItems`), and the fronts of the mapping are those pairs and
the rest of the loop (`Fronts`). With that every step of Bfs maps to a step of
RandomBfs or to a stutter: adding a vertex to `Take`, the end of a level to
`Advance`, everything else that moves triples to nothing at all
(`SearchImplements`). For RandomBfs the invariant is: who waits is not added
and waits for a neighbour that is (`PairsRight`); what waits comes from two
successive levels (`TwoLevels`); what an added vertex reaches is at most one
level deeper, or waits for it (`Covered`). At the end nobody waits, so no edge
skips a level: `ShortestPathsFound`, and by induction on the length of a walk
`DepthIsLeast`, that the depths are distances. For the layers (`LayersInv`): the
items of the searched level are all of one distance d, those of the other queue
of d + 1, and the layer of d + 1 has begun as soon as any of those wait
(`AtLevel`), so a vertex that is added begins the last layer or lies in it:
`LayersHold`.

**FlowThroughputProofs** (any ports, flows, paths, capacity; integer rates
rounded down). `IInv`: a flow without a rate is on all of its ports
(`OnAllOrNone`), no priority in the queue is stale (`QueueCurrent`), and what
an occupied port can still offer is at least every rate given (`RatesBelow`).
The popped port has the least rate r, so each other port loses at most r per
flow, and `Share` shows what it still offers is at least r. `UnratedAtZero` and
`NearlyFair` make the invariant one of fairness: when a port is popped and
shared, it becomes the bottleneck of its flows, full but for less than a unit
per flow, and rates that come later are on other ports. Sums over sets of flows
are defined by a recursion in the order of a CHOOSE; `Units` is a set with as
many members as the sum, which makes them countable (`AccountsAreSums`). With
rounding down, `MaxMinFair` itself needs that the flows of a port share what is
left of it without a rest (`DivisionsExact`), as real numbers are shared: it
holds of the run's capacity 144, not of every capacity, while `RatesNearlyFair`
has no such condition. Theorems: `ThroughputInvariant`, `TypeCorrect`,
`PortsKeepCapacity`, `AccountsAreSums`, `RatesNearlyFair`, `RatesMaxMinFair`,
`RatesGivenInOrder`.

**VcAssignProofs** (any finite sets of arcs and paths, any acyclic dependency
graphs). `IInv` is type correctness, `Searching` (a search that has successors
left stands at some arc), `WholePaths` and `EachPathOnce`. The step that needs
an argument is `BreakCycle`: the paths it takes out induce an edge of the
channel, so they are there, so by `EachPathOnce` on no list, and listing them
once gives them the next place. For `OnlyCyclesCost` the search is followed: the
paths on its stack are paths of the channel as it was built, although edges of
it may be gone by now (`SearchAlong`), so an edge back to an ancestor closes a
cycle of that channel (`CycleInv`). Theorems: `AssignInvariant`,
`PathsStayWhole`, `PathsKeptOnce`, `OnlyPathsOnCyclesMove`.

**DfrTreesProofs** (any network, any sequences of edge-disjoint spanning trees,
any arguments the program accepts). Every dependency of the tables leads from
an edge of a tree t, at a switch on the way to one destination, to the next edge
along t or along a later tree that the transition graph reaches from t (`DepOf`).
So two orders decide. Between trees: the graph is acyclic when tables are
written, hence its vertices have ranks that fall along its arcs (`Ranked`), also
through `Closure`, which is shown to be the least set closed under arcs
(`ClosureIsRight`, `ReachedIsLower`), and after the trees for resilience are
appended (`ResilienceKeepsRank`). Along a tree: the next edge to a destination
lies in the tree (`NextEdgeInTree`), taking an edge out of a spanning tree
separates its ends (`EdgeSeparates`, by counting edges), and the side a packet
goes to shrinks with every step (`SideShrinks`). Of any edges in use, one that
lies in a tree of least rank and has the smallest side there waits for none of
the others (`SomeEdgeIsFree`).

That k layers of trees survive k - 1 failures is the invariant `LInv`. From
every tree of a layer the graph reaches every tree of all later ones
(`LaterReached`): by arcs of the graph to the next layer (`LineNext`,
`RandomNext`, `LayeredSteps`), hence to all later ones, since the layers have no
gaps (`LayersReached`), and also among the layers of the trees that are kept
(`KeptLayers`). So the row of a tree offers all trees of the later layers, those
of a layer before those of the next (`RowsKeepLayers`), and a packet that goes
on to a later layer, or is dropped, has found a failed edge of a tree of every
layer it passed (`LeftBroken`). The trees are disjoint, so as many layers with a
broken tree need as many failed edges (`BrokenLayersCount`).

That no assertion of the construction fails is the invariant `AInv`. While
cycles are broken the graph stays connected: a cycle that leaves a set of
vertices comes back to it, so taking one of its arcs never cuts the set off
(`CycleCrossesAgain`, `BreakKeepsConnected`); this is where it matters that
nothing is removed unless every arc of the cycle is still there. The layers hold
every tree once (`LayeredLayers`, and `ChainLayers` for lines and the random
graphs), so their sizes add up (`SizeCounts`). The exchange of trees keeps their
number, and all trees so far that are not in the first layer unless so few of
that layer are left (`TopHas`); for the random graphs this leaves all trees the
resilience rests on (`RandomTopTrees`), which with the condition the program puts
on its arguments gives the layers as the asserts want them (`RandomKept`,
`LineKept`). Theorems: `GraphInvariant`, `NoDeadlock`, `LayersInvariant`,
`LayeredTablesSurvive`, `NoAssertFails`.

**PlinkoProofs** (any network, any set of sources, any number of rounds, source
or hop-by-hop routes, with and without `--dfr`, any choice of backup routes;
`TopologyAssumption`, `RoutesAssumption`, `WalkAssumption`). Main keeps no record
of its routes, only entries and pairs that wait; the invariant `PlinkoInv` says
that some set `R` of routes explains all of them. Each route is taken from the
switch its packets come from: the reverse path turned round, then the hops to
come (`Way`, `Origin`); its head is where it was looked up (`Head_`).

* Routes of one origin are apart (`ApartAt`): where they first differ is no
  later than at the head of one of them, and that one knows the edge the other
  takes there to be down. A backup route is apart from the route it replaces
  because it was looked for without that edge. It is apart from any other that
  leaves the old route earlier or later because the old route was; and where
  both leave it at the edge that fails, the other does so because its own edge
  there is one the old route knew to be down, as no route takes over from the
  old one while the pair waits (`Warned`).
* An entry is the cell of a route before one of its hops (`Cell`), and its header
  the way behind it (`Behind`). Two entries that one header reaches therefore
  belong to routes of one origin with the same way so far (`SameHeader`), and
  they part here, so one needs up what the other needs down. Hence `Exclusive`,
  and that no entry is ever written over another.
* What has failed on the way of a pair is what its route knew and its own edge
  (`DepOK`), each of them at a switch the reverse path or the local ports show:
  `KnowsWhatFailed`.
* Every hop of every route that may fail in the rounds so far is mended by
  another route, waits, or cuts its switch off from `Dst` (`Mended`).
* A packet that can still reach `Dst` stands on a route whose failures have
  happened (`OnRoute`). Of those, the one that knows most failures has an entry
  that matches (`EntryMatches`); if its next edge is down, `Mended` gives a
  route that knows more. So with no more failures than rounds it is never
  dropped (`Resilient`).

Theorems: `PlinkoInvariant`, `KnowsWhatFailedHolds`, `ExclusiveHolds`,
`ResilientHolds`, `NothingOverwritten`. Underneath, `After` and the search for
shortest paths are recursive functions; what they compute is proved by induction
on the number of hops (`Places`, `WalkConcat`, `WalkBack`, `ShortestPathsLead`).

Model-checked only: all liveness (the prover has no rule for fairness here);
of GraphSearch that the edge list keeps its edges and
its index (`EdgesKept`, `IndexRight`) and that what the searches return is right
by the ends of the edges alone (`ShortestTree`, `PathsRight`), which rests on
sorting by recursion over sequences.

## Not modelled, and why

* Most of the C in this repository is igraph 0.6.5, third-party code that is
  there to be built with one patch, and so nearly all of the repository's lines
  are in files that res-sim neither wrote nor runs. What the patch changes, and
  the graph and queue those functions stand on, is modelled; the rest is not,
  and maximum flow, feedback arc set and the DAG test appear by their results.
  Failing allocations in igraph are left out.
* `adst_tree`: steered by maximum flows; TreeTables takes any arc-disjoint
  forest, so nothing about the tables depends on it.
* In DfrTrees: `TTG_SORT.RES` (a partial order used as a comparison), more
  trees asked for than the forest has, the default tree.
* Models `eth-fcp` and `mpls-frr`, `--fail vertices` of `resnet_alg.py`;
  `assign_vcs_fas`: see the plan.
* Table compression: a pure algorithm on bit strings; planned as operators
  checked against a reference definition.
* Topology generators and the optimiser: closed formulas, except jellyfish.
* Path lengths and stretch, command-line handling, files, plots: no state.
* networkx, and third-party `bitweave.py`, `suri.py`, `myjsone.py`.

## Plan

Done, in this order of importance: (1) edst forest with its refinement, and
both proved; (2) tree tables and walk, proved; (3)
priority queue, refined and proved; (4) flow throughput, proved; (5) virtual
channels, proved; (6) Plinko routes and walk, proved, and dependency graphs; (7)
deadlock-free trees, freedom from deadlock, resilience and asserts proved; (8) the patched igraph: edge list, queue (proved),
breadth first search (proved) and shortest paths.

Next:

1. Plinko: `--fail vertices`, the `eth-fcp` tables and walk; an abstract
   specification of a lookup (deliver or find a new failure) that PlinkoWalk
   implements, from the lemmas of PlinkoProofs.
2. VcAssign: the feedback-arc-set variant, which lists a path once per edge.
3. `adst_tree` as an abstract growth that keeps enough flow.
4. Table packing as operators; jellyfish wiring; correlated failures.

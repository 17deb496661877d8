------------------------------ MODULE DfrTrees ------------------------------
(***************************************************************************)
(* Deadlock-free resilient trees (--dfr): tree_alg.py builds one forest of *)
(* edge-disjoint trees and one tree transition graph for all destinations, *)
(* and for each destination the tables by which a packet that meets a      *)
(* failure may change to a later tree of the graph; tree_throughput.py     *)
(* walks a packet through them.  The trees are numbered from 0, in the     *)
(* order main sorts them in.                                               *)
(***************************************************************************)
EXTENDS Topology, TreeTransitions, SequencesExt

CONSTANTS
  Forests,       \* sequences of edge-disjoint spanning trees, sets of edges
  Args,          \* the arguments: records of type, l1width, self_layer, rand_res,
                 \* num_trees and maxl1
  MaxFailures    \* bound on the failed edges

(* What main and ttg_rand_max_dag_common check of the arguments, numbers   *)
(* all of them, and that there are the trees that are asked for.           *)
ASSUME DfrArguments ==
  \A args \in Args, f \in Forests :
    /\ f \in Seq(SUBSET E) /\ f # << >>
    /\ {args.num_trees, args.rand_res, args.l1width} \subseteq Int
    /\ args.type \in {"line", "nores", "mlayer", "alayer", "t", "rand", "maxdag"}
    /\ args.num_trees # 0 /\ args.num_trees <= Len(f)
    /\ args.type \in {"mlayer", "alayer", "t"} =>
         args.l1width > 0 /\ (args.num_trees > 0 => args.maxl1 > 0)
    /\ args.type \in {"rand", "maxdag"} =>
         /\ 0 <= args.rand_res /\ args.rand_res < Len(f)
         /\ args.num_trees > 0 => args.num_trees > args.rand_res
    /\ \A t, u \in DOMAIN f : SpanningTree(f[t]) /\ (t # u => f[t] \cap f[u] = {})

VARIABLES
  forest, args,
  fpaths,        \* fpaths[d][t][u]: length and first edge of the path along t from u to d
  arcs,          \* the arcs of ttg
  visited, roots, stack, path, succ,    \* of one search for cycles
  first,         \* the trees with 'l1'
  todo,          \* destinations without tables
  deps,          \* what the tables make wait: pairs of <<edge, switch it leads to>>
  dst, layers,   \* one destination, and the layers its tables are made of
  rows,          \* rows[v][t]: the entries at v for current tree t: places of trees
  failedE, v, ctree,
  status         \* "ttg", "check", "search", "succ", "label", "tables", "walking",
                 \* "delivered", "dropped", "assert"

search == <<visited, roots, stack, path, succ>>
packet == <<rows, failedE, v, ctree>>
vars   == <<forest, args, fpaths, arcs, search, first, todo, deps, dst, layers, packet, status>>

N      == Len(forest)
Tree(t) == forest[t + 1]
NumL1  == N - args.rand_res      \* len(sub_forest)

(* Hops to d along the edges in T.                                         *)
Hops(T, d) ==
  LET within[k \in 0..Cardinality(V)] ==
        IF k = 0 THEN {d}
        ELSE LET near == within[k - 1]
             IN  near \cup {u \in V : \E e \in T \cap EdgesAt(u) : Other(u, e) \in near}
  IN  [u \in V |-> Cardinality({k \in 0..Cardinality(V) : u \notin within[k]})]

(* forest_paths along the tree with the edges T.                           *)
PathsTo(T, d) ==
  LET hops == Hops(T, d)
  IN  [u \in V |->
        [len  |-> hops[u],
         edge |-> IF u = d THEN {} ELSE
                  CHOOSE e \in T \cap EdgesAt(u) : hops[Other(u, e)] < hops[u]]]

Init ==
  /\ forest \in Forests /\ args \in Args
  /\ fpaths = [d \in V |-> [t \in Vertices(N) |-> PathsTo(Tree(t), d)]]
  /\ arcs = {}
  /\ visited = {} /\ roots = {} /\ stack = << >> /\ path = << >> /\ succ = {}
  /\ first = {}
  /\ todo = V /\ deps = {}
  /\ dst \in V /\ layers = << >>
  /\ rows = << >> /\ failedE = {} /\ v = dst /\ ctree = -1
  /\ status = "ttg"

-----------------------------------------------------------------------------
(* The tree transition graph.                                              *)

Unsearched == UNCHANGED <<search, todo, deps, dst, layers, packet>>

(* ttg_line, ttg_nores and the layered graphs.                             *)
BuildTtg ==
  /\ status = "ttg"
  /\ args.type \notin {"rand", "maxdag"}
  /\ CASE args.type = "line" ->
            arcs' = Line(N) /\ first' = LineFirst(N, args.num_trees)
       [] args.type = "nores" ->
            arcs' = {} /\ first' = Vertices(N)
       [] OTHER ->
            /\ arcs' = LayeredDag(args.type, N, args.l1width, args.self_layer)
            /\ first' = LayeredFirst(args.type, N, args.l1width)
  /\ status' = IF IsDag(arcs', N) THEN "tables" ELSE "assert"
  /\ UNCHANGED <<forest, args, fpaths>> /\ Unsearched

(* ttg_max_dag                                                             *)
MaxDag ==
  /\ status = "ttg" /\ args.type = "maxdag"
  /\ arcs' \in Orders(NumL1)
  /\ status' = "label"
  /\ UNCHANGED <<forest, args, fpaths, first>> /\ Unsearched

(* ttg_rand_dag: a complete graph whose cycles will be broken.             *)
RandDag ==
  /\ status = "ttg" /\ args.type = "rand"
  /\ arcs' = Complete(NumL1)
  /\ status' = "check"
  /\ UNCHANGED <<forest, args, fpaths, first>> /\ Unsearched

Searching == UNCHANGED <<forest, args, fpaths, first, todo, deps, dst, layers, packet>>

(* Mutant: the vertices visited by the last search stay visited.           *)
NewSearch_StillVisited ==
  /\ status = "check" /\ ~IsDag(arcs, N)
  /\ roots' = Vertices(N)
  /\ UNCHANGED visited
  /\ stack' = << >> /\ path' = << >> /\ succ' = {}
  /\ status' = "search"
  /\ UNCHANGED arcs /\ Searching

(* while not ttg.is_dag(): a search from every vertex, in random order.    *)
(* roots are the vertices at the bottom of the stack of the code.          *)
NewSearch ==
  /\ status = "check" /\ ~IsDag(arcs, N)
  /\ roots' = Vertices(N)
  /\ visited' = {}
  /\ stack' = << >> /\ path' = << >> /\ succ' = {}
  /\ status' = "search"
  /\ UNCHANGED arcs /\ Searching

Acyclic ==
  /\ status = "check" /\ IsDag(arcs, N)
  /\ status' = "label"
  /\ visited' = {} /\ roots' = {} /\ stack' = << >> /\ path' = << >> /\ succ' = {}
  /\ UNCHANGED arcs /\ Searching

(* stack.pop(): p is the path to a vertex, skipped if it was visited.      *)
Visit(p) ==
  IF Last(p) \in visited
  THEN UNCHANGED <<visited, path, succ, status>>
  ELSE /\ visited' = visited \cup {Last(p)}
       /\ path' = p
       /\ succ' = Successors(arcs, Last(p))
       /\ status' = "succ"

Pop ==
  /\ status = "search" /\ stack # << >>
  /\ stack' = SubSeq(stack, 1, Len(stack) - 1)
  /\ Visit(Last(stack))
  /\ UNCHANGED <<arcs, roots>> /\ Searching

PopRoot ==
  /\ status = "search" /\ stack = << >>
  /\ \E iv \in roots : roots' = roots \ {iv} /\ Visit(<<iv>>)
  /\ UNCHANGED <<arcs, stack>> /\ Searching

Searched ==
  /\ status = "search" /\ stack = << >> /\ roots = {}
  /\ status' = "check"
  /\ UNCHANGED <<arcs, search>> /\ Searching

(* The arcs of the cycle that the arc from the end of path to iw closes.   *)
CycleArcs(iw) ==
  LET idx == CHOOSE k \in DOMAIN path : path[k] = iw
  IN  {<<path[k], path[k + 1]>> : k \in idx..Len(path) - 1} \cup {<<Last(path), iw>>}

(* ttg_rand_break_cycle: nothing if an arc of the cycle is gone already.   *)
BreakCycle(cycle) ==
  IF ~(cycle \subseteq arcs) THEN UNCHANGED arcs
  ELSE \E e \in cycle : arcs' = arcs \ {e}

(* for iw in succ, as the successors were when the vertex was visited.     *)
Successor(iw) ==
  /\ status = "succ" /\ iw \in succ
  /\ succ' = succ \ {iw}
  /\ IF \E k \in DOMAIN path : path[k] = iw
     THEN BreakCycle(CycleArcs(iw)) ELSE UNCHANGED arcs
  /\ stack' = IF iw \in visited THEN stack ELSE Append(stack, Append(path, iw))
  /\ UNCHANGED <<visited, roots, path, status>> /\ Searching

SuccessorsDone ==
  /\ status = "succ" /\ succ = {}
  /\ path' = << >>
  /\ status' = "search"
  /\ UNCHANGED <<arcs, visited, roots, stack, succ>> /\ Searching

(* The asserts of ttg_rand_max_dag_common, and the trees for resilience.   *)
Label ==
  /\ status = "label"
  /\ arcs' = arcs \cup ResilienceArcs(N, args.rand_res)
  /\ first' = Vertices(NumL1)
  /\ status' = IF /\ IsDag(arcs, N)
                  /\ WeaklyConnected(arcs, Vertices(NumL1))
                  /\ arcs \subseteq Complete(NumL1)
               THEN "tables" ELSE "assert"
  /\ UNCHANGED <<forest, args, fpaths>> /\ Unsearched

-----------------------------------------------------------------------------
(* The tables.                                                             *)

(* |V| times avg_pathlen                                                   *)
Distances(d) ==
  [t \in Vertices(N) |->
    Cardinality({p \in V \X (1..Cardinality(V)) : p[2] <= fpaths[d][t][p[1]].len})]

(* Mutant: trees of the same layer need no path in the transition graph.   *)
Transitions_AnyInLayer(L) ==
  LET reach == Closure(arcs, N)
  IN  {p \in Vertices(N) \X Vertices(N) :
        /\ p[1] # p[2]
        /\ \E i, j \in DOMAIN L : i <= j /\ p[1] \in L[i] /\ p[2] \in L[j]
        /\ p[2] \in reach[p[1]] \/ \E i \in DOMAIN L : {p[1], p[2]} \subseteq L[i]}

(* Mutant: only the same and the next layer are offered.                   *)
Transitions_NextLayer(L) ==
  LET reach == Closure(arcs, N)
  IN  {p \in Vertices(N) \X Vertices(N) :
        /\ p[1] # p[2]
        /\ \E i, j \in DOMAIN L : i <= j /\ j <= i + 1 /\ p[1] \in L[i] /\ p[2] \in L[j]
        /\ p[2] \in reach[p[1]]}

(* successors: the trees of the same and later layers that can be reached. *)
Transitions(L) ==
  LET reach == Closure(arcs, N)
  IN  {p \in Vertices(N) \X Vertices(N) :
        /\ p[1] # p[2]
        /\ \E i, j \in DOMAIN L : i <= j /\ p[1] \in L[i] /\ p[2] \in L[j]
        /\ p[2] \in reach[p[1]]}

(* nopkthdr_fwdtable: a packet that came in on one edge of a tree waits    *)
(* for the first edge along the tree, or along one of its successors.      *)
Dependencies(d, L) ==
  LET trans == Transitions(L)
      Outs(t, u) == {fpaths[d][x][u].edge : x \in {t} \cup Successors(trans, t)}
  IN  UNION {{<<in_e, u>> : in_e \in (Tree(t) \cap EdgesAt(u)) \ {fpaths[d][t][u].edge}}
               \X {<<e, Other(u, e)>> : e \in Outs(t, u)} :
             t \in UNION {L[k] : k \in DOMAIN L}, u \in V \ {d}}

(* The asserts on the layers that are left.                                *)
KeptAsWanted(L) ==
  /\ L # << >>
  /\ args.type \in {"rand", "maxdag"} =>
       /\ Len(L) = args.rand_res + 1
       /\ L[1] \subseteq Vertices(NumL1)
       /\ Cardinality(L[1]) = args.num_trees - args.rand_res
       /\ \A k \in 2..Len(L) : L[k] = {NumL1 + k - 2}
  /\ args.type = "line" => \A k \in DOMAIN L : Cardinality(L[k]) = 1

MaxL1 ==
  CASE args.type \in {"rand", "maxdag"} -> args.num_trees - args.rand_res
    [] args.type = "line" -> args.num_trees
    [] OTHER -> args.maxl1

(* edst_fwdtable_dfr for the destination d.  The tables of dst are kept.   *)
FwdtableDfr(d) ==
  LET L    == Layers(arcs, N, first)
      dist == Distances(d)
  IN  /\ status = "tables" /\ d \in todo
      /\ todo' = todo \ {d}
      /\ IF LayersDisjoint(L) /\ Size(L) = N
         THEN \E kept \in IF args.num_trees < 0 THEN {L}
                          ELSE {Kept(L, top, args.type) :
                                  top \in TopTrees(L, N, dist, args.num_trees, MaxL1)} :
                /\ layers' = IF d = dst THEN kept ELSE layers
                /\ deps' = deps \cup Dependencies(d, kept)
                /\ status' = IF args.num_trees < 0 \/ KeptAsWanted(kept)
                             THEN "tables" ELSE "assert"
         ELSE status' = "assert" /\ UNCHANGED <<layers, deps>>
      /\ UNCHANGED <<forest, args, fpaths, arcs, search, first, dst, packet>>

-----------------------------------------------------------------------------
(* One packet.                                                             *)

(* A switch has the trees by layer, those of a layer by distance to dst,   *)
(* equal distances in random order (TTG_SORT.PERF).                        *)
SortedBy(u) ==
  LET trees   == UNION {layers[k] : k \in DOMAIN layers}
      layerOf == [t \in trees |-> CHOOSE k \in DOMAIN layers : t \in layers[k]]
      far     == [t \in trees |-> fpaths[dst][t][u].len]
  IN  {s \in [1..Cardinality(trees) -> trees] :
         \A i, j \in DOMAIN s : i < j =>
           /\ s[i] # s[j]
           /\ \/ layerOf[s[i]] < layerOf[s[j]]
              \/ layerOf[s[i]] = layerOf[s[j]] /\ far[s[i]] <= far[s[j]]}

(* populate_topk_cache: the trees of the first layer whose path is at most *)
(* 1.35 times the shortest, or else those with the best path.  There are   *)
(* never more than 8.                                                      *)
TopK(u) ==
  LET len   == [t \in layers[1] |-> fpaths[dst][t][u].len]
      best  == {t \in layers[1] : \A x \in layers[1] : len[t] <= len[x]}
      close == {t \in layers[1] : 100 * len[t] <= 135 * Hops(E, dst)[u]}
  IN  IF close = {} THEN best ELSE close

(* The entries of a switch for each current tree: the trees they lead to,  *)
(* with their places in the row.  First the tree itself, and then its      *)
(* successors, in the order s.                                             *)
RowsOf(s) ==
  LET trans  == Transitions(layers)
      UpTo(x) == {s[i] : i \in {i \in DOMAIN s : \E j \in DOMAIN s : s[j] = x /\ i <= j}}
  IN  [t \in Range(s) |->
        LET succs == Successors(trans, t)
        IN  [x \in {t} \cup succs |->
              IF x = t THEN 0 ELSE Cardinality(UpTo(x) \cap succs)]]

(* Some edges fail, and a packet starts at u.                              *)
(* Nothing reads arcs, first and deps after this.                          *)
Send(u) ==
  /\ status = "tables" /\ todo = {}
  /\ u # dst
  /\ v' = u
  /\ ctree' \in TopK(u)
  /\ LET rowsOf == [w \in V \ {dst} |-> {RowsOf(s) : s \in SortedBy(w)}]
     IN  rows' \in {r \in [V \ {dst} -> UNION Range(rowsOf)] :
                      \A w \in V \ {dst} : r[w] \in rowsOf[w]}
  /\ failedE' \in {F \in SUBSET E : Cardinality(F) <= MaxFailures}
  /\ status' = "walking"
  /\ deps' = {} /\ arcs' = {} /\ first' = {}
  /\ UNCHANGED <<forest, args, fpaths, search, todo, dst, layers>>

Row == rows[v][ctree]

Out(x) == fpaths[dst][x][v].edge

Up(x) == Out(x) \notin failedE

Walk == UNCHANGED <<forest, args, fpaths, arcs, search, first, todo, deps, dst, layers, rows, failedE>>

Forward ==
  /\ status = "walking" /\ v # dst
  /\ \E x \in DOMAIN Row :
       /\ Up(x)
       /\ \A y \in DOMAIN Row : Row[y] < Row[x] => ~Up(y)
       /\ ctree' = x
       /\ v' = Other(v, Out(x))
  /\ UNCHANGED status /\ Walk

Drop ==
  /\ status = "walking" /\ v # dst
  /\ \A x \in DOMAIN Row : ~Up(x)
  /\ status' = "dropped"
  /\ UNCHANGED <<v, ctree>> /\ Walk

Arrive ==
  /\ status = "walking" /\ v = dst
  /\ status' = "delivered"
  /\ UNCHANGED <<v, ctree>> /\ Walk

BreakCycles ==
  \/ NewSearch \/ Acyclic \/ Pop \/ PopRoot \/ Searched
  \/ \E iw \in succ : Successor(iw)
  \/ SuccessorsDone

Hop == Forward \/ Drop \/ Arrive

Next ==
  \/ BuildTtg \/ MaxDag \/ RandDag \/ BreakCycles \/ Label
  \/ \E d \in todo : FwdtableDfr(d)
  \/ \E u \in V : Send(u)
  \/ Hop

(* The loops of two single-threaded programs go on.                        *)
Spec == Init /\ [][Next]_vars /\ WF_vars(BreakCycles) /\ WF_vars(Hop)

-----------------------------------------------------------------------------
(* No assertion of the construction fails, whatever cycles are broken and  *)
(* whatever trees are left out: the graph is acyclic and connected, its    *)
(* layers hold every tree once, and the trees the resilience rests on are  *)
(* among those that are kept.                                              *)
AssertsHold == status # "assert"

(* A packet of a destination with k layers of trees survives any k - 1     *)
(* failed edges.                                                           *)
LayersResilient == Cardinality(failedE) < Len(layers) => status # "dropped"

(* The tables of all destinations together let no edge wait, by way of     *)
(* others, for itself: every set of edges in use has one that waits for    *)
(* none of them.                                                           *)
DeadlockFree ==
  LET Waiting[S \in SUBSET {p[1] : p \in deps}] ==
        LET still == {c \in S : \E p \in deps : p[1] = c /\ p[2] \in S}
        IN  IF still = S THEN S ELSE Waiting[still]
  IN  Waiting[{p[1] : p \in deps}] = {}

(* The random search for cycles ends, and so does every walk.              *)
Terminates ==
  /\ status = "check" ~> status = "label"
  /\ status = "walking" ~> status \in {"delivered", "dropped"}
=============================================================================

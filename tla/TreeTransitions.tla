-------------------------- MODULE TreeTransitions ---------------------------
(***************************************************************************)
(* The tree transition graphs of tree_alg.py (TTG): a packet that meets a  *)
(* failure on one tree may go on along the trees the graph leads to.  The  *)
(* trees are their indices 0 .. n - 1; a graph is its set of arcs.         *)
(***************************************************************************)
EXTENDS Integers, Sequences, FiniteSets

Vertices(n) == 0..n - 1

(* edges = [(i, j) ... if i != j]                                          *)
Complete(n) == {a \in Vertices(n) \X Vertices(n) : a[1] # a[2]}

Successors(arcs, x) == {a[2] : a \in {a \in arcs : a[1] = x}}

(* Closure[x]: the trees with a finite ttg.shortest_paths(x, _), x itself  *)
(* among them.                                                             *)
Closure(arcs, n) ==
  LET within[k \in 0..n] ==
        IF k = 0 THEN [x \in Vertices(n) |-> {x}]
        ELSE LET prev == within[k - 1]
             IN  [x \in Vertices(n) |->
                   prev[x] \cup UNION {Successors(arcs, y) : y \in prev[x]}]
  IN  within[n]

(* ttg.is_dag()                                                            *)
IsDag(arcs, n) ==
  LET reach == Closure(arcs, n)
  IN  \A a \in arcs : a[1] \notin reach[a[2]]

(* is_connected(igraph.WEAK) of the subgraph of the vertices in W.         *)
WeaklyConnected(arcs, W) ==
  \A X \in SUBSET W :
    X # {} /\ X # W => \E a \in arcs : {a[1], a[2]} \subseteq W /\ (a[1] \in X) # (a[2] \in X)

-----------------------------------------------------------------------------
(* ttg_line: with num_trees the trees that may be left out all begin.      *)
Line(n) == {<<i, i + 1>> : i \in 0..n - 2}

LineFirst(n, num_trees) == IF num_trees < 0 THEN {0} ELSE 0..n - num_trees

(* The three next_width_funcs; round(x / 2.0) goes away from zero.         *)
NextWidth(type, x) ==
  CASE type = "mlayer" -> IF x > 1 THEN (x + 1) \div 2 ELSE 1
    [] type = "alayer" -> IF x - 2 > 1 THEN x - 2 ELSE 1
    [] type = "t"      -> 1

(* ttg_layered_dag: the trees in order, in layers of these widths until    *)
(* there are none left.                                                    *)
LayersOf(type, n, l1width) ==
  LET width[k \in 1..n] ==
        IF k = 1 THEN l1width ELSE LET prev == width[k - 1] IN NextWidth(type, prev)
      upTo[k \in 0..n] ==
        IF k = 0 THEN 0 ELSE LET prev == upTo[k - 1] IN prev + width[k]
      number == CHOOSE k \in 1..n : upTo[k - 1] < n /\ n <= upTo[k]
  IN  [k \in 1..number |-> {i \in Vertices(n) : upTo[k - 1] <= i /\ i < upTo[k]}]

LayeredDag(type, n, l1width, self_layer) ==
  LET L == LayersOf(type, n, l1width)
  IN  (UNION {L[k] \X L[k + 1] : k \in 1..Len(L) - 1})
        \cup {a \in Line(n) : self_layer /\ \E k \in DOMAIN L : {a[1], a[2]} \subseteq L[k]}

LayeredFirst(type, n, l1width) == LayersOf(type, n, l1width)[1]

(* ttg_rand_max_dag_common: all trees of the random part lead to the       *)
(* first of the others, and each of those to the next.                     *)
ResilienceArcs(n, rand_res) ==
  IF rand_res = 0 THEN {}
  ELSE {<<i, n - rand_res>> : i \in 0..n - rand_res - 1}
         \cup {<<i, i + 1>> : i \in n - rand_res..n - 2}

(* ttg_rand_dag_helper_opt: what is left of the complete graph without a   *)
(* minimal feedback arc set is an order of its vertices.                   *)
Orders(n) == {{a \in Complete(n) : rank[a[1]] < rank[a[2]]} :
                rank \in {f \in [Vertices(n) -> 1..n] :
                            \A x, y \in Vertices(n) : x # y => f[x] # f[y]}}

-----------------------------------------------------------------------------
(* edst_fwdtable_dfr: the layers of the graph, each the successors of the  *)
(* one before that are not in it.                                          *)
Layers(arcs, n, first) ==
  LET layer[k \in 0..n] ==
        IF k = 0 THEN first
        ELSE LET prev == layer[k - 1]
             IN  (UNION {Successors(arcs, x) : x \in prev}) \ prev
      some == {k \in 0..n : layer[k] # {}}
  IN  [k \in 1..Cardinality(some) |-> layer[k - 1]]

LayersDisjoint(L) == \A i, j \in DOMAIN L : i < j => L[i] \cap L[j] = {}

Size(L) == LET upTo[k \in 0..Len(L)] ==
                 IF k = 0 THEN 0 ELSE upTo[k - 1] + Cardinality(L[k])
           IN  upTo[Len(L)]

(* avg_layer_distance: the trees by distance; those of equal distance by   *)
(* layer, in the first layer by index, in the others in any order.         *)
ByDistance(L, n, dist) ==
  LET layerOf(x) == CHOOSE k \in DOMAIN L : x \in L[k]
      Before(x, y) ==
        \/ dist[x] < dist[y]
        \/ dist[x] = dist[y] /\ layerOf(x) < layerOf(y)
        \/ dist[x] = dist[y] /\ layerOf(x) = layerOf(y) /\ (x < y \/ layerOf(x) > 1)
  IN  {s \in [1..n -> Vertices(n)] :
         \A i, j \in 1..n : i < j => s[i] # s[j] /\ Before(s[i], s[j])}

(* Mutant: the shortest trees are kept, whatever layer they are in.        *)
TopTrees_NoSwap(L, n, dist, num_trees, maxl1) ==
  {{s[k] : k \in 1..num_trees} : s \in ByDistance(L, n, dist)}

(* The trees that are kept: the num_trees shortest, and while more than    *)
(* maxl1 of them are in the first layer the longest of those gives way to  *)
(* the next tree of another layer.                                         *)
TopTrees(L, n, dist, num_trees, maxl1) ==
  LET Longest(X) == {x \in X : \A y \in X : dist[y] <= dist[x]}
      Swapped(top, new) ==
        IF Cardinality(top \cap L[1]) > maxl1 /\ new \notin L[1]
        THEN {(top \ {bad}) \cup {new} : bad \in Longest(top \cap L[1])}
        ELSE {top}
      Tops(s) ==
        LET tops[k \in num_trees..n] ==
              IF k = num_trees THEN {{s[i] : i \in 1..k}}
              ELSE LET prev == tops[k - 1] IN UNION {Swapped(top, s[k]) : top \in prev}
        IN  tops[n]
  IN  UNION {Tops(s) : s \in ByDistance(L, n, dist)}

(* The k-th of the numbers in S.                                           *)
Nth(S, k) == CHOOSE x \in S : Cardinality({y \in S : y <= x}) = k

(* The layers of the trees that are kept, without those left empty; for a  *)
(* line whose first layer still has several trees, one tree a layer.       *)
Kept(L, top, type) ==
  LET some    == {k \in DOMAIN L : L[k] \cap top # {}}
      nlayers == [k \in 1..Cardinality(some) |-> L[Nth(some, k)] \cap top]
      byIndex == [k \in 1..Cardinality(top) |-> {Nth(top, k)}]
  IN  IF type = "line" /\ Cardinality(nlayers[1]) > 1 THEN byIndex ELSE nlayers
=============================================================================

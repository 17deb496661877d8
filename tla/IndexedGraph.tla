---------------------------- MODULE IndexedGraph ----------------------------
(***************************************************************************)
(* The graph of the vendored igraph (type_indexededgelist.c), as operators *)
(* on a graph: the ends of the edges in from and to, by edge id; the edge  *)
(* ids sorted by first and by second end in oi and ii; where the edges of  *)
(* each vertex begin in them in os and is.  name stands for the attributes *)
(* of the edges.  Vertices and edges are numbered from zero.               *)
(***************************************************************************)
EXTENDS Integers, SequencesExt

(* VECTOR(v)[i]                                                            *)
At(v, i) == v[i + 1]

Ids(m) == [i \in 1..m |-> i - 1]

(* One bucket sort in igraph_vector_order: the ids by key, those of a key  *)
(* in the reverse of their order, as each is hung in front of the last.    *)
Pass(ids, key, nodes) ==
  FlattenSeq([k \in 1..nodes + 1 |->
    Reverse(SelectSeq(ids, LAMBDA e : At(key, e) = k - 1))])

(* Mutant: the second sort takes the ids as they come, not from the last.  *)
VectorOrder_Forward(v, v2, nodes) ==
  Pass(Pass(Ids(Len(v)), v2, nodes), v, nodes)

VectorOrder(v, v2, nodes) ==
  Pass(Reverse(Pass(Ids(Len(v)), v2, nodes)), v, nodes)

(* igraph_i_create_start: an entry for every vertex, and one more, which   *)
(* the vertices after the last with an edge share.                         *)
CreateStart(el, index, nodes) ==
  LET Edge(i) == At(el, At(index, i))
      Start(res, i) == res \o [x \in 1..Edge(i) - Edge(Last(res)) |-> i]
      starts == FoldLeft(Start, [x \in 1..Edge(0) + 1 |-> 0], Tail(Ids(Len(el))))
  IN  IF el = << >> THEN [x \in 1..nodes + 1 |-> 0]
      ELSE starts \o [x \in 1..nodes - Edge(Last(starts)) |-> Len(el)]

(* The graph with other edges, and the index made anew.                    *)
WithEdges(g, from, to, name) ==
  LET oi == VectorOrder(from, to, g.n)
      ii == VectorOrder(to, from, g.n)
  IN  [g EXCEPT !.from = from, !.to = to, !.name = name, !.oi = oi, !.ii = ii,
                !.os = CreateStart(from, oi, g.n), !.is = CreateStart(to, ii, g.n)]

EmptyGraph(directed) ==
  [n |-> 0, directed |-> directed, from |-> << >>, to |-> << >>, name |-> << >>,
   oi |-> << >>, ii |-> << >>, os |-> <<0>>, is |-> <<0>>]

AddVertices(g, nv) ==
  LET more == [x \in 1..nv |-> Len(g.from)]
  IN  [g EXCEPT !.n = @ + nv, !.os = @ \o more, !.is = @ \o more]

(* An undirected edge goes from its larger end to its smaller one.         *)
AddEdges(g, edges, names) ==
  LET Directed(e) == IF g.directed \/ e[1] > e[2] THEN e ELSE <<e[2], e[1]>>
  IN  WithEdges(g, g.from \o [k \in DOMAIN edges |-> Directed(edges[k])[1]],
                   g.to \o [k \in DOMAIN edges |-> Directed(edges[k])[2]],
                   g.name \o names)

(* Mutant: the attributes stay where they were.                            *)
DeleteEdges_NamesStay(g, marked) ==
  LET idx == SelectSeq(Ids(Len(g.from)), LAMBDA e : e \notin marked)
  IN  WithEdges(g, [k \in DOMAIN idx |-> At(g.from, idx[k])],
                   [k \in DOMAIN idx |-> At(g.to, idx[k])],
                   SubSeq(g.name, 1, Len(idx)))

(* The edges that stay move together: idx are their old ids.               *)
DeleteEdges(g, marked) ==
  LET idx == SelectSeq(Ids(Len(g.from)), LAMBDA e : e \notin marked)
  IN  WithEdges(g, [k \in DOMAIN idx |-> At(g.from, idx[k])],
                   [k \in DOMAIN idx |-> At(g.to, idx[k])],
                   [k \in DOMAIN idx |-> At(g.name, idx[k])])

-----------------------------------------------------------------------------
(* What the other parts of the library ask of a graph.                     *)

(* The edge ids from start[node] up to start[node + 1].                    *)
Slice(index, start, node) == SubSeq(index, At(start, node) + 1, At(start, node + 1))

OutEdges(g, node) == Slice(g.oi, g.os, node)
InEdges(g, node)  == Slice(g.ii, g.is, node)

Mode(g, mode) == IF g.directed THEN mode ELSE "all"

(* igraph_incident                                                         *)
Incident(g, node, mode) ==
  (IF Mode(g, mode) # "in" THEN OutEdges(g, node) ELSE << >>)
    \o (IF Mode(g, mode) # "out" THEN InEdges(g, node) ELSE << >>)

(* IGRAPH_OTHER                                                            *)
Opposite(g, edge, node) ==
  IF At(g.to, edge) = node THEN At(g.from, edge) ELSE At(g.to, edge)

(* The loops of igraph_neighbors over two sorted vectors.                  *)
Merge(a, b) ==
  LET m[i \in 1..Len(a) + 1, j \in 1..Len(b) + 1] ==
        IF i > Len(a) THEN SubSeq(b, j, Len(b))
        ELSE IF j > Len(b) THEN SubSeq(a, i, Len(a))
        ELSE IF a[i] < b[j] THEN <<a[i]>> \o m[i + 1, j]
        ELSE IF a[i] > b[j] THEN <<b[j]>> \o m[i, j + 1]
        ELSE <<a[i], b[j]>> \o m[i + 1, j + 1]
  IN  m[1, 1]

Neighbors(g, node, mode) ==
  LET out == [k \in DOMAIN OutEdges(g, node) |-> At(g.to, OutEdges(g, node)[k])]
      in  == [k \in DOMAIN InEdges(g, node) |-> At(g.from, InEdges(g, node)[k])]
  IN  CASE ~g.directed     -> out \o in
        [] Mode(g, mode) = "out" -> out
        [] Mode(g, mode) = "in"  -> in
        [] OTHER           -> Merge(out, in)

=============================================================================

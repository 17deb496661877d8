------------------------------ MODULE EdgeList ------------------------------
(***************************************************************************)
(* What the users of a graph rely on: a number of vertices, and a sequence *)
(* of named edges in which the id of an edge is its place.  Deleting edges *)
(* closes the gaps and moves nothing past anything else.                   *)
(***************************************************************************)
EXTENDS Integers, Sequences

CONSTANTS Batches,      \* what may be added at a time: sequences of pairs of vertices
          MaxVertices

VARIABLES directed,
          n,        \* number of vertices
          edges,    \* records: the ends, a set unless directed, and the name
          born      \* number of edges there have ever been

vars == <<directed, n, edges, born>>

Ends(a, b) == IF directed THEN <<a, b>> ELSE {a, b}

Init == directed \in BOOLEAN /\ n = 0 /\ edges = << >> /\ born = 0

AddVertices(nv) ==
  /\ n + nv <= MaxVertices
  /\ n' = n + nv
  /\ UNCHANGED <<directed, edges, born>>

AddEdges(pairs) ==
  /\ \A k \in DOMAIN pairs : pairs[k][1] < n /\ pairs[k][2] < n
  /\ edges' = edges \o [k \in DOMAIN pairs |->
                          [ends |-> Ends(pairs[k][1], pairs[k][2]), name |-> born + k]]
  /\ born' = born + Len(pairs)
  /\ UNCHANGED <<directed, n>>

(* The edges that are left, as they were.                                  *)
DeleteEdges ==
  /\ edges' = SelectSeq(edges, LAMBDA e : \E k \in DOMAIN edges' : edges'[k] = e)
  /\ UNCHANGED <<directed, n, born>>

Next ==
  \/ \E nv \in 1..MaxVertices : AddVertices(nv)
  \/ \E pairs \in Batches : AddEdges(pairs)
  \/ DeleteEdges

Spec == Init /\ [][Next]_vars
=============================================================================

------------------------------ MODULE Topology ------------------------------
(***************************************************************************)
(* The network every program of the repository works on: an undirected     *)
(* multigraph of switches.  build_graph makes one Edge object per cable    *)
(* (parallel cables are different Edges) and gives each end of it a port.  *)
(* A port number of a switch and the Edge plugged into it determine each   *)
(* other (v.edges[port], e.p1, e.p2), so a port of v is represented here   *)
(* by its edge.                                                            *)
(***************************************************************************)
EXTENDS Integers, FiniteSets

CONSTANTS
  V,      \* the switches
  E,      \* the edges (cables between two switches)
  Ends    \* Ends[e] is the set {e.v1, e.v2}

(* A cable joins two different switches; parallel cables are allowed.      *)
ASSUME TopologyAssumption ==
  /\ IsFiniteSet(V) /\ V # {}
  /\ IsFiniteSet(E)
  /\ Ends \in [E -> SUBSET V]
  /\ \A e \in E : \E u, v \in V : u # v /\ Ends[e] = {u, v}

(* v.edges.itervalues(): the edges plugged into v.                         *)
EdgesAt(v) == {e \in E : v \in Ends[e]}

(* Edge.get_other: the switch at the far end of e, seen from v.            *)
Other(v, e) == CHOOSE w \in Ends[e] : w # v

(***************************************************************************)
(* Connectivity, stated without walks: a set of edges connects a set of    *)
(* vertices when it crosses every cut of it.                               *)
(***************************************************************************)
Splits(X, W) == W \cap X # {} /\ W \ X # {}

Connects(T, W) ==
  \A X \in SUBSET W : Splits(X, W) => \E e \in T : Splits(X, Ends[e] \cap W)

(* A spanning tree of the network: |V|-1 edges that connect all of V.      *)
SpanningTree(T) ==
  /\ T \subseteq E
  /\ Cardinality(T) = Cardinality(V) - 1
  /\ Connects(T, V)
=============================================================================

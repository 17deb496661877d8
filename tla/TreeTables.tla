----------------------------- MODULE TreeTables -----------------------------
(***************************************************************************)
(* The forwarding tables tree_alg.py computes for one destination from a   *)
(* forest of trees: edst_fwdtable_normal and adst_fwdtable.                *)
(*                                                                         *)
(* A tree is what the tables use of it, forest_paths: for every switch the *)
(* first edge of its path to Dst.  nh[t][v] is fpaths[v][t].path[0].       *)
(***************************************************************************)
EXTENDS Topology, Sequences

CONSTANTS
  Dst,              \* dst
  DefaultTrees,     \* dtrees: shortest-path trees, edges shared freely
  ResilientTrees    \* rtrees: the edge- or arc-disjoint trees

ASSUME TreesAssumption ==
  /\ Dst \in V
  /\ IsFiniteSet(DefaultTrees) /\ IsFiniteSet(ResilientTrees)
  /\ DefaultTrees \cap ResilientTrees = {}

Trees == DefaultTrees \cup ResilientTrees
Sources == V \ {Dst}
NumRes == Cardinality(ResilientTrees)

-----------------------------------------------------------------------------
(* The trees.                                                              *)

(* Every switch has a first edge, and no set of switches forwards only     *)
(* among itself: all paths end at Dst ("No partial trees for now").        *)
Branching(f) ==
  /\ \A v \in Sources : v \in Ends[f[v]]
  /\ \A S \in SUBSET Sources :
       S # {} => \E v \in S : Other(v, f[v]) \notin S

Branchings == {f \in [Sources -> E] : Branching(f)}

(* edst_forest: no edge is in two trees.                                   *)
EdgeDisjoint(nh) ==
  \A t, u \in ResilientTrees : t # u =>
    \A v, w \in Sources : nh[t][v] # nh[u][w]

(* adst_forest: the two directions of an edge may be in different trees,   *)
(* the same direction may not.                                             *)
ArcDisjoint(nh) ==
  \A t, u \in ResilientTrees : t # u =>
    \A v \in Sources : nh[t][v] # nh[u][v]

(* len(fpaths[v][t].path) for all v: hops along f to Dst.                  *)
PathLens(f) ==
  LET within[n \in 0..Cardinality(V)] ==
        IF n = 0 THEN {Dst}
        ELSE LET near == within[n - 1]
             IN  near \cup {v \in Sources : Other(v, f[v]) \in near}
  IN  [v \in V |-> Cardinality({n \in 0..Cardinality(V) : v \notin within[n]})]

-----------------------------------------------------------------------------
(* The tables.  A row holds, for one switch and one current tree, the      *)
(* entries in matching order: go on along tree up, if it and its edge are  *)
(* good, and mark the trees in mark as failed.                             *)

(* random.shuffle then a stable sort by path length: any order of rtrees   *)
(* in which lengths do not decrease.  len[t] is the length along t.        *)
Orders(len) ==
  {s \in [1..NumRes -> ResilientTrees] :
     \A i, j \in 1..NumRes : i < j => s[i] # s[j] /\ len[s[i]] <= len[s[j]]}

(* Mutant: used_iT.add before the entry is appended.                       *)
Marked_OwnToo(trees) ==
  [i \in 1..Len(trees) |-> [up |-> trees[i], mark |-> {trees[j] : j \in 1..i}]]

(* Mutant: nothing is marked, as if mark_failed were not carried.          *)
Marked_Nothing(trees) ==
  [i \in 1..Len(trees) |-> [up |-> trees[i], mark |-> {}]]

(* used_iT accumulates the trees of the entries above.                     *)
Marked(trees) ==
  [i \in 1..Len(trees) |-> [up |-> trees[i], mark |-> {trees[j] : j \in 1..(i - 1)}]]

(* Mutant: only the trees after the current one are alternatives.          *)
EdstRow_LongerOnly(t, s) ==
  LET at == CHOOSE i \in 1..NumRes : s[i] = t
  IN  Marked([i \in 1..(NumRes - at + 1) |-> s[at + i - 1]])

(* edst_fwdtable_normal: the current tree, then the others in order s.     *)
EdstRow(t, s) ==
  IF t \in DefaultTrees
  THEN Marked([i \in 1..(NumRes + 1) |-> IF i = 1 THEN t ELSE s[i - 1]])
  ELSE LET at == CHOOSE i \in 1..NumRes : s[i] = t
       IN  Marked([i \in 1..NumRes |->
                     IF i = 1 THEN t ELSE IF i <= at THEN s[i - 1] ELSE s[i]])

(* arc2tree[ov, e]: the trees that use the edge of t at v the other way.   *)
ReverseTrees(nh, v, t) ==
  {u \in ResilientTrees :
     /\ Other(v, nh[t][v]) # Dst
     /\ nh[u][Other(v, nh[t][v])] = nh[t][v]}

(* One iteration of adst_fwdtable: tree t, then its reverse tree, each     *)
(* unless already used.                                                    *)
WithReverse(nh, v, trees, t) ==
  LET used(s) == {s[i] : i \in 1..Len(s)}
      longer  == Append(trees, t)
      rev     == ReverseTrees(nh, v, t) \ used(longer)
  IN  IF t \in used(trees) THEN trees
      ELSE IF rev = {} THEN longer
      ELSE Append(longer, CHOOSE u \in rev : TRUE)

AdstRow(nh, v, t, s) ==
  LET row[i \in 0..NumRes] ==
        IF i = 0 THEN WithReverse(nh, v, << >>, t)
        ELSE WithReverse(nh, v, row[i - 1], s[i])
  IN  Marked(row[NumRes])

(* Entries from no tree: the default trees if there are any.               *)
StartTrees == IF DefaultTrees # {} THEN DefaultTrees ELSE ResilientTrees

(* The row of switch v for current tree t, given the order s of v.         *)
RowOf(model, nh, v, t, s) ==
  IF model = "edst" THEN EdstRow(t, s) ELSE AdstRow(nh, v, t, s)
=============================================================================

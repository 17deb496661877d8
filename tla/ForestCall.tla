----------------------------- MODULE ForestCall -----------------------------
(***************************************************************************)
(* The arguments of edst_forest, common to the algorithm and to its        *)
(* implementation with disjoint sets.                                      *)
(***************************************************************************)
EXTENDS Topology, Sequences

CONSTANTS
  QuitEarly,   \* quit_early: stop once NumTrees trees are built
  NumTrees     \* num_trees

ASSUME ForestArguments == QuitEarly \in BOOLEAN /\ NumTrees \in Int
=============================================================================

----------------------------- MODULE MCDfrTrees -----------------------------
(***************************************************************************)
(* Three switches and eight cables, four edge-disjoint trees: a path over  *)
(* each switch and one more over the second.  All have the same average    *)
(* path length, so that main may have them in any order.                   *)
(***************************************************************************)
EXTENDS DfrTrees

ThreeV == 1..3
EightE == 1..8
EightEnds == << {1, 2}, {1, 2}, {1, 2}, {2, 3}, {2, 3}, {2, 3}, {1, 3}, {1, 3} >>

TwoForests == {<< {1, 4}, {3, 7}, {6, 8}, {2, 5} >>, << {6, 8}, {2, 5}, {1, 4}, {3, 7} >>}

Arg(type, l1width, self_layer, rand_res, num_trees, maxl1) ==
  [type |-> type, l1width |-> l1width, self_layer |-> self_layer,
   rand_res |-> rand_res, num_trees |-> num_trees, maxl1 |-> maxl1]

SomeArgs ==
  {Arg("line", 0, FALSE, -1, -1, -1), Arg("line", 0, FALSE, -1, 3, -1),
   Arg("nores", 0, FALSE, -1, 2, -1),
   Arg("mlayer", 2, TRUE, -1, 3, 1), Arg("alayer", 3, FALSE, -1, 2, 1),
   Arg("t", 2, FALSE, -1, -1, -1),
   Arg("rand", 0, FALSE, 1, -1, -1), Arg("rand", 0, FALSE, 2, 3, -1),
   Arg("maxdag", 0, FALSE, 1, 3, -1)}
=============================================================================

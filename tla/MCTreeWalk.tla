----------------------------- MODULE MCTreeWalk -----------------------------
(***************************************************************************)
(* Instances of TreeWalk: every forest of a small network, one forest of a *)
(* larger one, and every table built from it.                              *)
(***************************************************************************)
EXTENDS TreeWalk

(* Four switches, ring with both diagonals and a doubled cable.            *)
RingV == 1..4
RingE == 1..7
RingEnds == << {1, 2}, {2, 3}, {3, 4}, {4, 1}, {1, 3}, {2, 4}, {1, 2} >>

(* Six switches, each linked to all but one other: the network of degree  *)
(* four on which every arc is in one of four arc-disjoint trees.           *)
OctaV == 0..5
OctaE == 0..11
OctaEnds ==
  [e \in OctaE |->
     << {0, 1}, {1, 4}, {0, 2}, {1, 3}, {0, 3}, {4, 5},
        {2, 4}, {3, 4}, {0, 5}, {3, 5}, {1, 2}, {2, 5} >>[e + 1]]

(* One forest of it: the first edge of switches 1 to 5 on each tree.       *)
OctaForest ==
  << << 10, 6, 9, 7, 8 >>,
     << 0, 11, 7, 1, 9 >>,
     << 1, 2, 3, 5, 11 >>,
     << 3, 10, 4, 6, 5 >> >>

OctaSpec == nh = OctaForest /\ Spec
=============================================================================

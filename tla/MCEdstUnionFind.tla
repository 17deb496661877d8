-------------------------- MODULE MCEdstUnionFind --------------------------
(***************************************************************************)
(* An instance of EdstUnionFind in which the hub gets busy.                *)
(***************************************************************************)
EXTENDS EdstUnionFind

(* Switch 1 has five cables, two of them to switch 2: picking three of     *)
(* them makes it busy, with busy edges left to draw from.  The eight       *)
(* cables are just enough for two disjoint trees, and not after every      *)
(* first one.                                                              *)
HubV == 1..5
HubE == 1..8
HubEnds == << {1, 2}, {1, 2}, {1, 3}, {1, 4}, {1, 5}, {2, 3}, {3, 4}, {4, 5} >>
=============================================================================

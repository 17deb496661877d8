---------------------------- MODULE MCPlinkoWalk ----------------------------
(***************************************************************************)
(* Instances of PlinkoWalk.                                                *)
(***************************************************************************)
EXTENDS PlinkoWalk

(* A wheel: four switches in a ring, the fifth joined to three of them.    *)
WheelV == 1..5
WheelE == 1..7
WheelEnds == << {1, 2}, {2, 3}, {3, 4}, {1, 4}, {1, 5}, {2, 5}, {3, 5} >>

RunArgs(sources, rounds, routing, aware, dfr) ==
  [sources |-> sources, rounds |-> rounds, fwd_routing |-> routing,
   compression_aware |-> aware, dfr |-> dfr]

(* Source routes of one switch, hop-by-hop routes of three switches that   *)
(* share their tables, and three rounds for the nearest of them.           *)
WheelArgs ==
  {RunArgs({3}, 2, "src", FALSE, FALSE),
   RunArgs({2, 3, 5}, 2, "hop-by-hop", TRUE, FALSE),
   RunArgs({5}, 3, "hop-by-hop", TRUE, FALSE)}

(* A ring of four with a switch that joins two opposite ones by a second   *)
(* way: going round it crosses a port twice.                               *)
LoopV == 1..5
LoopE == 1..6
LoopEnds == << {2, 3}, {1, 2}, {3, 4}, {1, 4}, {2, 5}, {4, 5} >>
LoopArgs == {RunArgs({3}, 2, "src", FALSE, TRUE)}
=============================================================================

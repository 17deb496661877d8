----------------------------- MODULE MCPlinkoCdg -----------------------------
(***************************************************************************)
(* A ring of four with a second way between two opposite switches, as in   *)
(* MCPlinkoWalk.  Ports are numbered from 1 at every switch, the cables of *)
(* the list being plugged in from the last to the first.                   *)
(***************************************************************************)
EXTENDS PlinkoCdg

LoopV == 1..5
LoopE == 1..6
LoopEnds == << {2, 3}, {1, 2}, {3, 4}, {1, 4}, {2, 5}, {4, 5} >>

LoopArgs ==
  {[sources |-> {3}, rounds |-> 2, fwd_routing |-> "src",
    compression_aware |-> FALSE, dfr |-> FALSE]}

LoopPorts ==
  [w \in LoopV |->
    [e \in {f \in LoopE : w \in LoopEnds[f]} |->
      Cardinality({f \in LoopE : w \in LoopEnds[f] /\ f >= e})]]
=============================================================================

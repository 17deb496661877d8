--------------------------- MODULE MCPriorityDict ---------------------------
(***************************************************************************)
(* An instance of PriorityDict: three keys, two priorities, so that a key  *)
(* can be stale below, above and beside its current pair.                  *)
(***************************************************************************)
EXTENDS PriorityDict

MCPriority == 1..2
=============================================================================

-------------------------- MODULE MCFlowThroughput --------------------------
(***************************************************************************)
(* Three switches in a triangle and seven flows between hosts y, w (at the *)
(* first switch), z, x and u.  Some may be detoured or have no path.       *)
(***************************************************************************)
EXTENDS FlowThroughput

Flows == {"a", "b", "c", "d", "f", "g", "h"}

(* The ports of the direct path of each flow, and of the detour of three.  *)
Direct ==
  [a |-> {"y", "s1-s3", "s3-x"}, b |-> {"y", "s1-s3", "s3-x"},
   c |-> {"w", "s1-s3", "s3-x"}, d |-> {"z", "s2-s3", "s3-x"},
   f |-> {"y", "s1-s2", "s2-z"}, g |-> {"w", "s1-s2", "s2-z"},
   h |-> {"z", "s2-s3", "s3-u"}]

Detour == [a |-> {"y", "s1-s2", "s2-s3", "s3-x"},
           c |-> {"w", "s1-s2", "s2-s3", "s3-x"},
           g |-> {"w", "s1-s3", "s3-s2", "s2-z"}]

(* Any flows but h may be lost, any of three detoured.                     *)
TrianglePaths ==
  {[g \in Flows |-> IF g \in lost THEN {}
                    ELSE IF g \in detoured THEN Detour[g] ELSE Direct[g]]
     : lost \in SUBSET (Flows \ {"h"}), detoured \in SUBSET DOMAIN Detour}

TrianglePorts == UNION {Direct[g] : g \in Flows} \cup UNION {Detour[g] : g \in DOMAIN Detour}

(* "A large number": every division of the instance is exact.              *)
LargeNumber == 144
=============================================================================

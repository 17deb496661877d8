--------------------------- MODULE MCGraphSearch ----------------------------
(***************************************************************************)
(* Five vertices; a square with a tail, a double edge and a loop; any      *)
(* edges deleted from them.                                                *)
(***************************************************************************)
EXTENDS GraphSearch

TwoBatches == {<< <<0, 1>>, <<0, 2>>, <<1, 3>>, <<2, 3>>, <<2, 4>> >>,
               << <<1, 0>>, <<2, 2>> >>}

OneBatch == {<< <<0, 1>>, <<0, 2>> >>}

(* A target twice, and the source among the targets of some calls.         *)
TwoTargets == {<<3>>, <<3, 1, 3, 0>>}
=============================================================================

----------------------------- MODULE MCVcAssign -----------------------------
(***************************************************************************)
(* The four arcs between three switches in a line, part of a larger        *)
(* network: a route that meets a failure may turn back at a switch.        *)
(***************************************************************************)
EXTENDS VcAssign

LineArcs == {"uv", "vu", "vw", "wv"}

(* A path that uses the arcs in this order.                                *)
Chain(arcs) == {<<arcs[i], arcs[i + 1]>> : i \in 1..Len(arcs) - 1}

Chains == {<<"uv", "vw">>, <<"wv", "vu">>, <<"uv", "vu">>, <<"vu", "uv">>,
           <<"uv", "vw", "wv">>, <<"vw", "wv", "vu">>, <<"wv", "vu", "uv">>,
           <<"vu", "uv", "vw">>, <<"uv", "vw", "wv", "vu">>,
           <<"wv", "vw">>, <<"vw", "wv", "vu", "uv">>}

(* A route with a backup: one arc, two that may follow it.                 *)
LineShapes == {Chain(c) : c \in Chains} \cup {{}, {<<"uv", "vw">>, <<"uv", "vu">>}}
=============================================================================

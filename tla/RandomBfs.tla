----------------------------- MODULE RandomBfs ------------------------------
(***************************************************************************)
(* What a randomised breadth first search promises, whatever queues it     *)
(* uses: at each level every vertex found so far is given, in any order,   *)
(* to any of the vertices of the level before that reach it.               *)
(***************************************************************************)
EXTENDS Integers, FiniteSets

VARIABLES adj,        \* [vertices -> the vertices one step away]
          root, added,
          parents, depth,
          frontier,   \* pairs <<child, parent>> of this level
          next,       \* those of the next
          phase       \* "idle", "level", "done"

vars == <<adj, root, added, parents, depth, frontier, next, phase>>

NoParent == -1

NoResults ==
  /\ root = NoParent /\ added = {}
  /\ parents = [v \in {} |-> NoParent] /\ depth = [v \in {} |-> 0]
  /\ frontier = {} /\ next = {}

Init == adj = [v \in {} |-> {}] /\ NoResults /\ phase = "idle"

(* The graph changes.                                                      *)
Edit ==
  /\ phase = "idle"
  /\ adj' \in [DOMAIN adj' -> SUBSET DOMAIN adj']
  /\ UNCHANGED <<root, added, parents, depth, frontier, next, phase>>

(* The caller has what was found.                                          *)
Forget ==
  /\ phase = "done"
  /\ root' = NoParent /\ added' = {}
  /\ parents' = [v \in {} |-> NoParent] /\ depth' = [v \in {} |-> 0]
  /\ phase' = "idle"
  /\ UNCHANGED <<adj, frontier, next>>

Start(r) ==
  /\ phase = "idle"
  /\ root' = r
  /\ added' = {r}
  /\ parents' = [v \in DOMAIN adj |-> IF v = r THEN r ELSE NoParent]
  /\ depth' = [v \in DOMAIN adj |-> 0]
  /\ frontier' = (adj[r] \ {r}) \X {r}
  /\ next' = {}
  /\ phase' = "level"
  /\ UNCHANGED adj

Others(pairs, c) == {e \in pairs : e[1] # c}

(* c becomes a child of p; what it reaches may become its child.           *)
Take(c, p) ==
  /\ phase = "level"
  /\ <<c, p>> \in frontier
  /\ added' = added \cup {c}
  /\ parents' = [parents EXCEPT ![c] = p]
  /\ depth' = [depth EXCEPT ![c] = depth[p] + 1]
  /\ frontier' = Others(frontier, c)
  /\ next' = Others(next, c) \cup ((adj[c] \ added') \X {c})
  /\ UNCHANGED <<adj, root, phase>>

Advance ==
  /\ phase = "level" /\ frontier = {} /\ next # {}
  /\ frontier' = next /\ next' = {}
  /\ UNCHANGED <<adj, root, added, parents, depth, phase>>

Return ==
  /\ phase = "level" /\ frontier = {} /\ next = {}
  /\ phase' = "done"
  /\ UNCHANGED <<adj, root, added, parents, depth, frontier, next>>

Next ==
  \/ Edit
  \/ Forget
  \/ \E r \in DOMAIN adj : Start(r)
  \/ \E e \in frontier : Take(e[1], e[2])
  \/ Advance
  \/ Return

Spec == Init /\ [][Next]_vars

-----------------------------------------------------------------------------
(* When the search is over every vertex it did not add is out of reach, a  *)
(* vertex other than the root has a parent one level up that it is         *)
(* adjacent to, and no edge skips a level: the depths are the distances.   *)
ShortestPathTree ==
  phase = "done" =>
    /\ root \in added /\ depth[root] = 0
    /\ \A v \in added \ {root} : /\ parents[v] \in added
                                 /\ v \in adj[parents[v]]
                                 /\ depth[v] = depth[parents[v]] + 1
    /\ \A u \in added : \A w \in adj[u] : w \in added /\ depth[w] <= depth[u] + 1
    /\ \A v \in DOMAIN adj \ added : parents[v] = NoParent
=============================================================================

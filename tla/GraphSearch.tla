---------------------------- MODULE GraphSearch -----------------------------
(***************************************************************************)
(* The graph library at work: a graph is built and edited, and searched    *)
(* between the edits, with one stack of temporaries for all of it.         *)
(***************************************************************************)
EXTENDS IndexedGraph, DQueue, FiniteSets

CONSTANTS MaxVertices,
          Batches,        \* what may be added at a time: sequences of pairs of vertices
          MaxBorn,        \* bound: edges ever added
          Targets,        \* sequences of vertices paths are asked for
          QueueSize, FinallySize

VARIABLES graph, born, mode,
          adj,            \* what igraph_neighbors gives for each vertex
          root, queue, qptr, added, parents, vids, layers, lastlayer, depth,
          neis, i, nvect, actdist, pc,
          source, targets, dir, father, reached, toReach, pathq, tmp, j, act, paths, at,
          finally

Modes == IF graph.directed THEN {"out", "in", "all"} ELSE {"all"}

Bfs   == INSTANCE Bfs
Paths == INSTANCE ShortestPaths

bfsVars  == <<root, queue, qptr, added, parents, vids, layers, lastlayer, depth,
              neis, i, nvect, actdist, pc>>
pathVars == <<source, targets, dir, father, reached, toReach, pathq, tmp, j, act, paths, at>>
vars == <<graph, born, mode, adj, bfsVars, pathVars, finally>>

Init ==
  /\ graph \in {EmptyGraph(directed) : directed \in BOOLEAN} /\ born = 0 /\ mode = "all"
  /\ Bfs!Init /\ Paths!Init

Idle == pc = "idle" /\ at = "idle"

(* The graph changes only when nothing runs.                               *)
Edit(g, m) ==
  /\ Idle
  /\ graph' = g /\ mode' = m
  /\ adj' = [v \in 0..g.n - 1 |-> Neighbors(g, v, m)]
  /\ UNCHANGED <<bfsVars, pathVars, finally>>

MoreVertices(nv) ==
  /\ graph.n + nv <= MaxVertices
  /\ Edit(AddVertices(graph, nv), mode)
  /\ UNCHANGED born

MoreEdges(pairs) ==
  /\ born + Len(pairs) <= MaxBorn
  /\ \A k \in DOMAIN pairs : pairs[k][1] < graph.n /\ pairs[k][2] < graph.n
  /\ Edit(AddEdges(graph, pairs, [k \in DOMAIN pairs |-> born + k]), mode)
  /\ born' = born + Len(pairs)

FewerEdges(marked) ==
  /\ Edit(DeleteEdges(graph, marked), mode)
  /\ UNCHANGED born

Turn(m) ==
  /\ m # mode
  /\ Edit(graph, m)
  /\ UNCHANGED born

Search ==
  /\ at = "idle"
  /\ UNCHANGED <<graph, born, mode, pathVars>>
  /\ Bfs!Step

StartSearch(vid) ==
  /\ at = "idle"
  /\ UNCHANGED <<graph, born, mode, pathVars>>
  /\ Bfs!Call(vid)

Forget ==
  \/ at = "idle" /\ UNCHANGED <<graph, born, mode, pathVars>> /\ Bfs!Forget
  \/ pc = "idle" /\ UNCHANGED <<born, mode, adj, bfsVars>> /\ Paths!Forget

Abort ==
  \/ at = "idle" /\ UNCHANGED <<graph, born, mode, pathVars>> /\ Bfs!Abort
  \/ pc = "idle" /\ UNCHANGED <<born, mode, adj, bfsVars>> /\ Paths!Abort

AskPaths(from, to) ==
  /\ pc = "idle"
  /\ \A k \in DOMAIN to : to[k] < graph.n
  /\ Paths!Ask(from, to, mode)
  /\ UNCHANGED <<born, mode, adj, bfsVars>>

FindPaths ==
  /\ Paths!Step
  /\ UNCHANGED <<born, mode, adj, bfsVars>>

Next ==
  \/ \E nv \in 1..MaxVertices : MoreVertices(nv)
  \/ \E pairs \in Batches : MoreEdges(pairs)
  \/ \E marked \in (SUBSET (0..Len(graph.from) - 1)) \ {{}} : FewerEdges(marked)
  \/ \E m \in Modes : Turn(m)
  \/ \E v \in 0..graph.n - 1 : StartSearch(v)
  \/ Search
  \/ Abort
  \/ \E v \in 0..graph.n - 1, to \in Targets : AskPaths(v, to)
  \/ FindPaths
  \/ Forget

Spec == Init /\ [][Next]_vars

-----------------------------------------------------------------------------
EdgesOf(g) ==
  [k \in DOMAIN g.from |->
    [ends |-> IF g.directed THEN <<g.from[k], g.to[k]>> ELSE {g.from[k], g.to[k]},
     name |-> g.name[k]]]

Edges == INSTANCE EdgeList WITH
  directed <- graph.directed, n <- graph.n, edges <- EdgesOf(graph)

(* Whatever is added and deleted, an edge keeps its ends and its name, and *)
(* the ids of the edges that stay close up in their old order: a program   *)
(* that looks an edge up again after a deletion finds the one it means.    *)
EdgesKept == Edges!Spec

EdgeIds == 0..Len(graph.from) - 1

(* The index agrees with the edges: each vertex has the slice of its own   *)
(* edges, once each, in the order of the other end.                        *)
IndexRight ==
  \A v \in 0..graph.n - 1 :
    /\ ToSet(OutEdges(graph, v)) = {e \in EdgeIds : At(graph.from, e) = v}
    /\ ToSet(InEdges(graph, v)) = {e \in EdgeIds : At(graph.to, e) = v}
    /\ IsInjective(OutEdges(graph, v)) /\ IsInjective(InEdges(graph, v))
    /\ \A m \in {"out", "in", "all"} :
         LET s == Neighbors(graph, v, m)
         IN  \A k \in 2..Len(s) : s[k - 1] <= s[k]

(* The vertices one step from u, by the ends of the edges alone.           *)
Steps(u, m) ==
  {At(graph.to, e) : e \in {e \in EdgeIds : m # "in" /\ At(graph.from, e) = u}}
    \cup {At(graph.from, e) : e \in {e \in EdgeIds : m # "out" /\ At(graph.to, e) = u}}

(* Within[d]: what can be reached from u in at most d steps.               *)
Within(u, m) ==
  LET w[d \in 0..graph.n] ==
        IF d = 0 THEN {u} ELSE LET prev == w[d - 1]
                               IN  prev \cup UNION {Steps(x, m) : x \in prev}
  IN  w

(* A search that has returned found what can be reached, and a tree of     *)
(* shortest paths to it.                                                   *)
ShortestTree ==
  pc = "done" =>
    LET m == Mode(graph, mode)
        w == Within(root, m)
    IN  /\ added = w[graph.n]
        /\ \A v \in added \ {root} :
             /\ v \in w[depth[v]] \ w[depth[v] - 1]
             /\ parents[v] \in w[depth[v] - 1]
             /\ v \in Steps(parents[v], m)
        /\ \A v \in 0..graph.n - 1 \ added : parents[v] = -1

LayersRight == Bfs!LayersRight

SearchRefines == Bfs!SearchRefines

FinallyClean == Bfs!FinallyClean

(* Every path that is returned leads along edges, the right way round,     *)
(* from the source to its target and is as short as any; there is none     *)
(* only where the target is the source or out of reach.                    *)
PathsRight ==
  at = "answered" =>
    LET w == Within(source, dir)
        Ends(e) == IF dir = "out" THEN {<<At(graph.from, e), At(graph.to, e)>>}
                   ELSE IF dir = "in" THEN {<<At(graph.to, e), At(graph.from, e)>>}
                   ELSE {<<At(graph.from, e), At(graph.to, e)>>,
                         <<At(graph.to, e), At(graph.from, e)>>}
        After(path) == LET x[k \in 0..Len(path)] ==
                             IF k = 0 THEN {source}
                             ELSE LET prev == x[k - 1]
                                  IN  {b \in 0..graph.n - 1 : \E a \in prev : <<a, b>> \in Ends(path[k])}
                       IN  x[Len(path)]
    IN  \A k \in DOMAIN targets :
          IF targets[k] \in w[graph.n]
          THEN /\ targets[k] \in After(paths[k])
               /\ targets[k] \in w[Len(paths[k])]
               /\ paths[k] # << >> => targets[k] \notin w[Len(paths[k]) - 1]
          ELSE paths[k] = << >>
=============================================================================

--------------------------- MODULE ShortestPaths ----------------------------
(***************************************************************************)
(* igraph_get_shortest_paths as this repository patches it                 *)
(* (structural_properties.c): a breadth first search that shuffles the     *)
(* edges of every vertex it visits and stops when all targets are reached. *)
(* father says, by vertex: 0 nothing known, -1 a target still to reach, 1  *)
(* the source, e + 2 reached by the edge e.                                *)
(***************************************************************************)
EXTENDS IndexedGraph, DQueue, FiniteSets

CONSTANTS QueueSize, FinallySize

VARIABLES graph,
          source, targets, dir,    \* from, to and mode
          father, reached, toReach,
          pathq, tmp, j, act,
          paths,                   \* the edges to each target
          finally,
          at

call   == <<source, targets, dir, toReach>>
vars   == <<graph, call, father, reached, pathq, tmp, j, act, paths, finally, at>>

NoResults ==
  /\ source = -1 /\ targets = << >> /\ dir = "out"
  /\ father = [v \in {} |-> 0] /\ reached = 0 /\ toReach = 0
  /\ pathq = DqInit(QueueSize) /\ tmp = << >> /\ j = 0 /\ act = -1
  /\ paths = << >>

Init == NoResults /\ at = "idle"

(* The caller has the paths.                                               *)
Forget ==
  /\ at = "answered"
  /\ source' = -1 /\ targets' = << >> /\ dir' = "out" /\ toReach' = 0
  /\ reached' = 0 /\ paths' = << >>
  /\ at' = "idle"
  /\ UNCHANGED <<graph, father, pathq, tmp, j, act, finally>>

Temporaries == <<"vit", "father", "tmp", "q">>

(* Up to the main loop.                                                    *)
Ask(from, to, mode) ==
  /\ at = "idle"
  /\ Len(finally) + Len(Temporaries) <= FinallySize
  /\ source' = from /\ targets' = to /\ dir' = Mode(graph, mode)
  /\ toReach' = Cardinality(ToSet(to))
  /\ reached' = IF from \in ToSet(to) THEN 1 ELSE 0
  /\ father' = [v \in 0..graph.n - 1 |->
                 IF v = from THEN 1 ELSE IF v \in ToSet(to) THEN -1 ELSE 0]
  /\ pathq' = DqPush(DqInit(QueueSize), from + 1)
  /\ tmp' = << >> /\ j' = 0 /\ act' = -1 /\ paths' = << >>
  /\ finally' = finally \o Temporaries
  /\ at' = "search"
  /\ UNCHANGED graph

(* assert (no<1000000) in IGRAPH_FINALLY_REAL.                             *)
Abort ==
  /\ at = "idle" /\ graph.n > 0
  /\ Len(finally) + Len(Temporaries) > FinallySize
  /\ at' = "abort"
  /\ UNCHANGED <<graph, call, father, reached, pathq, tmp, j, act, paths, finally>>

(* The edges of the vertex, in any order.                                  *)
Visit ==
  LET edges == Incident(graph, DqHead(pathq) - 1, dir)
  IN  /\ at = "search" /\ ~DqEmpty(pathq) /\ reached < toReach
      /\ act' = DqHead(pathq) - 1
      /\ pathq' = DqPop(pathq)
      /\ \E p \in Permutations(DOMAIN edges) : tmp' = [k \in DOMAIN edges |-> edges[p[k]]]
      /\ j' = 0
      /\ at' = "edges"
      /\ UNCHANGED <<graph, call, father, reached, paths, finally>>

(* Mutant: a target is counted each time an edge leads to it.              *)
Edge_CountsAgain ==
  LET edge     == tmp[j + 1]
      neighbor == Opposite(graph, edge, act)
  IN  /\ at = "edges" /\ j < Len(tmp)
      /\ reached' = IF neighbor \in ToSet(targets) THEN reached + 1 ELSE reached
      /\ IF father[neighbor] > 0 THEN UNCHANGED <<father, pathq>>
         ELSE /\ father' = [father EXCEPT ![neighbor] = edge + 2]
              /\ pathq' = DqPush(pathq, neighbor + 1)
      /\ j' = j + 1
      /\ UNCHANGED <<graph, call, tmp, act, paths, finally, at>>

Edge ==
  LET edge     == tmp[j + 1]
      neighbor == Opposite(graph, edge, act)
  IN  /\ at = "edges" /\ j < Len(tmp)
      /\ reached' = IF father[neighbor] < 0 THEN reached + 1 ELSE reached
      /\ IF father[neighbor] > 0 THEN UNCHANGED <<father, pathq>>
         ELSE /\ father' = [father EXCEPT ![neighbor] = edge + 2]
              /\ pathq' = DqPush(pathq, neighbor + 1)
      /\ j' = j + 1
      /\ UNCHANGED <<graph, call, tmp, act, paths, finally, at>>

EdgesDone ==
  /\ at = "edges" /\ j = Len(tmp)
  /\ at' = "search"
  /\ UNCHANGED <<graph, call, father, reached, pathq, tmp, j, act, paths, finally>>

(* Back along father from every vertex, to the source.                     *)
EdgesTo ==
  LET to[v \in DOMAIN father] ==
        IF father[v] <= 1 THEN << >>
        ELSE Append(to[Opposite(graph, father[v] - 2, v)], father[v] - 2)
  IN  to

Answer ==
  /\ at = "search" /\ (DqEmpty(pathq) \/ reached >= toReach)
  /\ paths' = [k \in DOMAIN targets |-> EdgesTo[targets[k]]]
  /\ finally' = SubSeq(finally, 1, Len(finally) - 4)
  /\ at' = "answered"
  /\ father' = [v \in {} |-> 0] /\ pathq' = DqInit(QueueSize)
  /\ tmp' = << >> /\ j' = 0 /\ act' = -1
  /\ UNCHANGED <<graph, call, reached>>

Step == Visit \/ Edge \/ EdgesDone \/ Answer
=============================================================================

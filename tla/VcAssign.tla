------------------------------ MODULE VcAssign ------------------------------
(***************************************************************************)
(* assign_vcs of resnet_dfr.py: every path branching has a channel         *)
(* dependency graph (CDG); the CDGs are put together into one virtual      *)
(* channel, the paths that close a cycle are taken out by depth-first      *)
(* passes until the channel is acyclic, and what was taken out goes to the *)
(* next channel.  An edge of a channel is <<arc, arc, cdg>>: igraph's      *)
(* multigraph with its cdg_num attribute.                                  *)
(***************************************************************************)
EXTENDS Integers, Sequences, FiniteSets, Bags, BagsExt, SequencesExt

CONSTANTS
  Arc,
  Cdg,
  Shapes    \* the CDGs a path may have

Acyclic(edges) ==
  \A S \in (SUBSET Arc) \ {{}} : \E a \in S : \A b \in S : <<a, b>> \notin edges

(* plinko_path_cdg asserts that the CDG of one path is a DAG.              *)
ASSUME CdgAssumption ==
  /\ IsFiniteSet(Arc) /\ IsFiniteSet(Cdg)
  /\ \A shape \in Shapes : shape \subseteq Arc \X Arc /\ Acyclic(shape)

VARIABLES
  deps,      \* the dependencies of each path
  waiting,   \* next_vc_cdgs
  removed,   \* removed_cdg_idxs
  vc,        \* the channel under construction
  vcs,       \* the finished channels
  pc,        \* "build", "check" (vc.is_dag), "dfs"
  visited,
  stack,     \* the pv of every entry; its last arc is the iv
  path,      \* pv of the arc whose successors are looked at
  todo       \* the rest of succ

dfs == <<visited, stack, path, todo>>

vars == <<deps, waiting, removed, vc, vcs, pc, dfs>>

(* The paths that induce an edge of the channel.                           *)
Inducing(a, b) == {c \in Cdg : <<a, b, c>> \in vc}

Cyclic == ~Acyclic({<<e[1], e[2]>> : e \in vc})

Successors(a) == {b \in Arc : Inducing(a, b) # {}}

-----------------------------------------------------------------------------

Init ==
  /\ deps \in [Cdg -> Shapes]
  /\ waiting = SetToBag(Cdg)
  /\ removed = EmptyBag
  /\ vc = {}
  /\ vcs = <<>>
  /\ pc = "build"
  /\ visited = {} /\ stack = <<>> /\ path = <<>> /\ todo = {}

(* Mutant: removed_cdg_idxs is not emptied for the next channel.           *)
Build_KeepsRemoved ==
  /\ pc = "build"
  /\ waiting # EmptyBag
  /\ vc' = {e \in Arc \X Arc \X Cdg :
               BagIn(e[3], waiting) /\ <<e[1], e[2]>> \in deps[e[3]]}
  /\ pc' = "check"
  /\ UNCHANGED <<deps, waiting, removed, vcs, dfs>>

(* build_cdg_vc                                                            *)
Build ==
  /\ pc = "build"
  /\ waiting # EmptyBag
  /\ vc' = {e \in Arc \X Arc \X Cdg :
               BagIn(e[3], waiting) /\ <<e[1], e[2]>> \in deps[e[3]]}
  /\ removed' = EmptyBag
  /\ pc' = "check"
  /\ UNCHANGED <<deps, waiting, vcs, dfs>>

(* The channel is a DAG.                                                   *)
Finish ==
  /\ pc = "check"
  /\ ~Cyclic
  /\ vcs' = Append(vcs, vc)
  /\ waiting' = removed
  /\ pc' = "build"
  /\ UNCHANGED <<deps, removed, vc, dfs>>

(* It is not: another remove_cycles_cdg_vc.                                *)
StartPass ==
  /\ pc = "check"
  /\ Cyclic
  /\ visited' = {}
  /\ pc' = "dfs"
  /\ UNCHANGED <<deps, waiting, removed, vc, vcs, stack, path, todo>>

(* Take iv = Last(pv): mark it and read its successors.                    *)
Visit(pv) ==
  /\ visited' = visited \cup {Last(pv)}
  /\ path' = pv
  /\ todo' = Successors(Last(pv))

(* The start arcs lie at the bottom of the stack in random order: the next *)
(* one that is not visited is any that is not.                             *)
Start(a) ==
  /\ pc = "dfs" /\ todo = {} /\ stack = <<>>
  /\ a \notin visited
  /\ Visit(<<a>>)
  /\ UNCHANGED <<deps, waiting, removed, vc, vcs, pc, stack>>

Pop ==
  /\ pc = "dfs" /\ todo = {} /\ stack # <<>>
  /\ stack' = Front(stack)
  /\ IF Last(Last(stack)) \in visited
       THEN UNCHANGED <<visited, path, todo>>
       ELSE Visit(Last(stack))
  /\ UNCHANGED <<deps, waiting, removed, vc, vcs, pc>>

(* The edges of pv[idx:] + [iw].                                           *)
CycleEdges(iw) ==
  {<<path[i], path[i + 1]>> : i \in {j \in 1..Len(path) - 1 : \E k \in 1..j : path[k] = iw}}
    \cup {<<Last(path), iw>>}

(* remove_edges: the paths of an edge with fewest of them, at random.  An  *)
(* edge without paths means that the cycle is broken already.              *)
Weakest(iw) ==
  {Inducing(e[1], e[2]) : e \in
     {d \in CycleEdges(iw) : \A x \in CycleEdges(iw) :
        Cardinality(Inducing(d[1], d[2])) <= Cardinality(Inducing(x[1], x[2]))}}

(* Mutant: only the edges of the cycle that the paths induce are deleted.  *)
BreakCycle_EdgesOnly(iw) ==
  \E paths \in Weakest(iw) :
    /\ vc' = {e \in vc : e[3] \notin paths \/ <<e[1], e[2]>> \notin CycleEdges(iw)}
    /\ removed' = removed (+) SetToBag(paths)

(* break_cycle_cdg_vc: the paths leave with all of their edges.            *)
BreakCycle(iw) ==
  \E paths \in Weakest(iw) :
    /\ vc' = {e \in vc : e[3] \notin paths}
    /\ removed' = removed (+) SetToBag(paths)

(* Mutant: any visited successor is taken for the start of a cycle.        *)
Examine_VisitedIsCycle(iw) ==
  /\ pc = "dfs"
  /\ iw \in todo
  /\ IF iw \in visited THEN BreakCycle(iw) ELSE UNCHANGED <<vc, removed>>
  /\ stack' = IF iw \in visited THEN stack ELSE Append(stack, Append(path, iw))
  /\ todo' = todo \ {iw}
  /\ UNCHANGED <<deps, waiting, vcs, pc, visited, path>>

(* Mutant: only the first arc of pv is compared.                           *)
Examine_StartOnly(iw) ==
  /\ pc = "dfs"
  /\ iw \in todo
  /\ IF iw = Head(path) THEN BreakCycle(iw) ELSE UNCHANGED <<vc, removed>>
  /\ stack' = IF iw \in visited THEN stack ELSE Append(stack, Append(path, iw))
  /\ todo' = todo \ {iw}
  /\ UNCHANGED <<deps, waiting, vcs, pc, visited, path>>

(* One turn of "for iw in succ"; a successor that parallel edges repeat is *)
(* looked at once, the second look finds its cycle broken.                 *)
Examine(iw) ==
  /\ pc = "dfs"
  /\ iw \in todo
  /\ IF iw \in Range(path) THEN BreakCycle(iw) ELSE UNCHANGED <<vc, removed>>
  /\ stack' = IF iw \in visited THEN stack ELSE Append(stack, Append(path, iw))
  /\ todo' = todo \ {iw}
  /\ UNCHANGED <<deps, waiting, vcs, pc, visited, path>>

(* Every arc was visited.                                                  *)
EndPass ==
  /\ pc = "dfs" /\ todo = {} /\ stack = <<>>
  /\ visited = Arc
  /\ pc' = "check"
  /\ path' = <<>>
  /\ UNCHANGED <<deps, waiting, removed, vc, vcs, visited, stack, todo>>

Next ==
  \/ Build \/ Finish \/ StartPass \/ Pop \/ EndPass
  \/ \E a \in Arc : Start(a) \/ Examine(a)

Spec == Init /\ [][Next]_vars

FairSpec == Spec /\ WF_vars(Next)

-----------------------------------------------------------------------------

TypeOK ==
  /\ deps \in [Cdg -> Shapes]
  /\ IsABag(waiting) /\ DOMAIN waiting \subseteq Cdg
  /\ IsABag(removed) /\ DOMAIN removed \subseteq Cdg
  /\ vc \subseteq Arc \X Arc \X Cdg
  /\ vcs \in Seq(SUBSET (Arc \X Arc \X Cdg))
  /\ pc \in {"build", "check", "dfs"}
  /\ visited \subseteq Arc /\ todo \subseteq Arc
  /\ path \in Seq(Arc) /\ stack \in Seq(Seq(Arc))

(* The dependencies of a path that a channel carries.                      *)
Carried(channel, c) == {d \in Arc \X Arc : <<d[1], d[2], c>> \in channel}

(* A path is routed on one channel as a whole: no channel, finished or     *)
(* not, carries some of its dependencies and leaves out others.            *)
WholePaths ==
  \A c \in Cdg : \A channel \in {vc} \cup Range(vcs) :
    Carried(channel, c) \in {{}, deps[c]}

(* Path c is on channel n, or listed for it: finished channels, the one    *)
(* under construction, the next.                                           *)
Holds(c, n) ==
  \/ n \in DOMAIN vcs /\ Carried(vcs[n], c) # {}
  \/ n = Len(vcs) + 1 /\ pc = "build" /\ BagIn(c, waiting)
  \/ n = Len(vcs) + 1 /\ pc # "build" /\ Carried(vc, c) # {}
  \/ n = Len(vcs) + 2 /\ pc # "build" /\ BagIn(c, removed)

(* No path is lost between the channels, and none is put on two of them or *)
(* twice on the list, however many passes take how many paths out.         *)
EachPathOnce ==
  \A c \in Cdg : deps[c] # {} =>
    /\ \E n \in 1..Len(vcs) + 2 : \A m \in 1..Len(vcs) + 2 : Holds(c, m) <=> m = n
    /\ pc = "build" /\ BagIn(c, waiting) => waiting[c] = 1
    /\ pc # "build" /\ BagIn(c, removed) => removed[c] = 1

(* Some path leads from the arc e[2] back to e[1].                         *)
OnCycle(e, edges) ==
  \A S \in SUBSET Arc :
    e[2] \in S /\ (\A d \in edges : d[1] \in S => d[2] \in S) => e[1] \in S

(* A path is taken out of a channel only if it is on a cycle of the        *)
(* channel: the search takes no successor for an ancestor, although every  *)
(* stack entry carries a pv of its own and edges vanish under it.          *)
OnlyCyclesCost ==
  pc # "build" =>
    \A c \in DOMAIN removed : \E e \in deps[c] :
      OnCycle(e, UNION {deps[b] : b \in DOMAIN waiting})

(* assign_vcs ends, although a pass may leave cycles behind.               *)
Terminates == <>(pc = "build" /\ waiting = EmptyBag)

-----------------------------------------------------------------------------
(* The inductive invariant.                                                *)

(* Successors are looked at of some arc, and every entry has one.          *)
Searching ==
  /\ todo # {} => path # <<>>
  /\ \A n \in DOMAIN stack : stack[n] # <<>>

IInv == TypeOK /\ Searching /\ WholePaths /\ EachPathOnce

(* The dependencies the channel was built with.                            *)
Built == UNION {deps[b] : b \in DOMAIN waiting}

Along(p) == \A i \in 1..Len(p) - 1 : <<p[i], p[i + 1]>> \in Built

(* What the search carries are paths of the channel as it was built,       *)
(* although edges of it may be gone by now.                                *)
SearchAlong ==
  /\ pc # "dfs" => stack = <<>> /\ path = <<>> /\ todo = {}
  /\ pc # "build" =>
       /\ \A e \in vc : e[3] \in DOMAIN waiting /\ <<e[1], e[2]>> \in deps[e[3]]
       /\ Along(path) /\ \A n \in DOMAIN stack : Along(stack[n])
       /\ \A b \in todo : <<Last(path), b>> \in Built

CycleInv == IInv /\ SearchAlong /\ OnlyCyclesCost
=============================================================================

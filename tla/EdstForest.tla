----------------------------- MODULE EdstForest -----------------------------
(***************************************************************************)
(* edst_forest and edst_tree of tree_alg.py: peel edge-disjoint spanning   *)
(* trees off the network, one random Kruskal run after another.            *)
(*                                                                         *)
(* This is the abstract form of the algorithm.  The disjoint-set           *)
(* structure is the partition it stands for: block[v] is the set of        *)
(* vertices whose djs_find is that of v, and es[v] the edge set stored at  *)
(* that root.  Which edge random.choice yields is left open.  EdstUnionFind*)
(* has the parent pointers, the ranks and the biased choice, and is shown  *)
(* to implement this module.                                               *)
(***************************************************************************)
EXTENDS ForestCall

VARIABLES
  availE,      \* edges no tree of the forest has used, shared by the calls
  eSet,        \* edges the current edst_tree call may still consider
  pickedE,     \* edges the current call has used
  block,       \* the partition of V kept by the disjoint sets
  es,          \* es[v]: the edges stored with the block of v
  forest,      \* the trees built so far, as edge sets
  pc           \* "tree" inside an edst_tree call, "done" after edst_forest

vars == <<availE, eSet, pickedE, block, es, forest, pc>>

TypeOK ==
  /\ availE \subseteq E
  /\ eSet \subseteq E
  /\ pickedE \subseteq E
  /\ block \in [V -> SUBSET V]
  /\ es \in [V -> SUBSET E]
  /\ forest \in Seq(SUBSET E)
  /\ pc \in {"tree", "done"}

-----------------------------------------------------------------------------

Init ==
  /\ availE = E
  /\ eSet = E
  /\ pickedE = {}
  /\ block = [v \in V |-> {v}]
  /\ es = [v \in V |-> {}]
  /\ forest = << >>
  /\ pc = IF QuitEarly /\ NumTrees = 0 THEN "done" ELSE "tree"

(* The loop condition of edst_tree that concerns the tree: not spanning yet.*)
Growing == pc = "tree" /\ Cardinality(pickedE) < Cardinality(V) - 1

(* djs_find(v1) is not djs_find(v2) for the two ends of e.                 *)
Separates(e) == \E u, v \in Ends[e] : block[u] # block[v]

(* djs_union: the two blocks and their edges become one, e joins them.     *)
Union(e) ==
  LET merged == UNION {block[u] : u \in Ends[e]}
      edges  == (UNION {es[u] : u \in Ends[e]}) \cup {e}
  IN  /\ block' = [w \in V |-> IF w \in merged THEN merged ELSE block[w]]
      /\ es' = [w \in V |-> IF w \in merged THEN edges ELSE es[w]]

(* The considered edge joins two components: it is taken.                  *)
Use(e) ==
  /\ Growing
  /\ e \in eSet
  /\ Separates(e)
  /\ availE' = availE \ {e}
  /\ pickedE' = pickedE \cup {e}
  /\ Union(e)
  /\ eSet' = eSet \ {e}
  /\ UNCHANGED <<forest, pc>>

(* It would close a cycle: it is dropped for this tree only.               *)
Skip(e) ==
  /\ Growing
  /\ e \in eSet
  /\ ~Separates(e)
  /\ eSet' = eSet \ {e}
  /\ UNCHANGED <<availE, pickedE, block, es, forest, pc>>

(* The tree spans V: it is the edge set stored at the root of dst (of any  *)
(* vertex, when there is no dst).  The forest ends here or a new call      *)
(* starts on what is left of availE.                                       *)
Finish(root) ==
  /\ pc = "tree"
  /\ Cardinality(pickedE) >= Cardinality(V) - 1
  /\ forest' = Append(forest, es[root])
  /\ IF QuitEarly /\ Len(forest') >= NumTrees
       THEN /\ pc' = "done"
            /\ UNCHANGED <<eSet, pickedE, block, es>>
       ELSE /\ eSet' = availE
            /\ pickedE' = {}
            /\ block' = [v \in V |-> {v}]
            /\ es' = [v \in V |-> {}]
            /\ UNCHANGED pc
  /\ UNCHANGED availE

(* Out of edges before the tree spans V: edst_tree returns None.  The      *)
(* edges it had taken do not go back to availE.                            *)
GiveUp ==
  /\ Growing
  /\ eSet = {}
  /\ pc' = "done"
  /\ UNCHANGED <<availE, eSet, pickedE, block, es, forest>>

Next ==
  \/ \E e \in E : Use(e) \/ Skip(e)
  \/ \E root \in V : Finish(root)
  \/ GiveUp

Spec == Init /\ [][Next]_vars

-----------------------------------------------------------------------------

InForest == UNION {forest[i] : i \in 1..Len(forest)}

(* The trees share no edge, and no edge of a tree can be picked again: the *)
(* fault tolerance of EDST forwarding rests on one failed edge hurting at  *)
(* most one tree.  availE is shared by reference between the calls.        *)
TreesDisjoint ==
  /\ \A i, j \in 1..Len(forest) : i # j => forest[i] \cap forest[j] = {}
  /\ pc = "tree" => (availE \cup pickedE) \cap InForest = {}

(* What edst_tree hands to iG.subgraph_edges is a spanning tree, although  *)
(* it never looks at pickedE: the edges come from the root of dst, whose   *)
(* _es field was assembled by the unions (the assert on len(treeE)).       *)
TreesSpan == \A i \in 1..Len(forest) : SpanningTree(forest[i])

(* While trees are being built every edge is available, in the current     *)
(* tree or in the forest.  The edges of an abandoned tree are lost only    *)
(* when no further tree is tried.                                          *)
NoEdgeLost == pc = "tree" => E = availE \cup pickedE \cup InForest

(* edst_forest stops short of the requested number only when what it has   *)
(* not used cannot connect the network: another tree is impossible,        *)
(* whatever the random choices of the last call were.                      *)
Maximal ==
  pc = "done" /\ ~(QuitEarly /\ Len(forest) >= NumTrees)
    => ~Connects(E \ InForest, V)

-----------------------------------------------------------------------------
(* The inductive invariant behind the properties above.                    *)

(* The blocks partition V; the edges stored with a block connect it, and   *)
(* together they are the picked edges; each use of an edge made one block  *)
(* of two.                                                                 *)
Partitioned ==
  /\ \A v \in V : v \in block[v]
  /\ \A v \in V : \A w \in block[v] : block[w] = block[v] /\ es[w] = es[v]
  /\ \A v \in V : Connects(es[v], block[v])

Stored ==
  /\ \A v \in V : es[v] \subseteq pickedE
  /\ \A e \in pickedE : \A u, v \in Ends[e] : e \in es[v] /\ block[u] = block[v]

Blocks == {block[v] : v \in V}

Counted == Cardinality(Blocks) + Cardinality(pickedE) = Cardinality(V)

(* An edge that is available but no longer considered lies inside a block. *)
Considered ==
  /\ eSet \subseteq availE
  /\ availE \cap pickedE = {}
  /\ \A e \in availE \ eSet : ~Separates(e)

IInv ==
  /\ TypeOK
  /\ TreesDisjoint /\ TreesSpan /\ NoEdgeLost /\ Maximal
  /\ Partitioned /\ Stored /\ Counted /\ Considered
=============================================================================

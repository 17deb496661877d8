--------------------------- MODULE EdstUnionFind ---------------------------
(***************************************************************************)
(* edst_tree of tree_alg.py with its own data: the parent pointers, ranks  *)
(* and edge sets that djs_make_set hangs on the vertices, path             *)
(* compression, and the edge choice biased against busy vertices.  It      *)
(* implements EdstForest (Refinement below).                               *)
(***************************************************************************)
EXTENDS ForestCall

CONSTANTS
  BusyDegree,  \* 2: an edge is avoided when an end has more picked edges
  MaxTries,    \* 5: how often another edge is drawn instead
  NoEdge       \* no edge drawn

ASSUME UnionFindArguments ==
  /\ BusyDegree \in Nat /\ MaxTries \in Nat
  /\ NoEdge \notin E

VARIABLES
  availE, eSet, pickedE, forest, pc,
  parent,       \* v._parent
  rank,         \* v._rank
  storedE,      \* v._es, meaningful at roots, stale elsewhere
  edgesAtNode,  \* picked edges per vertex
  e,            \* the drawn edge
  tryCount      \* redraws so far for this edge

djs == <<parent, rank, storedE>>
vars == <<availE, eSet, pickedE, forest, pc, djs, edgesAtNode, e, tryCount>>

-----------------------------------------------------------------------------

(* Where djs_find ends: parent pointers followed to a self-loop.           *)
RootIn(p) ==
  LET up[n \in 0..Cardinality(V)] ==
        IF n = 0 THEN [v \in V |-> v]
        ELSE [v \in V |-> p[up[n - 1][v]]]
  IN  up[Cardinality(V)]

Root == RootIn(parent)

(* The vertices djs_find(x) visits, all of which it points at the root.    *)
Visited(p, x) ==
  LET up[n \in 0..Cardinality(V)] == IF n = 0 THEN x ELSE p[up[n - 1]]
  IN  {up[n] : n \in 0..Cardinality(V)}

Compress(p, x) == [v \in V |-> IF v \in Visited(p, x) THEN RootIn(p)[v] ELSE p[v]]

(* The parents after djs_find on both ends of f, in either order.          *)
FoundBoth(f) ==
  LET u == CHOOSE w \in Ends[f] : TRUE
  IN  Compress(Compress(parent, u), Other(u, f))

(* Mutant: the root of lower rank becomes the parent.                      *)
UnionRoots_Upside(x, y, f) ==
  LET p      == FoundBoth(f)
      xRoot  == Root[x]
      yRoot  == Root[y]
      top    == IF rank[xRoot] > rank[yRoot] THEN yRoot ELSE xRoot
      below  == IF top = xRoot THEN yRoot ELSE xRoot
      joined == storedE[xRoot] \cup storedE[yRoot] \cup {f}
  IN  /\ parent' = [p EXCEPT ![below] = top]
      /\ rank' = IF rank[xRoot] = rank[yRoot]
                   THEN [rank EXCEPT ![xRoot] = @ + 1] ELSE rank
      /\ storedE' = [storedE EXCEPT ![top] = joined]

(* Mutant: the edges are stored with x's root whichever is on top.         *)
UnionRoots_StoreAtX(x, y, f) ==
  LET p      == FoundBoth(f)
      xRoot  == Root[x]
      yRoot  == Root[y]
      top    == IF rank[xRoot] >= rank[yRoot] THEN xRoot ELSE yRoot
      below  == IF top = xRoot THEN yRoot ELSE xRoot
      joined == storedE[xRoot] \cup storedE[yRoot] \cup {f}
  IN  /\ parent' = [p EXCEPT ![below] = top]
      /\ rank' = IF rank[xRoot] = rank[yRoot]
                   THEN [rank EXCEPT ![xRoot] = @ + 1] ELSE rank
      /\ storedE' = [storedE EXCEPT ![xRoot] = joined]

(* djs_union by rank; x is e.v1, y is e.v2.                                *)
UnionRoots(x, y, f) ==
  LET p      == FoundBoth(f)
      xRoot  == Root[x]
      yRoot  == Root[y]
      top    == IF rank[xRoot] >= rank[yRoot] THEN xRoot ELSE yRoot
      below  == IF top = xRoot THEN yRoot ELSE xRoot
      joined == storedE[xRoot] \cup storedE[yRoot] \cup {f}
  IN  /\ parent' = [p EXCEPT ![below] = top]
      /\ rank' = IF rank[xRoot] = rank[yRoot]
                   THEN [rank EXCEPT ![xRoot] = @ + 1] ELSE rank
      /\ storedE' = [storedE EXCEPT ![top] = joined]

-----------------------------------------------------------------------------

(* The start of a call: map(djs_make_set, V) and no degrees.               *)
MakeSets ==
  /\ parent' = [v \in V |-> v]
  /\ rank' = [v \in V |-> 0]
  /\ storedE' = [v \in V |-> {}]
  /\ edgesAtNode' = [v \in V |-> 0]

Init ==
  /\ availE = E /\ eSet = E /\ pickedE = {} /\ forest = << >>
  /\ parent = [v \in V |-> v]
  /\ rank = [v \in V |-> 0]
  /\ storedE = [v \in V |-> {}]
  /\ edgesAtNode = [v \in V |-> 0]
  /\ e = NoEdge /\ tryCount = 0
  /\ pc = IF QuitEarly /\ NumTrees = 0 THEN "done" ELSE "tree"

Growing == pc = "tree" /\ Cardinality(pickedE) < Cardinality(V) - 1

Busy(f) == \E v \in Ends[f] : edgesAtNode[v] > BusyDegree

(* e = random.choice(tuple(eSet)), the first draw of an iteration.         *)
Draw ==
  /\ Growing
  /\ e = NoEdge
  /\ e' \in eSet
  /\ tryCount' = 0
  /\ UNCHANGED <<availE, eSet, pickedE, forest, pc, djs, edgesAtNode>>

(* Mutant: tryCount += 1 forgotten.                                        *)
Redraw_Uncounted ==
  /\ Growing
  /\ e # NoEdge
  /\ Busy(e) /\ tryCount < MaxTries
  /\ e' \in eSet
  /\ UNCHANGED <<availE, eSet, pickedE, forest, pc, djs, edgesAtNode, tryCount>>

(* An end is busy and tries are left: draw again, maybe the same edge.     *)
Redraw ==
  /\ Growing
  /\ e # NoEdge
  /\ Busy(e) /\ tryCount < MaxTries
  /\ e' \in eSet
  /\ tryCount' = tryCount + 1
  /\ UNCHANGED <<availE, eSet, pickedE, forest, pc, djs, edgesAtNode>>

Settled == Growing /\ e # NoEdge /\ ~(Busy(e) /\ tryCount < MaxTries)

(* Mutant: the edge stays in availE for the next tree.                     *)
Use_KeepsAvail ==
  /\ Settled
  /\ \E x \in Ends[e] :
       /\ Root[x] # Root[Other(x, e)]
       /\ UnionRoots(x, Other(x, e), e)
  /\ pickedE' = pickedE \cup {e}
  /\ edgesAtNode' =
       [v \in V |-> edgesAtNode[v] + (IF v \in Ends[e] THEN 1 ELSE 0)]
  /\ eSet' = eSet \ {e}
  /\ e' = NoEdge
  /\ UNCHANGED <<availE, forest, pc, tryCount>>

(* djs_find(v1) != djs_find(v2): the edge is taken.                        *)
Use ==
  /\ Settled
  /\ \E x \in Ends[e] :
       /\ Root[x] # Root[Other(x, e)]
       /\ UnionRoots(x, Other(x, e), e)
  /\ availE' = availE \ {e}
  /\ pickedE' = pickedE \cup {e}
  /\ edgesAtNode' =
       [v \in V |-> edgesAtNode[v] + (IF v \in Ends[e] THEN 1 ELSE 0)]
  /\ eSet' = eSet \ {e}
  /\ e' = NoEdge
  /\ UNCHANGED <<forest, pc, tryCount>>

(* Mutant: a skipped edge is dropped for all trees.                        *)
Skip_ForGood ==
  /\ Settled
  /\ \A u, v \in Ends[e] : Root[u] = Root[v]
  /\ parent' = FoundBoth(e)
  /\ eSet' = eSet \ {e}
  /\ availE' = availE \ {e}
  /\ e' = NoEdge
  /\ UNCHANGED <<pickedE, forest, pc, rank, storedE, edgesAtNode, tryCount>>

(* Both ends are in one set: the edge is dropped for this tree.            *)
Skip ==
  /\ Settled
  /\ \A u, v \in Ends[e] : Root[u] = Root[v]
  /\ parent' = FoundBoth(e)
  /\ eSet' = eSet \ {e}
  /\ e' = NoEdge
  /\ UNCHANGED <<availE, pickedE, forest, pc, rank, storedE, edgesAtNode, tryCount>>

(* Mutant: the next call goes on with what this one left in eSet.          *)
Finish_LeftOver(dst) ==
  /\ pc = "tree"
  /\ Cardinality(pickedE) >= Cardinality(V) - 1
  /\ forest' = Append(forest, storedE[Root[dst]])
  /\ IF QuitEarly /\ Len(forest') >= NumTrees
       THEN pc' = "done" /\ UNCHANGED <<pickedE, djs, edgesAtNode>>
       ELSE pickedE' = {} /\ MakeSets /\ UNCHANGED pc
  /\ UNCHANGED <<availE, eSet, e, tryCount>>

(* The tree spans: it is read off the root of dst, and the next call       *)
(* starts with fresh sets on what is still available.                      *)
Finish(dst) ==
  /\ pc = "tree"
  /\ Cardinality(pickedE) >= Cardinality(V) - 1
  /\ forest' = Append(forest, storedE[Root[dst]])
  /\ IF QuitEarly /\ Len(forest') >= NumTrees
       THEN pc' = "done" /\ UNCHANGED <<eSet, pickedE, djs, edgesAtNode>>
       ELSE eSet' = availE /\ pickedE' = {} /\ MakeSets /\ UNCHANGED pc
  /\ UNCHANGED <<availE, e, tryCount>>

GiveUp ==
  /\ Growing
  /\ eSet = {}
  /\ pc' = "done"
  /\ UNCHANGED <<availE, eSet, pickedE, forest, djs, edgesAtNode, e, tryCount>>

Next == Draw \/ Redraw \/ Use \/ Skip \/ (\E dst \in V : Finish(dst)) \/ GiveUp

Spec == Init /\ [][Next]_vars
FairSpec == Spec /\ WF_vars(Next)

-----------------------------------------------------------------------------

TypeOK ==
  /\ availE \subseteq E /\ eSet \subseteq E /\ pickedE \subseteq E
  /\ forest \in Seq(SUBSET E)
  /\ parent \in [V -> V]
  /\ rank \in [V -> Nat]
  /\ storedE \in [V -> SUBSET E]
  /\ edgesAtNode \in [V -> Nat]
  /\ e \in E \cup {NoEdge}
  /\ tryCount \in 0..MaxTries
  /\ pc \in {"tree", "done"}

(* What keeps djs_find from recursing forever, and shallow: following a    *)
(* parent pointer strictly raises the rank, and a root of rank r heads at  *)
(* least 2^r vertices.  Compression rewires pointers but never ranks.      *)
RankOrder ==
  /\ \A v \in V : parent[v] # v => rank[v] < rank[parent[v]]
  /\ \A v \in V : parent[v] = v =>
       Cardinality({w \in V : Root[w] = v}) >= 2 ^ rank[v]

(* Parent pointers, ranks, compression and the redraws are invisible:      *)
(* every step is a step of the partition algorithm or none.                *)
Partition == INSTANCE EdstForest WITH
  block <- [v \in V |-> {w \in V : Root[w] = Root[v]}],
  es    <- [v \in V |-> storedE[Root[v]]]

Refinement == Partition!Spec

(* What EdstForest promises of its forest, of the trees built here: its    *)
(* inductive invariant over these data, trees that share no edge (availE   *)
(* is one set passed from call to call),                                   *)
IInv == TypeOK /\ Partition!IInv
TreesDisjoint == Partition!TreesDisjoint

(* trees that span although they are read off _es of a root that the       *)
(* unions, in their order, happened to leave on top,                       *)
TreesSpan == Partition!TreesSpan

(* and a forest that ends only when what is left of the cables cannot      *)
(* connect the network, whatever was drawn and redrawn.                    *)
Maximal == Partition!Maximal

(* Redrawing never starves the loop: every call ends.                      *)
Terminates == <>(pc = "done")
=============================================================================

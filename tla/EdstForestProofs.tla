-------------------------- MODULE EdstForestProofs --------------------------
(***************************************************************************)
(* For every network, whatever the random choices: edst_forest builds      *)
(* pairwise edge-disjoint spanning trees, loses no edge while it builds    *)
(* them, and stops only when no further tree can be found in what is left. *)
(***************************************************************************)
EXTENDS EdstForest, FiniteSetTheorems, TLAPS

-----------------------------------------------------------------------------
(* Facts about graphs.                                                     *)

(* Connected pieces joined by an edge are connected.                       *)
LEMMA MergeConnects ==
  ASSUME NEW A, NEW B, NEW T, NEW U, NEW e,
         Connects(T, A), Connects(U, B),
         NEW a \in A \cap Ends[e], NEW b \in B \cap Ends[e]
  PROVE  Connects(T \cup U \cup {e}, A \cup B)
<1>1. SUFFICES ASSUME NEW X \in SUBSET (A \cup B), Splits(X, A \cup B)
               PROVE  \E f \in T \cup U \cup {e} : Splits(X, Ends[f] \cap (A \cup B))
  BY DEF Connects
<1>2. CASE Splits(X \cap A, A)
  <2>1. PICK f \in T : Splits(X \cap A, Ends[f] \cap A)
    BY <1>2 DEF Connects
  <2> QED BY <2>1 DEF Splits
<1>3. CASE Splits(X \cap B, B)
  <2>1. PICK f \in U : Splits(X \cap B, Ends[f] \cap B)
    BY <1>3 DEF Connects
  <2> QED BY <2>1 DEF Splits
<1>4. CASE ~Splits(X \cap A, A) /\ ~Splits(X \cap B, B)
  <2>1. (A \subseteq X \/ A \cap X = {}) /\ (B \subseteq X \/ B \cap X = {})
    BY <1>4 DEF Splits
  <2>2. Splits(X, Ends[e] \cap (A \cup B))
    BY <2>1, <1>1 DEF Splits
  <2> QED BY <2>2
<1> QED BY <1>2, <1>3, <1>4

(* The two ends of an edge.                                                *)
LEMMA TwoEnds ==
  ASSUME NEW e \in E
  PROVE  \E a, b \in V : a # b /\ Ends[e] = {a, b}
BY TopologyAssumption

(* There are finitely many blocks and picked edges.                        *)
LEMMA FiniteBlocks ==
  ASSUME TypeOK
  PROVE  IsFiniteSet(Blocks) /\ IsFiniteSet(pickedE)
<1>1. IsFiniteSet(SUBSET V)
  BY FS_SUBSET, TopologyAssumption
<1>2. Blocks \in SUBSET (SUBSET V)
  BY DEF Blocks, TypeOK
<1>3. IsFiniteSet(pickedE)
  BY FS_Subset, TopologyAssumption DEF TypeOK
<1> QED BY <1>1, <1>2, <1>3, FS_Subset

-----------------------------------------------------------------------------
(* The start of an edst_tree call: isolated vertices.                      *)

Fresh ==
  block = [v \in V |-> {v}] /\ es = [v \in V |-> {}] /\ pickedE = {}

LEMMA Isolated == Fresh => Partitioned /\ Stored /\ Counted
<1> SUFFICES ASSUME Fresh PROVE Partitioned /\ Stored /\ Counted
  OBVIOUS
<1> USE DEF Fresh
<1>1. Partitioned
  BY DEF Partitioned, Connects, Splits
<1>2. Stored
  BY DEF Stored
<1>3. Cardinality(Blocks) = Cardinality(V)
  <2> DEFINE f == [v \in V |-> {v}]
  <2>1. f \in [V -> Blocks] /\ \A B \in Blocks : \E v \in V : f[v] = B
    BY DEF Blocks
  <2>2. \A u, v \in V : f[u] = f[v] => u = v
    OBVIOUS
  <2>3. f \in Bijection(V, Blocks)
    <3> HIDE DEF f
    <3> QED BY <2>1, <2>2 DEF Bijection, Injection, Surjection, IsInjective
  <2> QED BY <2>3, FS_Bijection, TopologyAssumption DEF ExistsBijection
<1>4. Counted
  <2>1. Cardinality(pickedE) = 0
    BY FS_EmptySet
  <2>2. Cardinality(V) \in Nat
    BY FS_CardinalityType, TopologyAssumption
  <2> QED BY <1>3, <2>1, <2>2 DEF Counted
<1> QED BY <1>1, <1>2, <1>4

LEMMA InitInv == Init => IInv
<1> SUFFICES ASSUME Init PROVE IInv
  OBVIOUS
<1>1. TypeOK
  BY DEF Init, TypeOK
<1>2. Partitioned /\ Stored /\ Counted
  BY Isolated DEF Init, Fresh
<1>3. InForest = {}
  BY DEF Init, InForest
<1>4. TreesDisjoint /\ TreesSpan /\ NoEdgeLost
  BY <1>3 DEF Init, TreesDisjoint, TreesSpan, NoEdgeLost
<1>5. Maximal
  BY ForestArguments DEF Init, Maximal
<1>6. Considered
  BY DEF Init, Considered
<1> QED BY <1>1, <1>2, <1>4, <1>5, <1>6 DEF IInv

-----------------------------------------------------------------------------
(* What the counting gives: when |V|-1 edges are picked, one block is left *)
(* and every vertex holds all the picked edges.                            *)

LEMMA Spanning ==
  ASSUME IInv, Cardinality(pickedE) >= Cardinality(V) - 1, NEW root \in V
  PROVE  es[root] = pickedE /\ SpanningTree(pickedE)
<1>1. /\ Cardinality(Blocks) \in Nat /\ Cardinality(pickedE) \in Nat
      /\ Cardinality(V) \in Nat
  BY FiniteBlocks, FS_CardinalityType, TopologyAssumption DEF IInv
<1>2. Cardinality(Blocks) # 0
  BY FS_EmptySet, FiniteBlocks, TopologyAssumption DEF IInv, Blocks
<1>3. Cardinality(Blocks) = 1 /\ Cardinality(pickedE) = Cardinality(V) - 1
  BY <1>1, <1>2 DEF IInv, Counted
<1>4. PICK b : Blocks = {b}
  BY <1>3, FS_Singleton, FiniteBlocks DEF IInv
<1>5. \A v \in V : block[v] = block[root]
  BY <1>4 DEF Blocks
<1>6. block[root] = V
  BY <1>5 DEF IInv, Partitioned, TypeOK
<1>7. es[root] = pickedE
  <2>1. es[root] \subseteq pickedE
    BY DEF IInv, Stored
  <2>2. ASSUME NEW e \in pickedE PROVE e \in es[root]
    <3>1. PICK a \in V : a \in Ends[e]
      BY TwoEnds DEF IInv, TypeOK
    <3>2. e \in es[a]
      BY <3>1 DEF IInv, Stored
    <3>3. es[a] = es[root]
      BY <3>1, <1>6 DEF IInv, Partitioned
    <3> QED BY <3>2, <3>3
  <2> QED BY <2>1, <2>2
<1>8. Connects(pickedE, V)
  BY <1>6, <1>7 DEF IInv, Partitioned
<1> QED BY <1>3, <1>7, <1>8 DEF SpanningTree, IInv, TypeOK

(* A block other than V is a cut no remaining edge crosses.                *)
LEMMA Stuck ==
  ASSUME IInv, Growing, eSet = {}
  PROVE  ~Connects(E \ InForest, V)
<1>1. /\ Cardinality(Blocks) \in Nat /\ Cardinality(pickedE) \in Nat
      /\ Cardinality(V) \in Nat
  BY FiniteBlocks, FS_CardinalityType, TopologyAssumption DEF IInv
<1>2. Cardinality(Blocks) # 1
  BY <1>1 DEF IInv, Counted, Growing
<1>3. PICK v \in V : block[v] # V
  <2>1. ASSUME \A v \in V : block[v] = V PROVE FALSE
    <3>1. Blocks = {V}
      BY <2>1, TopologyAssumption DEF Blocks
    <3> QED BY <3>1, <1>2, FS_Singleton
  <2> QED BY <2>1
<1> DEFINE X == block[v]
<1>4. X \in SUBSET V /\ Splits(X, V)
  BY <1>3 DEF IInv, TypeOK, Partitioned, Splits
<1>5. ASSUME NEW e \in E \ InForest PROVE ~Splits(X, Ends[e] \cap V)
  <2>1. e \in availE \/ e \in pickedE
    BY <1>5 DEF IInv, NoEdgeLost, Growing
  <2>2. \A a, b \in Ends[e] : block[a] = block[b]
    BY <2>1 DEF IInv, Considered, Separates, Stored
  <2>3. \A a \in Ends[e] \cap X : block[a] = X
    BY <1>4 DEF IInv, Partitioned
  <2>4. Ends[e] \subseteq V
    BY TopologyAssumption
  <2> QED BY <2>2, <2>3, <2>4 DEF IInv, Partitioned, Splits
<1> QED BY <1>4, <1>5 DEF Connects

-----------------------------------------------------------------------------
(* One step of the algorithm.                                              *)

LEMMA UseInv ==
  ASSUME IInv, NEW e \in E, Use(e)
  PROVE  IInv'
<1>1. PICK a, b \in V : a # b /\ Ends[e] = {a, b}
  BY TwoEnds
<1> DEFINE A == block[a]  B == block[b]
<1>2. A # B
  BY <1>1 DEF Use, Separates
<1>3. /\ block' = [w \in V |-> IF w \in A \cup B THEN A \cup B ELSE block[w]]
      /\ es' = [w \in V |-> IF w \in A \cup B THEN es[a] \cup es[b] \cup {e} ELSE es[w]]
  <2>1. UNION {block[u] : u \in Ends[e]} = A \cup B
    BY <1>1
  <2>2. UNION {es[u] : u \in Ends[e]} = es[a] \cup es[b]
    BY <1>1
  <2> QED BY <2>1, <2>2 DEF Use, Union
<1>4. TypeOK'
  BY <1>1, <1>3 DEF IInv, TypeOK, Use
<1>5. A \subseteq V /\ B \subseteq V /\ a \in A /\ b \in B
  BY DEF IInv, TypeOK, Partitioned
<1>6. \A w \in V : w \notin A \cup B => block[w] \cap (A \cup B) = {}
  BY <1>5 DEF IInv, Partitioned
<1>7. Partitioned'
  <2>1. \A v \in V : v \in block'[v]
    BY <1>3 DEF IInv, Partitioned
  <2>2. \A v \in V : \A w \in block'[v] : block'[w] = block'[v] /\ es'[w] = es'[v]
    BY <1>3, <1>5, <1>6 DEF IInv, Partitioned, TypeOK
  <2>3. Connects(es[a] \cup es[b] \cup {e}, A \cup B)
    BY <1>1, <1>5, MergeConnects DEF IInv, Partitioned
  <2>4. \A v \in V : Connects(es'[v], block'[v])
    BY <1>3, <2>3 DEF IInv, Partitioned
  <2> QED BY <2>1, <2>2, <2>4 DEF Partitioned
<1>8. Stored'
  <2>1. \A v \in V : es'[v] \subseteq pickedE'
    BY <1>3 DEF IInv, Stored, Use
  <2>2. ASSUME NEW f \in pickedE', NEW u \in Ends[f], NEW v \in Ends[f]
        PROVE  f \in es'[v] /\ block'[u] = block'[v]
    <3>1. CASE f = e
      BY <3>1, <1>1, <1>3, <1>5
    <3>2. CASE f \in pickedE
      <4>1. u \in V /\ v \in V /\ f \in es[v] /\ block[u] = block[v]
        BY <3>2, TopologyAssumption DEF IInv, Stored, TypeOK
      <4>2. u \in A \cup B <=> v \in A \cup B
        BY <4>1, <1>6, <1>5 DEF IInv, Partitioned
      <4>3. v \in A \cup B => es[v] \subseteq es[a] \cup es[b]
        BY DEF IInv, Partitioned
      <4> QED BY <4>1, <4>2, <4>3, <1>3
    <3> QED BY <3>1, <3>2 DEF Use
  <2> QED BY <2>1, <2>2 DEF Stored
<1>9. Counted'
  <2>1. Blocks' = (Blocks \ {A, B}) \cup {A \cup B}
    <3>1. ASSUME NEW X \in Blocks' PROVE X \in (Blocks \ {A, B}) \cup {A \cup B}
      <4>1. PICK w \in V : X = block'[w]
        BY DEF Blocks
      <4>2. CASE w \in A \cup B
        BY <4>1, <4>2, <1>3
      <4>3. CASE w \notin A \cup B
        BY <4>1, <4>3, <1>3 DEF Blocks, IInv, Partitioned
      <4> QED BY <4>2, <4>3
    <3>2. ASSUME NEW X \in Blocks, X # A, X # B PROVE X \in Blocks'
      <4>1. PICK w \in V : X = block[w]
        BY DEF Blocks
      <4>2. w \notin A \cup B
        BY <4>1, <3>2 DEF IInv, Partitioned
      <4> QED BY <4>1, <4>2, <1>3 DEF Blocks
    <3>3. A \cup B \in Blocks'
      BY <1>3, <1>5 DEF Blocks
    <3> QED BY <3>1, <3>2, <3>3
  <2>2. A \in Blocks /\ B \in Blocks
    BY DEF Blocks
  <2>3. A \cup B \notin Blocks
    <3>1. ASSUME NEW w \in V, block[w] = A \cup B PROVE FALSE
      BY <3>1, <1>2, <1>5 DEF IInv, Partitioned
    <3> QED BY <3>1 DEF Blocks
  <2>4. /\ IsFiniteSet(Blocks) /\ IsFiniteSet(pickedE)
        /\ Cardinality(Blocks) \in Nat /\ Cardinality(pickedE) \in Nat
        /\ Cardinality(V) \in Nat
    BY FiniteBlocks, FS_CardinalityType, TopologyAssumption DEF IInv
  <2> DEFINE S1 == Blocks \ {A}  S2 == S1 \ {B}
  <2>5. IsFiniteSet(S1) /\ Cardinality(S1) = Cardinality(Blocks) - 1
    BY <2>2, <2>4, FS_RemoveElement
  <2>6. IsFiniteSet(S2) /\ Cardinality(S2) = Cardinality(Blocks) - 2
    <3> HIDE DEF S1, A, B
    <3>1. B \in S1
      BY <2>2, <1>2 DEF S1
    <3> QED BY <3>1, <2>5, <2>4, FS_RemoveElement, SMTT(30)
  <2>7. Blocks' = S2 \cup {A \cup B} /\ A \cup B \notin S2
    BY <2>1, <2>3
  <2>8. Cardinality(Blocks') = Cardinality(Blocks) - 1
    <3>1. Cardinality(S2 \cup {A \cup B}) = Cardinality(S2) + 1
      BY <2>6, <2>7, FS_AddElement
    <3>2. Cardinality(Blocks') = Cardinality(S2 \cup {A \cup B})
      BY <2>7
    <3> HIDE DEF S2, A, B
    <3> QED BY <3>1, <3>2, <2>6, <2>4
  <2>9. e \notin pickedE
    BY DEF IInv, Considered, Use
  <2>10. Cardinality(pickedE') = Cardinality(pickedE) + 1
    BY <2>9, <2>4, FS_AddElement DEF Use
  <2> QED BY <2>4, <2>8, <2>10 DEF IInv, Counted
<1>10. Considered'
  <2>1. eSet' \subseteq availE' /\ availE' \cap pickedE' = {}
    BY DEF IInv, Considered, Use
  <2>2. ASSUME NEW f \in availE' \ eSet', NEW u \in Ends[f], NEW v \in Ends[f]
        PROVE  block'[u] = block'[v]
    <3>1. f \in availE \ eSet /\ u \in V /\ v \in V
      BY TopologyAssumption DEF Use, IInv, TypeOK
    <3>2. block[u] = block[v]
      BY <3>1 DEF IInv, Considered, Separates
    <3>3. u \in A \cup B <=> v \in A \cup B
      BY <3>1, <3>2, <1>5, <1>6 DEF IInv, Partitioned
    <3> QED BY <3>1, <3>2, <3>3, <1>3
  <2> QED BY <2>1, <2>2 DEF Considered, Separates
<1>11. forest' = forest /\ pc' = pc /\ pc = "tree" /\ InForest' = InForest
  BY DEF Use, Growing, InForest
<1>12. availE' \cup pickedE' = availE \cup pickedE
  BY DEF Use, IInv, Considered
<1>13. TreesDisjoint' /\ TreesSpan' /\ NoEdgeLost'
  BY <1>11, <1>12 DEF IInv, TreesDisjoint, TreesSpan, NoEdgeLost
<1>14. Maximal'
  BY <1>11 DEF Maximal
<1> QED BY <1>4, <1>7, <1>8, <1>9, <1>10, <1>13, <1>14 DEF IInv

(* Skipping an edge within a block keeps the invariant.                    *)
LEMMA SkipInv ==
  ASSUME IInv, NEW e \in E, Skip(e)
  PROVE  IInv'
<1>1. UNCHANGED <<availE, pickedE, block, es, forest, pc>>
  BY DEF Skip
<1>2. TypeOK'
  BY DEF IInv, TypeOK, Skip
<1>3. Considered'
  <2>1. eSet' \subseteq availE' /\ availE' \cap pickedE' = {}
    BY DEF IInv, Considered, Skip
  <2>2. ASSUME NEW f \in availE' \ eSet' PROVE ~Separates(f)'
    BY DEF IInv, Considered, Skip, Separates
  <2> QED BY <2>1, <2>2 DEF Considered
<1>4. Partitioned' /\ Stored' /\ Counted'
  BY <1>1 DEF IInv, Partitioned, Stored, Counted, Blocks
<1>5. TreesDisjoint' /\ TreesSpan' /\ NoEdgeLost' /\ Maximal'
  BY <1>1 DEF IInv, TreesDisjoint, TreesSpan, NoEdgeLost, Maximal, InForest
<1> QED BY <1>2, <1>3, <1>4, <1>5 DEF IInv

(* Handing over a tree keeps it: what is left is free for the next one.    *)
LEMMA FinishInv ==
  ASSUME IInv, NEW root \in V, Finish(root)
  PROVE  IInv'
<1>1. es[root] = pickedE /\ SpanningTree(pickedE)
  BY Spanning DEF Finish
<1>2. /\ forest \in Seq(SUBSET E) /\ pickedE \in SUBSET E
      /\ forest' = Append(forest, pickedE)
  BY <1>1 DEF Finish, IInv, TypeOK
<1>3. /\ Len(forest') = Len(forest) + 1
      /\ forest'[Len(forest) + 1] = pickedE
      /\ \A i \in 1..Len(forest) : forest'[i] = forest[i]
      /\ 1..Len(forest') = (1..Len(forest)) \cup {Len(forest) + 1}
  BY <1>2
<1>4. InForest' = InForest \cup pickedE
  BY <1>2, <1>3, SMTT(30) DEF InForest
<1>5. pc = "tree" /\ availE' = availE
  BY DEF Finish
<1>6. \A i \in 1..Len(forest) : forest[i] \subseteq InForest
  BY <1>2 DEF InForest
<1>7. TreesSpan'
  BY <1>1, <1>3 DEF IInv, TreesSpan
<1>8. \A i, j \in 1..Len(forest') : i # j => forest'[i] \cap forest'[j] = {}
  <2>1. \A i \in 1..Len(forest) : forest[i] \cap pickedE = {}
    BY <1>5, <1>6 DEF IInv, TreesDisjoint
  <2> QED BY <2>1, <1>3 DEF IInv, TreesDisjoint
<1>9. CASE QuitEarly /\ Len(forest') >= NumTrees
  <2>1. pc' = "done" /\ UNCHANGED <<eSet, pickedE, block, es>>
    BY <1>9 DEF Finish
  <2>2. TypeOK'
    BY <2>1, <1>2, <1>5 DEF IInv, TypeOK
  <2>3. TreesDisjoint' /\ NoEdgeLost' /\ Maximal'
    BY <2>1, <1>8, <1>9 DEF TreesDisjoint, NoEdgeLost, Maximal
  <2>4. Partitioned' /\ Stored' /\ Counted' /\ Considered'
    BY <2>1, <1>5 DEF IInv, Partitioned, Stored, Counted, Blocks, Considered, Separates
  <2> QED BY <2>2, <2>3, <2>4, <1>7 DEF IInv
<1>10. CASE ~(QuitEarly /\ Len(forest') >= NumTrees)
  <2>1. /\ pc' = "tree" /\ eSet' = availE /\ pickedE' = {}
        /\ block' = [v \in V |-> {v}] /\ es' = [v \in V |-> {}]
    BY <1>10, <1>5 DEF Finish
  <2>2. TypeOK'
    BY <2>1, <1>2, <1>5 DEF IInv, TypeOK
  <2>3. Partitioned' /\ Stored' /\ Counted'
    <3>1. Fresh'
      BY <2>1 DEF Fresh
    <3> QED BY <3>1, Isolated, PTL
  <2>4. Considered'
    BY <2>1, <1>5 DEF Considered
  <2>5. TreesDisjoint'
    BY <2>1, <1>4, <1>5, <1>8 DEF IInv, TreesDisjoint, Considered
  <2>6. NoEdgeLost'
    BY <2>1, <1>4, <1>5 DEF IInv, NoEdgeLost
  <2>7. Maximal'
    BY <2>1 DEF Maximal
  <2> QED BY <2>2, <2>3, <2>4, <2>5, <2>6, <2>7, <1>7 DEF IInv
<1> QED BY <1>9, <1>10

(* Giving up keeps it.                                                     *)
LEMMA GiveUpInv ==
  ASSUME IInv, GiveUp
  PROVE  IInv'
<1>1. UNCHANGED <<availE, eSet, pickedE, block, es, forest>> /\ pc' = "done"
  BY DEF GiveUp
<1>2. InForest' = InForest
  BY <1>1 DEF InForest
<1>3. Maximal'
  <2>1. ~Connects(E \ InForest, V)
    BY Stuck DEF GiveUp
  <2> QED BY <2>1, <1>2 DEF Maximal
<1>4. TypeOK' /\ TreesDisjoint' /\ TreesSpan' /\ NoEdgeLost'
  BY <1>1 DEF IInv, TypeOK, TreesDisjoint, TreesSpan, NoEdgeLost
<1>5. Partitioned' /\ Stored' /\ Counted' /\ Considered'
  BY <1>1 DEF IInv, Partitioned, Stored, Counted, Blocks, Considered, Separates
<1> QED BY <1>3, <1>4, <1>5 DEF IInv

(* And so does doing nothing.                                              *)
LEMMA StutterInv ==
  ASSUME IInv, UNCHANGED vars
  PROVE  IInv'
BY DEF IInv, vars, TypeOK, TreesDisjoint, TreesSpan, NoEdgeLost, Maximal,
       InForest, Partitioned, Stored, Counted, Blocks, Considered, Separates

-----------------------------------------------------------------------------

(* The strengthening holds in every reachable state.                       *)
THEOREM Invariance == Spec => []IInv
<1>1. IInv /\ [Next]_vars => IInv'
  <2> SUFFICES ASSUME IInv, [Next]_vars PROVE IInv'
    OBVIOUS
  <2> QED BY UseInv, SkipInv, FinishInv, GiveUpInv, StutterInv DEF Next
<1> QED BY InitInv, <1>1, PTL DEF Spec

(* Every variable of edst_forest keeps its type.                           *)
THEOREM TypeCorrect == Spec => []TypeOK
<1>1. IInv => TypeOK
  BY DEF IInv
<1> QED BY <1>1, Invariance, PTL

(* No edge is in two trees, on any network and for any random choices.     *)
THEOREM Disjointness == Spec => []TreesDisjoint
<1>1. IInv => TreesDisjoint
  BY DEF IInv
<1> QED BY <1>1, Invariance, PTL

(* Every tree edst_forest returns is a spanning tree of the network.       *)
THEOREM SpanningTrees == Spec => []TreesSpan
<1>1. IInv => TreesSpan
  BY DEF IInv
<1> QED BY <1>1, Invariance, PTL

(* No edge disappears while trees are being built.                         *)
THEOREM EdgesKept == Spec => []NoEdgeLost
<1>1. IInv => NoEdgeLost
  BY DEF IInv
<1> QED BY <1>1, Invariance, PTL

(* A forest shorter than asked for leaves a network that is not connected. *)
THEOREM MaximalForest == Spec => []Maximal
<1>1. IInv => Maximal
  BY DEF IInv
<1> QED BY <1>1, Invariance, PTL
=============================================================================

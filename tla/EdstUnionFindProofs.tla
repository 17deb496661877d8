------------------------ MODULE EdstUnionFindProofs ------------------------
(***************************************************************************)
(* For every network: edst_tree with parent pointers, ranks, compression   *)
(* and redraws implements the partition algorithm of EdstForest, so what   *)
(* EdstForestProofs shows of the forest holds of the one it builds.        *)
(*                                                                         *)
(* RootIn is a recursive function; what it computes is established by      *)
(* induction on how often a pointer is followed (NatSet).                  *)
(***************************************************************************)
EXTENDS EdstUnionFind, FiniteSetTheorems, TLAPS

-----------------------------------------------------------------------------
(* Induction on a set of numbers, from the library's well-founded order.   *)

(* The order of the numbers as a relation is well-founded.                *)
LEMMA NatLess == IsWellFoundedOn({p \in Nat \X Nat : p[1] < p[2]}, Nat)
BY NatLessThanWellFounded DEF OpToRel

(* A set of numbers with 0 that is closed under successors is all of Nat.  *)
LEMMA NatSet ==
  ASSUME NEW S, 0 \in S, \A n \in Nat : n \in S => n + 1 \in S
  PROVE  Nat \subseteq S
<1> DEFINE R == {p \in Nat \X Nat : p[1] < p[2]}
<1> SUFFICES ASSUME Nat \ S # {} PROVE FALSE
  OBVIOUS
<1>1. IsWellFoundedOn(R, Nat)
  BY NatLess
<1>2. PICK n \in Nat \ S : \A m \in Nat \ S : ~(<<m, n>> \in R)
  <2> HIDE DEF R
  <2> QED BY <1>1, WFMin
<1>3. n # 0 /\ n - 1 \in Nat
  BY <1>2
<1>4. n - 1 \in S
  <2>1. <<n - 1, n>> \in R
    BY <1>3
  <2> HIDE DEF R
  <2> QED BY <1>2, <1>3, <2>1
<1> QED BY <1>2, <1>3, <1>4

(* The network has a finite, positive number of vertices.                  *)
LEMMA CardV == Cardinality(V) \in Nat /\ Cardinality(V) # 0
BY FS_CardinalityType, FS_EmptySet, TopologyAssumption

-----------------------------------------------------------------------------
(* Following parent pointers.                                              *)

(* up[n] maps a vertex to the one n pointers further.                      *)
Upward(p, up) ==
  /\ up \in [0..Cardinality(V) -> [V -> V]]
  /\ \A v \in V : up[0][v] = v
  /\ \A n \in 0..Cardinality(V) - 1 : \A v \in V : up[n + 1][v] = p[up[n][v]]

(* RootIn(p) is the last of a sequence of maps, each one pointer further.  *)
LEMMA Pointers ==
  ASSUME NEW p \in [V -> V]
  PROVE  \E up : Upward(p, up) /\ RootIn(p) = up[Cardinality(V)]
<1> DEFINE Id == [v \in V |-> v]
           Def(f, k) == f = [n \in 0..k |-> IF n = 0 THEN Id
                                     ELSE [v \in V |-> p[f[n - 1][v]]]]
           S == {k \in Nat : \E f \in [0..k -> [V -> V]] : Def(f, k)}
<1>1. 0 \in S
  <2>1. Def([n \in 0..0 |-> Id], 0)
    OBVIOUS
  <2>2. [n \in 0..0 |-> Id] \in [0..0 -> [V -> V]]
    OBVIOUS
  <2> QED BY <2>1, <2>2
<1>2. ASSUME NEW k \in Nat, k \in S PROVE k + 1 \in S
  <2>1. PICK f \in [0..k -> [V -> V]] : Def(f, k)
    BY <1>2
  <2> DEFINE g == [n \in 0..k + 1 |-> IF n = k + 1 THEN [v \in V |-> p[f[k][v]]] ELSE f[n]]
  <2>2. g \in [0..k + 1 -> [V -> V]]
    OBVIOUS
  <2>3. ASSUME NEW n \in 0..k + 1
        PROVE  g[n] = IF n = 0 THEN Id ELSE [v \in V |-> p[g[n - 1][v]]]
    <3>1. CASE n = 0
      BY <3>1, <2>1
    <3>2. CASE n = k + 1
      <4>1. k \in 0..k + 1 /\ k # k + 1 /\ n # 0 /\ n - 1 = k
        BY <3>2
      <4>2. g[k] = f[k]
        BY <4>1
      <4>3. g[n] = [v \in V |-> p[f[k][v]]]
        BY <3>2
      <4> HIDE DEF g
      <4> QED BY <4>1, <4>2, <4>3
    <3>3. CASE n # 0 /\ n # k + 1
      <4>1. n \in 0..k /\ n - 1 \in 0..k /\ n - 1 # k + 1
        BY <3>3
      <4>2. g[n] = f[n] /\ g[n - 1] = f[n - 1]
        BY <4>1
      <4>3. f[n] = [v \in V |-> p[f[n - 1][v]]]
        BY <4>1, <2>1, <3>3
      <4> QED BY <4>2, <4>3, <3>3
    <3> QED BY <3>1, <3>2, <3>3
  <2>4. Def(g, k + 1)
    <3> HIDE DEF Id
    <3>1. g = [n \in 0..k + 1 |-> g[n]]
      OBVIOUS
    <3> HIDE DEF g
    <3> QED BY <3>1, <2>3
  <2> HIDE DEF Def, g
  <2> QED BY <2>2, <2>4
<1>3. Cardinality(V) \in S
  <2> HIDE DEF S
  <2> QED BY <1>1, <1>2, NatSet, CardV
<1> DEFINE up == CHOOSE f : Def(f, Cardinality(V))
<1>4. PICK f \in [0..Cardinality(V) -> [V -> V]] : Def(f, Cardinality(V))
  BY <1>3
<1>5. Def(up, Cardinality(V))
  <2> HIDE DEF Def
  <2> QED BY <1>4
<1>6. RootIn(p) = up[Cardinality(V)]
  BY DEF RootIn
<1> HIDE DEF up
<1> DEFINE T == {n \in Nat : n \in 0..Cardinality(V) => up[n] \in [V -> V]}
<1>7. 0 \in T
  BY <1>5, CardV
<1>8. ASSUME NEW n \in Nat, n \in T PROVE n + 1 \in T
  <2> SUFFICES ASSUME n + 1 \in 0..Cardinality(V) PROVE up[n + 1] \in [V -> V]
    OBVIOUS
  <2>1. up[n] \in [V -> V]
    BY <1>8, CardV
  <2>2. up[n + 1] = [v \in V |-> p[up[n][v]]]
    <3>1. n + 1 # 0 /\ (n + 1) - 1 = n
      OBVIOUS
    <3>2. up[n + 1] = IF n + 1 = 0 THEN Id ELSE [v \in V |-> p[up[(n + 1) - 1][v]]]
      <4> HIDE DEF Id
      <4> QED BY <1>5
    <3> HIDE DEF Id
    <3> QED BY <3>1, <3>2
  <2> QED BY <2>1, <2>2
<1>9. Nat \subseteq T
  <2> HIDE DEF T
  <2> QED BY <1>7, <1>8, NatSet
<1>10. up \in [0..Cardinality(V) -> [V -> V]]
  <2>1. \A n \in 0..Cardinality(V) : up[n] \in [V -> V]
    BY <1>9, CardV
  <2>2. up = [n \in 0..Cardinality(V) |-> up[n]]
    <3> HIDE DEF Id
    <3> QED BY <1>5
  <2> QED BY <2>1, <2>2
<1>11. Upward(p, up)
  BY <1>10, <1>5, CardV DEF Upward
<1> QED BY <1>11, <1>6

-----------------------------------------------------------------------------
(* Ranks that rise along the pointers and stay below |V|.                  *)
Ranked(p, r) ==
  /\ p \in [V -> V] /\ r \in [V -> Nat]
  /\ \A v \in V : p[v] # v => r[v] < r[p[v]]
  /\ \A v \in V : r[v] < Cardinality(V)

(* Where following the pointers ends: at a root, the same one from a       *)
(* vertex as from its parent, of higher rank than the vertices below.      *)
LEMMA Roots ==
  ASSUME NEW p, NEW r, Ranked(p, r)
  PROVE  /\ RootIn(p) \in [V -> V]
         /\ \A v \in V :
              /\ p[RootIn(p)[v]] = RootIn(p)[v]
              /\ RootIn(p)[p[v]] = RootIn(p)[v]
              /\ p[v] = v => RootIn(p)[v] = v
              /\ RootIn(p)[v] # v => r[v] < r[RootIn(p)[v]]
<1> DEFINE N == Cardinality(V)
<1>1. PICK up : Upward(p, up) /\ RootIn(p) = up[N]
  BY Pointers DEF Ranked
<1>2. N \in Nat /\ N # 0
  BY CardV
<1> HIDE DEF N
<1>3. /\ up \in [0..N -> [V -> V]]
      /\ \A v \in V : up[0][v] = v
      /\ \A n \in 0..N - 1 : \A v \in V : up[n + 1][v] = p[up[n][v]]
  BY <1>1 DEF Upward, N
<1>4. RootIn(p) \in [V -> V]
  BY <1>1, <1>2, <1>3
<1> DEFINE A(n, v) == /\ p[up[n][v]] = up[n][v] \/ r[up[n][v]] >= n
                      /\ p[v] = v => up[n][v] = v
                      /\ up[n][v] # v => r[v] < r[up[n][v]]
                      /\ up[n][p[v]] = p[up[n][v]]
           S == {n \in Nat : n \in 0..N => \A v \in V : A(n, v)}
<1>5. 0 \in S
  <2> SUFFICES ASSUME NEW v \in V PROVE A(0, v)
    <3> HIDE DEF A
    <3> QED OBVIOUS
  <2>1. up[0][v] = v /\ p[v] \in V /\ r[v] \in Nat
    BY <1>3 DEF Ranked
  <2>2. up[0][p[v]] = p[v]
    BY <1>3, <2>1
  <2> QED BY <2>1, <2>2
<1>6. ASSUME NEW n \in Nat, n \in S PROVE n + 1 \in S
  <2> SUFFICES ASSUME n + 1 \in 0..N, NEW v \in V PROVE A(n + 1, v)
    <3> HIDE DEF A
    <3> QED OBVIOUS
  <2>1. n \in 0..N /\ n \in 0..N - 1
    BY <1>2
  <2>2. A(n, v)
    <3> HIDE DEF A
    <3> QED BY <1>6, <2>1
  <2> DEFINE w == up[n][v]
  <2>3. w \in V /\ p[v] \in V /\ p[w] \in V /\ p[p[w]] \in V
    <3>1. p \in [V -> V]
      BY DEF Ranked
    <3>2. up[n] \in [V -> V]
      BY <1>3, <2>1
    <3> QED BY <3>1, <3>2
  <2>4. up[n + 1][v] = p[w] /\ up[n + 1][p[v]] = p[p[w]]
    <3>1. up[n][p[v]] = p[w]
      BY <2>2
    <3>2. \A u \in V : up[n + 1][u] = p[up[n][u]]
      BY <1>3, <2>1
    <3> QED BY <3>1, <3>2, <2>3
  <2>5. /\ p[w] # w => r[w] < r[p[w]]
        /\ r[v] \in Nat /\ r[w] \in Nat /\ r[p[w]] \in Nat
    BY <2>3 DEF Ranked
  <2>6. p[w] # w => r[w] >= n
    BY <2>2
  <2>7. p[p[w]] = p[w] \/ r[p[w]] >= n + 1
    BY <2>5, <2>6
  <2>8. p[v] = v => p[w] = v
    BY <2>2
  <2>9. p[w] # v => r[v] < r[p[w]]
    <3>1. w # v => r[v] < r[w]
      BY <2>2
    <3> HIDE DEF w
    <3> QED BY <2>5, <3>1
  <2> HIDE DEF w
  <2> QED BY <2>4, <2>7, <2>8, <2>9
<1>7. \A v \in V : A(N, v)
  <2>1. Nat \subseteq S
    <3> HIDE DEF S
    <3> QED BY <1>5, <1>6, NatSet
  <2> HIDE DEF A
  <2> QED BY <2>1, <1>2
<1> SUFFICES ASSUME NEW v \in V
             PROVE  /\ p[RootIn(p)[v]] = RootIn(p)[v]
                    /\ RootIn(p)[p[v]] = RootIn(p)[v]
                    /\ p[v] = v => RootIn(p)[v] = v
                    /\ RootIn(p)[v] # v => r[v] < r[RootIn(p)[v]]
  BY <1>4
<1>8. A(N, v)
  <2> HIDE DEF A
  <2> QED BY <1>7
<1>9. up[N][v] \in V
  BY <1>2, <1>3
<1>10. p[up[N][v]] = up[N][v]
  <2>1. r[up[N][v]] \in Nat /\ r[up[N][v]] < N
    BY <1>9 DEF Ranked, N
  <2> QED BY <2>1, <1>2, <1>8
<1> QED BY <1>1, <1>8, <1>10

(* A function that is constant along the pointers and keeps the roots is   *)
(* the one that finds them.                                                *)
LEMMA RootIs ==
  ASSUME NEW p, NEW r, Ranked(p, r), NEW f \in [V -> V],
         \A v \in V : f[p[v]] = f[v],
         \A v \in V : p[v] = v => f[v] = v
  PROVE  RootIn(p) = f
<1> DEFINE N == Cardinality(V)
<1>1. PICK up : Upward(p, up) /\ RootIn(p) = up[N]
  BY Pointers DEF Ranked
<1>2. N \in Nat
  BY CardV
<1>3. /\ up \in [0..N -> [V -> V]]
      /\ \A v \in V : up[0][v] = v
      /\ \A n \in 0..N - 1 : \A v \in V : up[n + 1][v] = p[up[n][v]]
  BY <1>1 DEF Upward
<1> DEFINE S == {n \in Nat : n \in 0..N => \A v \in V : f[up[n][v]] = f[v]}
<1> HIDE DEF N
<1>4. 0 \in S
  BY <1>3
<1>5. ASSUME NEW n \in Nat, n \in S PROVE n + 1 \in S
  <2> SUFFICES ASSUME n + 1 \in 0..N, NEW v \in V PROVE f[up[n + 1][v]] = f[v]
    OBVIOUS
  <2>1. n \in 0..N /\ n \in 0..N - 1
    BY <1>2
  <2>2. f[up[n][v]] = f[v] /\ up[n][v] \in V
    BY <1>5, <2>1, <1>3
  <2>3. up[n + 1][v] = p[up[n][v]]
    BY <1>3, <2>1
  <2> QED BY <2>2, <2>3
<1>6. \A v \in V : f[up[N][v]] = f[v]
  <2>1. Nat \subseteq S
    <3> HIDE DEF S
    <3> QED BY <1>4, <1>5, NatSet
  <2> QED BY <2>1, <1>2
<1>7. \A v \in V : f[RootIn(p)[v]] = RootIn(p)[v]
  BY Roots
<1>8. \A v \in V : RootIn(p)[v] = f[v]
  BY <1>1, <1>6, <1>7
<1>9. RootIn(p) \in [V -> V]
  BY Roots
<1> QED BY <1>8, <1>9

(* Path compression keeps the ranks in order and every root.               *)
LEMMA Compressed ==
  ASSUME NEW p, NEW r, Ranked(p, r), NEW x
  PROVE  Ranked(Compress(p, x), r) /\ RootIn(Compress(p, x)) = RootIn(p)
<1> DEFINE f == RootIn(p)  c == Compress(p, x)
<1>1. /\ f \in [V -> V]
      /\ \A v \in V : /\ p[f[v]] = f[v] /\ f[p[v]] = f[v]
                      /\ p[v] = v => f[v] = v
                      /\ f[v] # v => r[v] < r[f[v]]
  BY Roots
<1>2. \A v \in V : c[v] = f[v] \/ c[v] = p[v]
  BY DEF Compress
<1>3. c \in [V -> V]
  BY <1>1 DEF Compress, Ranked
<1> HIDE DEF f, c
<1>4. Ranked(c, r)
  BY <1>1, <1>2, <1>3 DEF Ranked
<1>5. \A v \in V : f[c[v]] = f[v] /\ (c[v] = v => f[v] = v)
  BY <1>1, <1>2
<1>6. RootIn(c) = f
  BY <1>1, <1>4, <1>5, RootIs
<1> QED BY <1>4, <1>6 DEF f, c

-----------------------------------------------------------------------------
(* The inductive invariant: the ranks, bounded by the edges picked, and the*)
(* edge under consideration.                                               *)
UFInv ==
  /\ TypeOK
  /\ Ranked(parent, rank)
  /\ \A v \in V : rank[v] <= Cardinality(pickedE)
  /\ eSet \subseteq availE /\ availE \cap pickedE = {}
  /\ e # NoEdge => Growing /\ e \in eSet

(* djs_find on both ends of an edge changes neither roots nor ranks.       *)
LEMMA Found ==
  ASSUME UFInv, NEW f \in E
  PROVE  /\ Ranked(FoundBoth(f), rank)
         /\ RootIn(FoundBoth(f)) = Root
<1> DEFINE u == CHOOSE w \in Ends[f] : TRUE
           p == Compress(parent, u)
<1>1. Ranked(p, rank) /\ RootIn(p) = Root
  BY Compressed DEF UFInv, Root
<1>2. Ranked(Compress(p, Other(u, f)), rank) /\ RootIn(Compress(p, Other(u, f))) = RootIn(p)
  <2> HIDE DEF p, u
  <2> QED BY <1>1, Compressed
<1> QED BY <1>1, <1>2 DEF FoundBoth

(* The start of a call: every vertex is its own root.                      *)
LEMMA Alone ==
  ASSUME NEW p, NEW r, p = [v \in V |-> v], r = [v \in V |-> 0]
  PROVE  Ranked(p, r) /\ RootIn(p) = [v \in V |-> v]
<1>1. Ranked(p, r)
  BY CardV DEF Ranked
<1>2. [v \in V |-> v] \in [V -> V]
  OBVIOUS
<1> QED BY <1>1, <1>2, RootIs

(* What one union does to the pointers, the ranks and the roots.           *)
LEMMA Unite ==
  ASSUME UFInv, Growing, e \in E, NEW x \in V, NEW y \in V,
         Root[x] # Root[y], UnionRoots(x, y, e)
  PROVE  /\ Ranked(parent', rank')
         /\ \A v \in V : rank'[v] <= Cardinality(pickedE) + 1
         /\ \E top, below \in V :
              /\ {top, below} = {Root[x], Root[y]}
              /\ Root' = [v \in V |-> IF Root[v] = below THEN top ELSE Root[v]]
              /\ storedE' = [storedE EXCEPT ![top] =
                              storedE[Root[x]] \cup storedE[Root[y]] \cup {e}]
              /\ \A v \in V \ {top} : rank'[v] = rank[v]
              /\ \/ rank'[top] = rank[top]
                 \/ rank'[top] = rank[top] + 1 /\ rank[below] = rank[top]
<1> DEFINE p      == FoundBoth(e)
           xRoot  == Root[x]
           yRoot  == Root[y]
           top    == IF rank[xRoot] >= rank[yRoot] THEN xRoot ELSE yRoot
           below  == IF top = xRoot THEN yRoot ELSE xRoot
           joined == storedE[xRoot] \cup storedE[yRoot] \cup {e}
<1>1. /\ parent' = [p EXCEPT ![below] = top]
      /\ rank' = IF rank[xRoot] = rank[yRoot]
                   THEN [rank EXCEPT ![xRoot] = @ + 1] ELSE rank
      /\ storedE' = [storedE EXCEPT ![top] = joined]
  BY DEF UnionRoots
<1>2. Ranked(p, rank) /\ RootIn(p) = Root
  BY Found
<1>3. /\ Root \in [V -> V]
      /\ \A v \in V : /\ p[Root[v]] = Root[v] /\ Root[p[v]] = Root[v]
                      /\ p[v] = v => Root[v] = v
  <2> HIDE DEF p
  <2> QED BY <1>2, Roots
<1>4. /\ xRoot \in V /\ yRoot \in V /\ xRoot # yRoot
      /\ p[xRoot] = xRoot /\ p[yRoot] = yRoot
  BY <1>3
<1> HIDE DEF p, xRoot, yRoot
<1>5. p \in [V -> V] /\ rank \in [V -> Nat] /\ \A v \in V : p[v] # v => rank[v] < rank[p[v]]
  BY <1>2 DEF Ranked
<1>6. \/ top = xRoot /\ below = yRoot /\ rank[xRoot] >= rank[yRoot]
      \/ top = yRoot /\ below = xRoot /\ rank[xRoot] < rank[yRoot]
  BY <1>4, <1>5
<1>7. top \in V /\ below \in V /\ top # below /\ {top, below} = {xRoot, yRoot}
  BY <1>4, <1>6
<1>8. p[top] = top /\ p[below] = below
  BY <1>4, <1>6
<1>9. /\ rank' \in [V -> Nat]
      /\ \A v \in V : rank'[v] >= rank[v] /\ rank'[v] <= rank[v] + 1
      /\ \A v \in V : p[v] # v => rank'[v] = rank[v]
      /\ rank'[below] < rank'[top]
  <2>1. CASE rank[xRoot] = rank[yRoot]
    <3>1. rank' = [rank EXCEPT ![xRoot] = rank[xRoot] + 1]
      BY <1>1, <2>1
    <3>2. top = xRoot /\ below = yRoot
      BY <1>4, <1>5, <1>6, <2>1
    <3> HIDE DEF top, below
    <3>3. \A v \in V : rank'[v] = IF v = xRoot THEN rank[xRoot] + 1 ELSE rank[v]
      BY <3>1, <1>4, <1>5
    <3>4. rank' \in [V -> Nat]
      BY <3>1, <1>4, <1>5
    <3> QED BY <3>2, <3>3, <3>4, <1>4, <1>5, <2>1
  <2>2. CASE rank[xRoot] # rank[yRoot]
    <3>1. rank' = rank
      BY <1>1, <2>2
    <3>2. rank[below] < rank[top]
      BY <1>4, <1>5, <1>6, <2>2
    <3> HIDE DEF top, below
    <3> QED BY <3>1, <3>2, <1>5
  <2> QED BY <2>1, <2>2
<1>9a. /\ \A v \in V \ {top} : rank'[v] = rank[v]
       /\ \/ rank'[top] = rank[top]
          \/ rank'[top] = rank[top] + 1 /\ rank[below] = rank[top]
  <2>1. CASE rank[xRoot] = rank[yRoot]
    <3>1. rank' = [rank EXCEPT ![xRoot] = rank[xRoot] + 1]
      BY <1>1, <2>1
    <3>2. top = xRoot /\ below = yRoot
      BY <1>4, <1>5, <1>6, <2>1
    <3> HIDE DEF top, below
    <3> QED BY <3>1, <3>2, <1>4, <1>5, <2>1
  <2>2. CASE rank[xRoot] # rank[yRoot]
    BY <1>1, <2>2
  <2> QED BY <2>1, <2>2
<1> HIDE DEF top, below
<1>10. /\ parent' \in [V -> V]
       /\ \A v \in V : parent'[v] = IF v = below THEN top ELSE p[v]
  BY <1>1, <1>5, <1>7
<1>11. \A v \in V : rank'[v] <= Cardinality(pickedE) + 1 /\ rank'[v] < Cardinality(V)
  <2>1. Cardinality(pickedE) \in Nat /\ Cardinality(V) \in Nat
    BY FS_Subset, FS_CardinalityType, TopologyAssumption DEF UFInv, TypeOK
  <2>2. Cardinality(pickedE) < Cardinality(V) - 1
    BY DEF Growing
  <2>3. \A v \in V : rank[v] <= Cardinality(pickedE)
    BY DEF UFInv
  <2> QED BY <2>1, <2>2, <2>3, <1>5, <1>9
<1>12. \A v \in V : parent'[v] # v => rank'[v] < rank'[parent'[v]]
  <2> SUFFICES ASSUME NEW v \in V, parent'[v] # v PROVE rank'[v] < rank'[parent'[v]]
    OBVIOUS
  <2>1. CASE v = below
    BY <2>1, <1>9, <1>10
  <2>2. CASE v # below
    <3>1. parent'[v] = p[v] /\ p[v] # v /\ p[v] \in V
      BY <2>2, <1>5, <1>10
    <3>2. rank'[v] = rank[v] /\ rank[v] < rank[p[v]] /\ rank'[p[v]] >= rank[p[v]]
      BY <3>1, <1>5, <1>9
    <3>3. rank[v] \in Nat /\ rank[p[v]] \in Nat /\ rank'[p[v]] \in Nat
      BY <3>1, <1>5, <1>9
    <3> QED BY <3>1, <3>2, <3>3
  <2> QED BY <2>1, <2>2
<1>13. Ranked(parent', rank')
  BY <1>9, <1>10, <1>11, <1>12 DEF Ranked
<1> DEFINE g == [v \in V |-> IF Root[v] = below THEN top ELSE Root[v]]
<1>14. g \in [V -> V]
  BY <1>3, <1>7
<1>15. \A v \in V : g[parent'[v]] = g[v]
  <2> SUFFICES ASSUME NEW v \in V PROVE g[parent'[v]] = g[v]
    OBVIOUS
  <2>1. Root[top] = top /\ Root[below] = below
    BY <1>3, <1>7, <1>8
  <2>2. CASE v = below
    BY <2>1, <2>2, <1>7, <1>10
  <2>3. CASE v # below
    BY <2>3, <1>3, <1>5, <1>10
  <2> QED BY <2>2, <2>3
<1>16. \A v \in V : parent'[v] = v => g[v] = v
  BY <1>3, <1>7, <1>10
<1>17. RootIn(parent') = g
  <2> HIDE DEF g
  <2> QED BY <1>13, <1>14, <1>15, <1>16, RootIs
<1>18. Root' = g
  BY <1>17 DEF Root
<1>19. \A v \in V : rank'[v] <= Cardinality(pickedE) + 1
  BY <1>11
<1> QED BY <1>1, <1>7, <1>9a, <1>13, <1>18, <1>19 DEF xRoot, yRoot

(* The edge taken by Use, with the end that is e.v1 made explicit.         *)
LEMMA Taken ==
  ASSUME UFInv, Use
  PROVE  /\ Growing /\ e \in E /\ e \in eSet
         /\ \E x, y \in V : /\ x # y /\ Ends[e] = {x, y}
                            /\ Root[x] # Root[y]
                            /\ UnionRoots(x, y, e)
<1>1. Growing /\ e # NoEdge /\ e \in E /\ e \in eSet
  BY DEF Use, Settled, UFInv, TypeOK
<1>2. PICK x \in Ends[e] : Root[x] # Root[Other(x, e)] /\ UnionRoots(x, Other(x, e), e)
  BY DEF Use
<1>3. PICK y \in V : x \in V /\ x # y /\ Ends[e] = {x, y}
  BY <1>1, TopologyAssumption
<1>4. Other(x, e) = y
  BY <1>3 DEF Other
<1> QED BY <1>1, <1>2, <1>3, <1>4

(* The first call starts with the invariant.                               *)
LEMMA InitUF == Init => UFInv
<1> SUFFICES ASSUME Init PROVE UFInv
  OBVIOUS
<1>1. TypeOK
  BY UnionFindArguments DEF Init, TypeOK
<1>2. Ranked(parent, rank)
  BY Alone DEF Init
<1>3. \A v \in V : rank[v] <= Cardinality(pickedE)
  BY FS_EmptySet DEF Init
<1> QED BY <1>1, <1>2, <1>3 DEF Init, UFInv

(* Drawing and redrawing an edge keeps it.                                 *)
LEMMA DrawInv == UFInv /\ (Draw \/ Redraw) => UFInv'
<1> SUFFICES ASSUME UFInv, Draw \/ Redraw PROVE UFInv'
  OBVIOUS
<1>1. /\ UNCHANGED <<availE, eSet, pickedE, forest, pc, parent, rank, storedE, edgesAtNode>>
      /\ Growing /\ e' \in eSet
  BY DEF Draw, Redraw, djs
<1>2. tryCount' \in 0..MaxTries
  BY UnionFindArguments DEF Draw, Redraw, UFInv, TypeOK
<1>3. TypeOK'
  BY <1>1, <1>2 DEF UFInv, TypeOK
<1>4. Ranked(parent, rank)'
  BY <1>1 DEF UFInv
<1> QED BY <1>1, <1>3, <1>4 DEF UFInv, Growing

(* Taking an edge keeps it: a rank grows at most by one with pickedE.      *)
LEMMA UseInv ==
  ASSUME UFInv, Use
  PROVE  UFInv'
<1>1. Growing /\ e \in E /\ e \in eSet
  BY Taken
<1>2. PICK x, y \in V : /\ x # y /\ Ends[e] = {x, y}
                       /\ Root[x] # Root[y] /\ UnionRoots(x, y, e)
  BY Taken
<1>3. /\ Ranked(parent', rank')
      /\ \A v \in V : rank'[v] <= Cardinality(pickedE) + 1
  BY <1>1, <1>2, Unite
<1>4. /\ pickedE' = pickedE \cup {e} /\ availE' = availE \ {e} /\ eSet' = eSet \ {e}
      /\ UNCHANGED <<forest, pc, tryCount>> /\ e' = NoEdge
      /\ edgesAtNode' = [v \in V |-> edgesAtNode[v] + (IF v \in Ends[e] THEN 1 ELSE 0)]
  BY DEF Use
<1>5. Cardinality(pickedE') = Cardinality(pickedE) + 1
  <2>1. IsFiniteSet(pickedE) /\ e \notin pickedE
    BY <1>1, FS_Subset, TopologyAssumption DEF UFInv, TypeOK
  <2> QED BY <2>1, <1>4, FS_AddElement
<1>6. storedE' \in [V -> SUBSET E]
  <2>1. PICK top \in V : storedE' = [storedE EXCEPT ![top] =
                              storedE[Root[x]] \cup storedE[Root[y]] \cup {e}]
    BY <1>1, <1>2, Unite, SMTT(30)
  <2>2. Root[x] \in V /\ Root[y] \in V
    BY <1>2, Roots DEF Root, UFInv
  <2>3. storedE \in [V -> SUBSET E]
    BY DEF UFInv, TypeOK
  <2> QED BY <2>1, <2>2, <2>3, <1>1
<1>7. edgesAtNode' \in [V -> Nat]
  BY <1>4 DEF UFInv, TypeOK
<1>8. TypeOK'
  BY <1>3, <1>4, <1>6, <1>7, <1>1 DEF UFInv, TypeOK, Ranked
<1> QED BY <1>3, <1>4, <1>5, <1>8 DEF UFInv

(* Skipping an edge compresses paths, nothing more.                        *)
LEMMA SkipInv ==
  ASSUME UFInv, Skip
  PROVE  UFInv'
<1>1. e \in E
  BY DEF Skip, Settled, UFInv, TypeOK
<1>2. Ranked(parent', rank)
  BY <1>1, Found DEF Skip
<1>3. /\ UNCHANGED <<availE, pickedE, forest, pc, rank, storedE, edgesAtNode, tryCount>>
      /\ eSet' = eSet \ {e} /\ e' = NoEdge
  BY DEF Skip
<1>4. TypeOK'
  BY <1>2, <1>3 DEF UFInv, TypeOK, Ranked
<1> QED BY <1>2, <1>3, <1>4 DEF UFInv

(* A new call starts with new sets.                                        *)
LEMMA FinishInv ==
  ASSUME UFInv, NEW dst \in V, Finish(dst)
  PROVE  UFInv'
<1>1. /\ UNCHANGED <<availE, e, tryCount>> /\ e = NoEdge
      /\ forest' = Append(forest, storedE[Root[dst]])
  <2>1. Cardinality(pickedE) \in Nat /\ Cardinality(V) \in Nat
    BY FS_Subset, FS_CardinalityType, TopologyAssumption DEF UFInv, TypeOK
  <2>2. ~Growing
    BY <2>1 DEF Finish, Growing
  <2> QED BY <2>2 DEF Finish, UFInv
<1>2. forest' \in Seq(SUBSET E)
  <2>1. Root[dst] \in V
    BY Roots DEF Root, UFInv
  <2> QED BY <1>1, <2>1 DEF UFInv, TypeOK
<1>3. CASE pc' = "done" /\ UNCHANGED <<eSet, pickedE, djs, edgesAtNode>>
  <2>1. TypeOK'
    BY <1>1, <1>2, <1>3 DEF UFInv, TypeOK, djs
  <2> QED BY <1>1, <1>3, <2>1 DEF UFInv, djs
<1>4. CASE eSet' = availE /\ pickedE' = {} /\ MakeSets /\ UNCHANGED pc
  <2>1. TypeOK'
    BY <1>1, <1>2, <1>4 DEF UFInv, TypeOK, MakeSets
  <2>2. Ranked(parent', rank')
    BY <1>4, Alone DEF MakeSets
  <2>3. \A v \in V : rank'[v] <= Cardinality(pickedE')
    BY <1>4, FS_EmptySet DEF MakeSets
  <2> QED BY <1>1, <1>4, <2>1, <2>2, <2>3 DEF UFInv
<1> QED BY <1>3, <1>4 DEF Finish

(* Giving up keeps it.                                                     *)
LEMMA GiveUpInv ==
  ASSUME UFInv, GiveUp
  PROVE  UFInv'
<1>1. /\ UNCHANGED <<availE, eSet, pickedE, forest, parent, rank, storedE, edgesAtNode, e, tryCount>>
      /\ eSet = {} /\ pc' = "done"
  BY DEF GiveUp, djs
<1>2. TypeOK'
  BY <1>1 DEF UFInv, TypeOK
<1> QED BY <1>1, <1>2 DEF UFInv

(* Types, ranks that rise and an edge under consideration that is one of   *)
(* the call's: they hold in every reachable state.                         *)
THEOREM UnionFindInvariance == Spec => []UFInv
<1>1. UFInv /\ [Next]_vars => UFInv'
  <2> SUFFICES ASSUME UFInv, [Next]_vars PROVE UFInv'
    OBVIOUS
  <2>1. CASE Next
    BY <2>1, DrawInv, UseInv, SkipInv, FinishInv, GiveUpInv DEF Next
  <2>2. CASE UNCHANGED vars
    BY <2>2 DEF vars, djs, UFInv, TypeOK, Growing
  <2> QED BY <2>1, <2>2
<1> QED BY InitUF, <1>1, PTL DEF Spec

-----------------------------------------------------------------------------
(* A root of rank r heads 2^r vertices.                                    *)

(* The subsets of 0..n are those of 0..n - 1, with n and without.          *)
LEMMA Doubled ==
  ASSUME NEW n \in Nat
  PROVE  2 ^ (n + 1) = 2 ^ n + 2 ^ n /\ 2 ^ n \in Nat
<1> DEFINE A == 0..n - 1
           B == A \cup {n}
           With == {X \cup {n} : X \in SUBSET A}
<1>1. IsFiniteSet(A) /\ Cardinality(A) = n
  BY FS_Interval
<1>2. n \notin A
  OBVIOUS
<1>3. IsFiniteSet(B) /\ Cardinality(B) = n + 1
  <2> HIDE DEF A
  <2> QED BY <1>1, <1>2, FS_AddElement
<1>4. IsFiniteSet(SUBSET A) /\ Cardinality(SUBSET A) = 2 ^ n
  <2> HIDE DEF A
  <2> QED BY <1>1, FS_SUBSET
<1>5. Cardinality(SUBSET B) = 2 ^ (n + 1)
  <2> HIDE DEF A, B
  <2> QED BY <1>3, FS_SUBSET
<1> HIDE DEF A
<1>6. SUBSET B = (SUBSET A) \cup With
  <2>1. ASSUME NEW Y \in SUBSET B, Y \notin SUBSET A PROVE Y \in With
    <3>1. Y = (Y \ {n}) \cup {n} /\ Y \ {n} \in SUBSET A
      BY <2>1
    <3> QED BY <3>1
  <2> QED BY <2>1
<1>7. (SUBSET A) \cap With = {}
  BY <1>2
<1>8. IsFiniteSet(With) /\ Cardinality(With) = 2 ^ n
  <2> DEFINE f == [X \in SUBSET A |-> X \cup {n}]
  <2>1. \A X, Y \in SUBSET A : X \cup {n} = Y \cup {n} => X = Y
    <3> TAKE X, Y \in SUBSET A
    <3> HAVE X \cup {n} = Y \cup {n}
    <3>1. X = (X \cup {n}) \ {n} /\ Y = (Y \cup {n}) \ {n}
      BY <1>2
    <3> QED BY <3>1
  <2>2. f \in Bijection(SUBSET A, With)
    <3>1. f \in [SUBSET A -> With]
      OBVIOUS
    <3>2. \A X, Y \in SUBSET A : f[X] = f[Y] => X = Y
      BY <2>1
    <3>3. \A Y \in With : \E X \in SUBSET A : f[X] = Y
      OBVIOUS
    <3> HIDE DEF f, With
    <3> QED BY <3>1, <3>2, <3>3 DEF Bijection, Injection, IsInjective, Surjection
  <2> HIDE DEF f, With
  <2>3. ExistsBijection(SUBSET A, With)
    BY <2>2 DEF ExistsBijection
  <2> QED BY <1>4, <2>3, FS_Bijection
<1> HIDE DEF B, With
<1>9. Cardinality(SUBSET B) = Cardinality(SUBSET A) + Cardinality(With)
  <2>1. Cardinality((SUBSET A) \cup With)
          = Cardinality(SUBSET A) + Cardinality(With) - Cardinality((SUBSET A) \cap With)
    BY <1>4, <1>8, FS_Union
  <2>2. Cardinality((SUBSET A) \cap With) = 0
    BY <1>7, FS_EmptySet
  <2>3. Cardinality(SUBSET A) \in Nat /\ Cardinality(With) \in Nat
    BY <1>4, <1>8, FS_CardinalityType
  <2>4. Cardinality((SUBSET A) \cup With) = Cardinality(SUBSET A) + Cardinality(With)
    BY <2>1, <2>2, <2>3
  <2> QED BY <1>6, <2>4, Zenon
<1>10. 2 ^ n \in Nat
  BY <1>4, FS_CardinalityType
<1>11. 2 ^ (n + 1) = 2 ^ n + 2 ^ n
  BY <1>4, <1>5, <1>8, <1>9, Zenon
<1> QED BY <1>10, <1>11

(* The vertices whose djs_find is v.                                       *)
Heads(v) == {w \in V : Root[w] = v}

Heavy == \A v \in V : parent[v] = v => Cardinality(Heads(v)) >= 2 ^ rank[v]

(* A vertex on its own has rank 0.                                         *)
LEMMA AloneHeavy ==
  ASSUME NEW p, p = [v \in V |-> v], NEW r, r = [v \in V |-> 0], NEW v \in V
  PROVE  Cardinality({w \in V : RootIn(p)[w] = v}) >= 2 ^ r[v]
<1>1. RootIn(p) = [w \in V |-> w]
  BY Alone
<1>2. {w \in V : RootIn(p)[w] = v} = {v}
  BY <1>1
<1>3. Cardinality({v}) = 1
  BY FS_Singleton
<1>4. r[v] = 0
  OBVIOUS
<1>5. 1 >= 2 ^ 0
  OBVIOUS
<1> QED BY <1>2, <1>3, <1>4, <1>5, Zenon

(* A union raises a rank only when it puts two classes of that rank        *)
(* together.                                                               *)
LEMMA UseHeavy ==
  ASSUME UFInv, Heavy, Use
  PROVE  Heavy'
<1>1. Growing /\ e \in E
  BY Taken
<1>2. PICK x, y \in V : /\ x # y /\ Ends[e] = {x, y}
                       /\ Root[x] # Root[y] /\ UnionRoots(x, y, e)
  BY Taken
<1>3. Ranked(parent', rank')
  BY <1>1, <1>2, Unite
<1>4. PICK top, below \in V :
              /\ {top, below} = {Root[x], Root[y]}
              /\ Root' = [v \in V |-> IF Root[v] = below THEN top ELSE Root[v]]
              /\ storedE' = [storedE EXCEPT ![top] =
                              storedE[Root[x]] \cup storedE[Root[y]] \cup {e}]
              /\ \A v \in V \ {top} : rank'[v] = rank[v]
              /\ \/ rank'[top] = rank[top]
                 \/ rank'[top] = rank[top] + 1 /\ rank[below] = rank[top]
  BY <1>1, <1>2, Unite, ZenonT(30)
<1>5. /\ Root \in [V -> V]
      /\ \A v \in V : parent[Root[v]] = Root[v]
  BY Roots DEF Root, UFInv
<1>6. top # below /\ parent[top] = top /\ parent[below] = below
  BY <1>2, <1>4, <1>5, SMTT(30)
<1>7. \A v \in V : /\ IsFiniteSet(Heads(v)) /\ Cardinality(Heads(v)) \in Nat
                   /\ rank[v] \in Nat /\ 2 ^ rank[v] \in Nat
  <2> SUFFICES ASSUME NEW v \in V
               PROVE  /\ IsFiniteSet(Heads(v)) /\ Cardinality(Heads(v)) \in Nat
                      /\ rank[v] \in Nat /\ 2 ^ rank[v] \in Nat
    OBVIOUS
  <2>1. Heads(v) \subseteq V
    BY DEF Heads
  <2>2. rank[v] \in Nat
    BY DEF UFInv, TypeOK
  <2> QED BY <2>1, <2>2, FS_Subset, FS_CardinalityType, TopologyAssumption, Doubled
<1> SUFFICES ASSUME NEW v \in V, parent'[v] = v
             PROVE  Cardinality({w \in V : Root'[w] = v}) >= 2 ^ rank'[v]
  BY DEF Heavy, Heads
<1>8. Root'[v] = v
  BY <1>3, Roots DEF Root
<1>9. v # below /\ parent[v] = v
  BY <1>4, <1>5, <1>6, <1>8
<1>10. Cardinality(Heads(v)) >= 2 ^ rank[v]
  BY <1>9 DEF Heavy
<1>11. CASE v # top
  <2>1. {w \in V : Root'[w] = v} = Heads(v)
    BY <1>4, <1>9, <1>11 DEF Heads
  <2>2. rank'[v] = rank[v]
    BY <1>4, <1>11
  <2> QED BY <1>10, <2>1, <2>2
<1>12. CASE v = top
  <2>1. {w \in V : Root'[w] = v} = Heads(top) \cup Heads(below)
    BY <1>4, <1>6, <1>12 DEF Heads
  <2>2. Heads(top) \cap Heads(below) = {}
    BY <1>6 DEF Heads
  <2>3. Cardinality(Heads(top) \cup Heads(below)) = Cardinality(Heads(top)) + Cardinality(Heads(below))
    <3>1. Cardinality(Heads(top) \cup Heads(below))
            = Cardinality(Heads(top)) + Cardinality(Heads(below)) - Cardinality(Heads(top) \cap Heads(below))
      BY <1>7, FS_Union
    <3>2. Cardinality(Heads(top) \cap Heads(below)) = 0
      BY <2>2, FS_EmptySet, Zenon
    <3>3. Cardinality(Heads(top)) \in Nat /\ Cardinality(Heads(below)) \in Nat
      BY <1>7, Zenon
    <3> HIDE DEF Heads
    <3> QED BY <3>1, <3>2, <3>3
  <2>. PICK m, n, k : m = Cardinality(Heads(top)) /\ n = Cardinality(Heads(below)) /\ k = 2 ^ rank[top]
    OBVIOUS
  <2>a. m \in Nat /\ n \in Nat /\ k \in Nat /\ m >= k
    <3>1. m \in Nat /\ n \in Nat /\ k \in Nat
      BY <1>7, Zenon
    <3>2. m >= k
      BY <1>10, <1>12, Zenon
    <3> QED BY <3>1, <3>2
  <2>b. Cardinality({w \in V : Root'[w] = v}) = m + n
    BY <2>1, <2>3, Zenon
  <2>4. CASE rank'[top] = rank[top]
    <3>1. m + n >= k
      BY <2>a
    <3> QED BY <1>12, <2>b, <2>4, <3>1, Zenon
  <2>5. CASE rank'[top] = rank[top] + 1 /\ rank[below] = rank[top]
    <3>1. 2 ^ rank'[top] = 2 ^ rank[top] + 2 ^ rank[top]
      BY <1>7, <2>5, Doubled
    <3>2. Cardinality(Heads(below)) >= 2 ^ rank[top]
      BY <1>6, <2>5 DEF Heavy
    <3>3. n >= k
      BY <3>2, Zenon
    <3>4. m + n >= k + k
      BY <2>a, <3>3
    <3> QED BY <1>12, <2>b, <3>1, <3>4, Zenon
  <2> QED BY <1>4, <2>4, <2>5
<1> QED BY <1>11, <1>12

(* Compression takes no vertex from its root and makes no new one.         *)
LEMMA SkipHeavy ==
  ASSUME UFInv, Heavy, Skip
  PROVE  Heavy'
<1>1. e \in E
  BY DEF Skip, Settled, UFInv, TypeOK
<1>2. Ranked(parent', rank) /\ Root' = Root /\ rank' = rank
  BY <1>1, Found DEF Skip, Root
<1>3. \A v \in V : parent[Root[v]] = Root[v]
  BY Roots DEF Root, UFInv
<1> SUFFICES ASSUME NEW v \in V, parent'[v] = v
             PROVE  Cardinality({w \in V : Root'[w] = v}) >= 2 ^ rank'[v]
  BY DEF Heavy, Heads
<1>4. Root'[v] = v
  BY <1>2, Roots DEF Root
<1>5. parent[v] = v
  BY <1>2, <1>3, <1>4
<1> QED BY <1>2, <1>5 DEF Heavy, Heads

(* Ranks rise along the pointers, and a root of rank r heads at least 2^r  *)
(* vertices, whatever is united and compressed: djs_find never follows     *)
(* more than log |V| pointers, and never in a circle.                      *)
THEOREM RanksInOrder == Spec => []RankOrder
<1>1. Init => Heavy
  <2> SUFFICES ASSUME Init, NEW v \in V PROVE Cardinality({w \in V : RootIn(parent)[w] = v}) >= 2 ^ rank[v]
    BY Zenon DEF Heavy, Heads, Root
  <2>1. parent = [w \in V |-> w] /\ rank = [w \in V |-> 0]
    BY DEF Init
  <2> QED BY <2>1, AloneHeavy, Zenon
<1>2. UFInv /\ Heavy /\ [Next]_vars => Heavy'
  <2> SUFFICES ASSUME UFInv, Heavy, [Next]_vars PROVE Heavy'
    OBVIOUS
  <2>1. CASE Draw \/ Redraw \/ GiveUp \/ UNCHANGED vars
    <3>1. parent' = parent /\ rank' = rank
      BY <2>1 DEF Draw, Redraw, GiveUp, vars, djs
    <3> QED BY <3>1 DEF Heavy, Heads, Root
  <2>2. CASE Use
    BY <2>2, UseHeavy
  <2>3. CASE Skip
    BY <2>3, SkipHeavy
  <2>4. CASE \E dst \in V : Finish(dst)
    <3>1. CASE parent' = parent /\ rank' = rank
      BY <3>1 DEF Heavy, Heads, Root
    <3>2. CASE parent' = [v \in V |-> v] /\ rank' = [v \in V |-> 0]
      BY <3>2, AloneHeavy DEF Heavy, Heads, Root
    <3> QED BY <2>4, <3>1, <3>2 DEF Finish, MakeSets, djs
  <2> QED BY <2>1, <2>2, <2>3, <2>4 DEF Next
<1>3. UFInv /\ Heavy => RankOrder
  BY DEF UFInv, Ranked, Heavy, Heads, RankOrder
<1> QED BY <1>1, <1>2, <1>3, UnionFindInvariance, PTL DEF Spec

-----------------------------------------------------------------------------
(* Every step is one of the partition algorithm, or none.                  *)

(* The partition and the edge sets that the disjoint sets stand for.       *)
Block == [v \in V |-> {w \in V : Root[w] = Root[v]}]
Stored == [v \in V |-> storedE[Root[v]]]

(* The operator the two modules take from FiniteSets is one.               *)
LEMMA SameCardinality == \A S : Partition!Cardinality(S) = Cardinality(S)
BY DEF Cardinality, Partition!Cardinality

(* Initial states map to initial states.                                   *)
LEMMA InitMaps == Init => Partition!Init
<1> SUFFICES ASSUME Init PROVE Partition!Init
  OBVIOUS
<1>1. Root = [v \in V |-> v]
  BY Alone DEF Init, Root
<1> QED BY <1>1 DEF Init, Partition!Init

(* Union by rank makes one block of two and stores their edges with it.    *)
LEMMA UseMaps ==
  ASSUME UFInv, Use
  PROVE  \E f \in E : Partition!Use(f)
<1>1. Growing /\ e \in E /\ e \in eSet
  BY Taken
<1> PICK f \in E : f = e
  BY <1>1
<1>2. PICK x, y \in V : /\ x # y /\ Ends[e] = {x, y}
                       /\ Root[x] # Root[y] /\ UnionRoots(x, y, e)
  BY Taken
<1>3. PICK top, below \in V :
              /\ {top, below} = {Root[x], Root[y]}
              /\ Root' = [v \in V |-> IF Root[v] = below THEN top ELSE Root[v]]
              /\ storedE' = [storedE EXCEPT ![top] =
                              storedE[Root[x]] \cup storedE[Root[y]] \cup {e}]
              /\ \A v \in V \ {top} : rank'[v] = rank[v]
              /\ \/ rank'[top] = rank[top]
                 \/ rank'[top] = rank[top] + 1 /\ rank[below] = rank[top]
  BY <1>1, <1>2, Unite, ZenonT(30)
<1>4. Root \in [V -> V] /\ storedE \in [V -> SUBSET E]
  BY Roots DEF Root, UFInv, TypeOK
<1> DEFINE merged == UNION {Block[u] : u \in Ends[f]}
           edges  == (UNION {Stored[u] : u \in Ends[f]}) \cup {f}
<1>5. merged = {w \in V : Root[w] = top \/ Root[w] = below}
  <2>1. merged = Block[x] \cup Block[y]
    BY <1>2
  <2> QED BY <2>1, <1>3 DEF Block
<1>6. edges = storedE[Root[x]] \cup storedE[Root[y]] \cup {f}
  <2>1. edges = Stored[x] \cup Stored[y] \cup {f}
    BY <1>2
  <2> QED BY <2>1 DEF Stored
<1> HIDE DEF merged, edges
<1>7. \A v \in V : Root'[v] = IF v \in merged THEN top ELSE Root[v]
  BY <1>3, <1>5
<1>8. Block' = [w \in V |-> IF w \in merged THEN merged ELSE Block[w]]
  <2>1. ASSUME NEW v \in V
        PROVE  {w \in V : Root'[w] = Root'[v]} = IF v \in merged THEN merged ELSE Block[v]
    <3>1. CASE v \in merged
      BY <3>1, <1>5, <1>7
    <3>2. CASE v \notin merged
      BY <3>2, <1>5, <1>7 DEF Block
    <3> QED BY <3>1, <3>2
  <2> QED BY <2>1 DEF Block
<1>9. Stored' = [w \in V |-> IF w \in merged THEN edges ELSE Stored[w]]
  <2>1. ASSUME NEW v \in V
        PROVE  storedE'[Root'[v]] = IF v \in merged THEN edges ELSE Stored[v]
    <3>1. CASE v \in merged
      BY <3>1, <1>3, <1>4, <1>6, <1>7
    <3>2. CASE v \notin merged
      BY <3>2, <1>3, <1>4, <1>5, <1>7 DEF Stored
    <3> QED BY <3>1, <3>2
  <2> QED BY <2>1 DEF Stored
<1>10. Block[x] # Block[y]
  BY <1>2 DEF Block
<1>11. Partition!Union(f)
  BY <1>8, <1>9 DEF Partition!Union, merged, edges, Block, Stored
<1>12. Partition!Separates(f)
  BY <1>2, <1>10 DEF Partition!Separates, Block
<1>13. Partition!Growing
  BY <1>1, SameCardinality DEF Growing, Partition!Growing
<1> QED BY <1>1, <1>11, <1>12, <1>13 DEF Use, Partition!Use

(* Compression leaves every block as it is.                                *)
LEMMA SkipMaps ==
  ASSUME UFInv, Skip
  PROVE  \E f \in E : Partition!Skip(f)
<1>1. Growing /\ e \in E /\ e \in eSet
  BY DEF Skip, Settled, UFInv, TypeOK
<1> PICK f \in E : f = e
  BY <1>1
<1>2. Root' = Root
  BY <1>1, Found DEF Skip, Root
<1>3. ~Partition!Separates(f)
  <2>1. Ends[f] \subseteq V
    BY <1>1, TopologyAssumption
  <2>2. \A u, v \in Ends[f] : Root[u] = Root[v]
    BY DEF Skip
  <2>3. \A u, v \in Ends[f] : Block[u] = Block[v]
    <3> TAKE u, v \in Ends[f]
    <3>1. Root[u] = Root[v] /\ u \in V /\ v \in V
      BY <2>1, <2>2
    <3> QED BY <3>1 DEF Block
  <2> QED BY <2>3 DEF Partition!Separates, Block
<1>4. Partition!Growing
  BY <1>1, SameCardinality DEF Growing, Partition!Growing
<1>5. Block' = Block /\ Stored' = Stored
  BY <1>2 DEF Block, Stored, Skip
<1> QED BY <1>1, <1>3, <1>4, <1>5 DEF Skip, Partition!Skip, Block, Stored

(* The tree is the one stored with the block of dst.                       *)
LEMMA FinishMaps ==
  ASSUME UFInv, NEW dst \in V, Finish(dst)
  PROVE  Partition!Finish(dst)
<1>0. Stored[dst] = storedE[Root[dst]]
  BY DEF Stored
<1>1. CASE pc' = "done" /\ UNCHANGED <<eSet, pickedE, djs, edgesAtNode>>
  <2>1. Block' = Block /\ Stored' = Stored
    BY <1>1 DEF Block, Stored, Root, djs
  <2> QED BY <1>0, <1>1, <2>1, SameCardinality DEF Finish, Partition!Finish, Block, Stored
<1>2. CASE eSet' = availE /\ pickedE' = {} /\ MakeSets /\ UNCHANGED pc
  <2>1. Root' = [v \in V |-> v]
    BY <1>2, Alone DEF MakeSets, Root
  <2>2. Block' = [v \in V |-> {v}] /\ Stored' = [v \in V |-> {}]
    BY <1>2, <2>1 DEF Block, Stored, MakeSets
  <2> QED BY <1>0, <1>2, <2>2, SameCardinality DEF Finish, Partition!Finish, Block, Stored
<1> QED BY <1>1, <1>2 DEF Finish

(* Every step maps to a step or a stutter; the draws are stutters.         *)
LEMMA NextMaps == UFInv /\ [Next]_vars => [Partition!Next]_(Partition!vars)
<1> SUFFICES ASSUME UFInv, [Next]_vars PROVE [Partition!Next]_(Partition!vars)
  OBVIOUS
<1>1. ASSUME UNCHANGED <<availE, eSet, pickedE, forest, pc, parent, storedE>>
      PROVE  UNCHANGED Partition!vars
  <2>1. Block' = Block /\ Stored' = Stored
    BY <1>1 DEF Block, Stored, Root
  <2> QED BY <1>1, <2>1 DEF Partition!vars, Block, Stored
<1>2. CASE Draw \/ Redraw \/ UNCHANGED vars
  <2>1. UNCHANGED <<availE, eSet, pickedE, forest, pc, parent, storedE>>
    BY <1>2 DEF Draw, Redraw, vars, djs
  <2> QED BY <1>1, <2>1
<1>3. CASE Use
  BY <1>3, UseMaps DEF Partition!Next
<1>4. CASE Skip
  BY <1>4, SkipMaps DEF Partition!Next
<1>5. CASE \E dst \in V : Finish(dst)
  BY <1>5, FinishMaps DEF Partition!Next
<1>6. CASE GiveUp
  <2>1. Partition!Growing
    BY <1>6, SameCardinality DEF GiveUp, Growing, Partition!Growing
  <2>2. Block' = Block /\ Stored' = Stored
    BY <1>6 DEF GiveUp, Block, Stored, Root, djs
  <2>3. Partition!GiveUp
    BY <1>6, <2>1, <2>2 DEF GiveUp, Partition!GiveUp, Block, Stored
  <2> QED BY <2>3 DEF Partition!Next
<1> QED BY <1>2, <1>3, <1>4, <1>5, <1>6 DEF Next

(* Whatever the pointers, the ranks and the redraws do, edst_tree behaves  *)
(* as the partition algorithm of EdstForest.                               *)
THEOREM Implements == Spec => Refinement
<1>1. Spec => []UFInv
  BY UnionFindInvariance, SMTT(30)
<1> QED BY <1>1, InitMaps, NextMaps, PTL DEF Spec, Refinement, Partition!Spec

-----------------------------------------------------------------------------
(* What was proved of the partition algorithm, for the trees built here.   *)

P == INSTANCE EdstForestProofs WITH
  block <- [v \in V |-> {w \in V : Root[w] = Root[v]}],
  es    <- [v \in V |-> storedE[Root[v]]]

(* P restates Partition, definition by definition.                         *)
LEMMA SameInit == Partition!Init => P!Init
BY SMTT(30) DEF P!Init, Partition!Init

(* So do its steps,                                                        *)
LEMMA SameNext == [Partition!Next]_(Partition!vars) => [P!Next]_(P!vars)
BY DEF P!Next, Partition!Next, P!vars, Partition!vars,
  P!Use, Partition!Use, P!Skip, Partition!Skip, P!Finish, Partition!Finish,
  P!GiveUp, Partition!GiveUp, P!Growing, Partition!Growing, P!Union, Partition!Union,
  P!Separates, Partition!Separates, P!Cardinality, Partition!Cardinality

(* its behaviours,                                                         *)
LEMMA SameSpec == Partition!Spec => P!Spec
BY SameInit, SameNext, PTL DEF P!Spec, Partition!Spec

(* the operators it takes from FiniteSets,                                 *)
LEMMA SameFinite == \A S : P!IsFiniteSet(S) = IsFiniteSet(S)
BY DEF IsFiniteSet, P!IsFiniteSet

(* and its inductive invariant.                                            *)
LEMMA SameInv == P!IInv => Partition!IInv
<1>1. P!TypeOK => Partition!TypeOK
  BY DEF P!TypeOK, Partition!TypeOK
<1>2. P!TreesDisjoint => Partition!TreesDisjoint
  BY DEF P!TreesDisjoint, Partition!TreesDisjoint, P!InForest, Partition!InForest
<1>3. P!TreesSpan => Partition!TreesSpan
  BY DEF P!TreesSpan, Partition!TreesSpan, P!SpanningTree, Partition!SpanningTree,
    P!Connects, Partition!Connects, P!Splits, Partition!Splits,
    P!Cardinality, Partition!Cardinality
<1>4. P!NoEdgeLost => Partition!NoEdgeLost
  BY DEF P!NoEdgeLost, Partition!NoEdgeLost, P!InForest, Partition!InForest
<1>5. P!Maximal => Partition!Maximal
  BY DEF P!Maximal, Partition!Maximal, P!InForest, Partition!InForest,
    P!Connects, Partition!Connects, P!Splits, Partition!Splits
<1>6. P!Partitioned => Partition!Partitioned
  BY DEF P!Partitioned, Partition!Partitioned,
    P!Connects, Partition!Connects, P!Splits, Partition!Splits
<1>7. P!Stored => Partition!Stored
  BY DEF P!Stored, Partition!Stored
<1>8. P!Counted => Partition!Counted
  BY DEF P!Counted, Partition!Counted, P!Blocks, Partition!Blocks,
    P!Cardinality, Partition!Cardinality
<1>9. P!Considered => Partition!Considered
  BY DEF P!Considered, Partition!Considered, P!Separates, Partition!Separates
<1> QED BY <1>1, <1>2, <1>3, <1>4, <1>5, <1>6, <1>7, <1>8, <1>9
        DEF P!IInv, Partition!IInv

(* The inductive invariant of EdstForest, over the disjoint sets.          *)
THEOREM Invariance == Spec => []IInv
<1>1. /\ QuitEarly \in BOOLEAN /\ NumTrees \in Int
      /\ P!IsFiniteSet(V) /\ V # {}
      /\ P!IsFiniteSet(E)
      /\ Ends \in [E -> SUBSET V]
      /\ \A f \in E : \E u, v \in V : u # v /\ Ends[f] = {u, v}
  BY SameFinite, TopologyAssumption, ForestArguments
<1>2. P!Spec => []P!IInv
  BY <1>1, P!Invariance
<1>3. UFInv /\ P!IInv => IInv
  BY SameInv DEF IInv, UFInv
<1> QED BY <1>2, <1>3, Implements, UnionFindInvariance, SameSpec, PTL DEF Refinement

(* Every variable of edst_tree keeps its type.                             *)
THEOREM TypeCorrect == Spec => []TypeOK
<1>1. IInv => TypeOK
  BY DEF IInv
<1> QED BY <1>1, Invariance, PTL

(* No edge is in two of the trees built with the disjoint sets.            *)
THEOREM Disjointness == Spec => []TreesDisjoint
<1>1. IInv => TreesDisjoint
  BY DEF IInv, TreesDisjoint, Partition!IInv
<1> QED BY <1>1, Invariance, PTL

(* The edges read off the root of dst are a spanning tree.                 *)
THEOREM SpanningTrees == Spec => []TreesSpan
<1>1. IInv => TreesSpan
  BY DEF IInv, TreesSpan, Partition!IInv
<1> QED BY <1>1, Invariance, PTL

(* A forest shorter than asked for leaves a network that is not connected. *)
THEOREM MaximalForest == Spec => []Maximal
<1>1. IInv => Maximal
  BY DEF IInv, Maximal, Partition!IInv
<1> QED BY <1>1, Invariance, PTL

(* djs_find always ends: ranks strictly rise along the parent pointers and *)
(* never reach |V|.                                                        *)
THEOREM FindEnds == Spec => []Ranked(parent, rank)
<1>1. UFInv => Ranked(parent, rank)
  BY DEF UFInv
<1> QED BY <1>1, UnionFindInvariance, PTL
=============================================================================

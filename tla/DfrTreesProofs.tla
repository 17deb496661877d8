--------------------------- MODULE DfrTreesProofs ---------------------------
(***************************************************************************)
(* The tables of deadlock-free trees cannot deadlock.  Every dependency    *)
(* leads from an edge of a tree to another of the same tree or to a later  *)
(* tree of an acyclic graph; along a tree it leads away from where the     *)
(* packet came from, to a smaller and smaller side of the edge.            *)
(*                                                                         *)
(* And a packet survives fewer failures than its destination has layers of *)
(* trees: all trees of a layer lead to all of the later ones, and a packet *)
(* that passes a layer has found a broken tree in it.                      *)
(*                                                                         *)
(* And no assertion of the construction fails: breaking a cycle keeps the  *)
(* graph connected, its layers hold every tree once, and what is left out  *)
(* of the first layer never costs a tree of the others.                    *)
(***************************************************************************)
EXTENDS DfrTrees, FiniteSetTheorems, TLAPS

(* The order of the numbers as a relation is well-founded.                 *)
LEMMA NatLess == IsWellFoundedOn({p \in Nat \X Nat : p[1] < p[2]}, Nat)
BY NatLessThanWellFounded DEF OpToRel

(* A set of numbers that is not empty has a least one.                     *)
LEMMA LeastNat ==
  ASSUME NEW S \in SUBSET Nat, S # {}
  PROVE  \E n \in S : \A m \in S : n <= m
<1> DEFINE R == {p \in Nat \X Nat : p[1] < p[2]}
<1>1. IsWellFoundedOn(R, Nat)
  BY NatLess
<1>2. PICK n \in S : \A m \in S : ~(<<m, n>> \in R)
  <2> HIDE DEF R
  <2> QED BY <1>1, WFMin
<1>3. ASSUME NEW m \in S PROVE n <= m
  <2>1. m \in Nat /\ n \in Nat
    OBVIOUS
  <2>2. ~(<<m, n>> \in R)
    BY <1>2
  <2>3. ~(m < n)
    BY <2>1, <2>2
  <2> QED BY <2>1, <2>3
<1> QED BY <1>3

(* A finite one has a greatest.                                            *)
LEMMA GreatestNat ==
  ASSUME NEW S \in SUBSET Nat, S # {}, IsFiniteSet(S)
  PROVE  \E n \in S : \A m \in S : m <= n
<1> DEFINE Above(x) == {y \in S : x < y}
           sizes == {Cardinality(Above(n)) : n \in S}
<1>1. \A n : IsFiniteSet(Above(n)) /\ Cardinality(Above(n)) \in Nat
  <2>1. \A n : Above(n) \subseteq S
    OBVIOUS
  <2> HIDE DEF Above
  <2> QED BY <2>1, FS_Subset, FS_CardinalityType
<1>2. sizes \in SUBSET Nat /\ sizes # {}
  BY <1>1
<1>3. PICK least \in sizes : \A k \in sizes : least <= k
  <2> HIDE DEF sizes
  <2> QED BY <1>2, LeastNat
<1>4. PICK n \in S : Cardinality(Above(n)) = least
  BY <1>3
<1>5. ASSUME NEW m \in S, ~(m <= n) PROVE FALSE
  <2>0. m \in Nat /\ n \in Nat /\ S \subseteq Nat /\ n < m
    BY <1>5
  <2>1. Above(m) \subseteq Above(n) /\ m \in Above(n) /\ m \notin Above(m)
    <3>1. \A y \in S : m < y => n < y
      <4> TAKE y \in S
      <4>1. y \in Nat
        BY <2>0
      <4> QED BY <2>0, <4>1
    <3>2. Above(m) \subseteq Above(n)
      BY <3>1
    <3>3. m \in Above(n)
      BY <2>0
    <3>4. ~(m < m)
      BY <2>0
    <3>5. m \notin Above(m)
      BY <3>4
    <3> QED BY <3>2, <3>3, <3>5
  <2>2. least <= Cardinality(Above(m))
    BY <1>3
  <2> HIDE DEF Above
  <2>3. Cardinality(Above(m)) <= Cardinality(Above(n)) /\ Cardinality(Above(n)) # Cardinality(Above(m))
    BY <1>1, <2>1, FS_Subset
  <2> QED BY <1>1, <1>4, <2>2, <2>3
<1> QED BY <1>5

(* A set of numbers with 0 that is closed under successors is all of Nat.  *)
LEMMA NatSet ==
  ASSUME NEW S, 0 \in S, \A n \in Nat : n \in S => n + 1 \in S
  PROVE  Nat \subseteq S
<1> SUFFICES ASSUME Nat \ S # {} PROVE FALSE
  OBVIOUS
<1>1. PICK n \in Nat \ S : \A m \in Nat \ S : n <= m
  BY LeastNat
<1>2. n # 0 /\ n - 1 \in Nat /\ ~(n <= n - 1)
  BY <1>1
<1>3. n - 1 \in S
  BY <1>1, <1>2
<1> QED BY <1>1, <1>2, <1>3

(* f repeats the function step, from start, on lo .. hi.                   *)
Repeats(f, lo, hi, start, step) ==
  f = [k \in lo..hi |-> IF k = lo THEN start ELSE step[<<k, f[k - 1]>>]]

(* Functions that are defined by repetition exist.                         *)
LEMMA RepetitionExists ==
  ASSUME NEW T, NEW start \in T, NEW step \in [Int \X T -> T], NEW lo \in Int, NEW end \in Int, lo <= end
  PROVE  \E f \in [lo..end -> T] : Repeats(f, lo, end, start, step)
<1> DEFINE S == {m \in Nat : \E f \in [lo..(lo + m) -> T] : Repeats(f, lo, lo + m, start, step)}
<1>1. 0 \in S
  <2> DEFINE f == [k \in lo..lo |-> start]
  <2>1. f \in [lo..lo -> T]
    OBVIOUS
  <2>2. f = [k \in lo..lo |-> IF k = lo THEN start ELSE step[<<k, f[k - 1]>>]]
    OBVIOUS
  <2> HIDE DEF f
  <2>3. Repeats(f, lo, lo, start, step) /\ lo + 0 = lo
    BY <2>2 DEF Repeats
  <2> QED BY <2>1, <2>3
<1>2. ASSUME NEW m \in Nat, m \in S
      PROVE  m + 1 \in S
  <2> DEFINE hi == lo + m
             top == lo + (m + 1)
  <2>1. PICK f \in [lo..hi -> T] : Repeats(f, lo, hi, start, step)
    BY <1>2
  <2>0. hi \in Int /\ top = hi + 1 /\ lo <= hi
    OBVIOUS
  <2> DEFINE g == [k \in lo..top |-> IF k = top THEN step[<<k, f[hi]>>] ELSE f[k]]
  <2> HIDE DEF hi, top
  <2>2. step[<<top, f[hi]>>] \in T
    <3>1. <<top, f[hi]>> \in Int \X T
      BY <2>0
    <3> QED BY <3>1
  <2>3. g \in [lo..top -> T]
    BY <2>0, <2>2
  <2>4. \A k \in lo..hi : f[k] = IF k = lo THEN start ELSE step[<<k, f[k - 1]>>]
    BY <2>1 DEF Repeats
  <2>5. ASSUME NEW k \in lo..top
        PROVE  g[k] = IF k = lo THEN start ELSE step[<<k, g[k - 1]>>]
    <3>1. CASE k = top
      <4>1. k - 1 = hi /\ k - 1 \in lo..top /\ k - 1 # top /\ k # lo
        BY <2>0, <3>1
      <4>2. g[k - 1] = f[hi]
        BY <4>1
      <4> QED BY <3>1, <4>1, <4>2
    <3>2. CASE k # top
      <4>1. k \in lo..hi /\ (k # lo => k - 1 \in lo..top /\ k - 1 # top)
        BY <2>0, <3>2
      <4> QED BY <2>4, <3>2, <4>1
    <3> QED BY <3>1, <3>2
  <2>6. g = [k \in lo..top |-> IF k = lo THEN start ELSE step[<<k, g[k - 1]>>]]
    <3>1. g = [k \in lo..top |-> g[k]]
      OBVIOUS
    <3> HIDE DEF g
    <3>2. [k \in lo..top |-> g[k]]
            = [k \in lo..top |-> IF k = lo THEN start ELSE step[<<k, g[k - 1]>>]]
      BY <2>5
    <3> QED BY <3>1, <3>2
  <2> HIDE DEF g
  <2>7. Repeats(g, lo, top, start, step)
    BY <2>6 DEF Repeats
  <2>8. \E h \in [lo..top -> T] : Repeats(h, lo, top, start, step)
    BY <2>3, <2>7
  <2> QED BY <2>8 DEF top
<1> HIDE DEF S
<1>3. end - lo \in Nat /\ lo + (end - lo) = end
  OBVIOUS
<1>4. end - lo \in S
  BY <1>1, <1>2, <1>3, NatSet
<1>5. \E f \in [lo..(lo + (end - lo)) -> T] : Repeats(f, lo, lo + (end - lo), start, step)
  BY <1>4 DEF S
<1> QED BY <1>3, <1>5

(* A growing chain of n + 1 subsets of a set of n, that stops growing once *)
(* it does not grow, has stopped at the end.                               *)
LEMMA ChainStops ==
  ASSUME NEW X, IsFiniteSet(X), NEW n \in Nat, Cardinality(X) <= n,
         NEW W \in [0..n -> SUBSET X], W[0] # {},
         \A k \in 0..(n - 1) : W[k] \subseteq W[k + 1],
         \A k \in 1..(n - 1) : W[k] = W[k - 1] => W[k + 1] = W[k]
  PROVE  n >= 1 /\ W[n] = W[n - 1]
<1> DEFINE S == {k \in Nat : k <= n => \/ Cardinality(W[k]) >= k + 1
                                       \/ k >= 1 /\ W[k] = W[k - 1]}
<1>1. \A k \in 0..n : W[k] \subseteq X /\ IsFiniteSet(W[k]) /\ Cardinality(W[k]) \in Nat
  BY FS_Subset, FS_CardinalityType
<1>2. 0 \in S
  <2>1. Cardinality(W[0]) # 0
    BY <1>1, FS_EmptySet
  <2> QED BY <1>1, <2>1
<1>3. ASSUME NEW k \in Nat, k \in S
      PROVE  k + 1 \in S
  <2> SUFFICES ASSUME k + 1 <= n, W[k + 1] # W[(k + 1) - 1]
               PROVE  Cardinality(W[k + 1]) >= (k + 1) + 1
    OBVIOUS
  <2>1. k \in 0..(n - 1) /\ (k + 1) - 1 = k /\ k <= n /\ k + 1 \in 0..n /\ k \in 0..n
    OBVIOUS
  <2>2. W[k] \subseteq W[k + 1] /\ W[k] # W[k + 1]
    BY <2>1
  <2>3. ~(k >= 1 /\ W[k] = W[k - 1])
    <3> SUFFICES ASSUME k >= 1, W[k] = W[k - 1] PROVE FALSE
      OBVIOUS
    <3>1. k \in 1..(n - 1)
      BY <2>1
    <3> QED BY <2>2, <3>1
  <2>4. Cardinality(W[k]) >= k + 1
    BY <1>3, <2>1, <2>3
  <2>5. Cardinality(W[k]) <= Cardinality(W[k + 1]) /\ Cardinality(W[k]) # Cardinality(W[k + 1])
    BY <1>1, <2>1, <2>2, FS_Subset
  <2> QED BY <1>1, <2>1, <2>4, <2>5
<1> HIDE DEF S
<1>4. n \in S
  BY <1>2, <1>3, NatSet
<1>5. Cardinality(W[n]) <= Cardinality(X) /\ Cardinality(X) \in Nat
  BY <1>1, FS_Subset, FS_CardinalityType
<1>6. n \in 0..n
  OBVIOUS
<1> QED BY <1>1, <1>4, <1>5, <1>6 DEF S

(* ... and every set of the chain lies in the last one.                    *)
LEMMA ChainGrows ==
  ASSUME NEW n \in Nat, NEW W, \A k \in 0..(n - 1) : W[k] \subseteq W[k + 1],
         NEW i \in 0..n, NEW j \in 0..n, i <= j
  PROVE  W[i] \subseteq W[j]
<1> DEFINE S == {m \in Nat : i + m <= n => W[i] \subseteq W[i + m]}
<1>1. 0 \in S
  OBVIOUS
<1>2. ASSUME NEW m \in Nat, m \in S
      PROVE  m + 1 \in S
  <2> SUFFICES ASSUME i + (m + 1) <= n
               PROVE  W[i] \subseteq W[i + (m + 1)]
    OBVIOUS
  <2>1. i + m \in 0..(n - 1) /\ (i + m) + 1 = i + (m + 1) /\ i + m <= n
    OBVIOUS
  <2> QED BY <1>2, <2>1
<1> HIDE DEF S
<1>3. j - i \in Nat /\ i + (j - i) = j /\ j <= n
  OBVIOUS
<1>4. j - i \in S
  BY <1>1, <1>2, <1>3, NatSet
<1> QED BY <1>3, <1>4 DEF S

(* The steps in which the closure of a graph is computed.                  *)
ClosureSteps(g, n, w) ==
  w = [k \in 0..n |->
        IF k = 0 THEN [x \in Vertices(n) |-> {x}]
        ELSE LET prev == w[k - 1]
             IN  [x \in Vertices(n) |->
                   prev[x] \cup UNION {Successors(g, y) : y \in prev[x]}]]

Graphs(n) == SUBSET (Vertices(n) \X Vertices(n))

(* What the successors of a vertex are.                                    *)
LEMMA SuccessorsAre ==
  ASSUME NEW g, NEW x, NEW y
  PROVE  y \in Successors(g, x) <=> \E a \in g : a[1] = x /\ a[2] = y
BY DEF Successors

(* The arcs of a graph lead to its own vertices.                           *)
LEMMA SuccessorsInGraph ==
  ASSUME NEW n, NEW g \in Graphs(n), NEW x
  PROVE  Successors(g, x) \subseteq Vertices(n)
<1> SUFFICES ASSUME NEW y \in Successors(g, x) PROVE y \in Vertices(n)
  OBVIOUS
<1>1. PICK a \in g : a[1] = x /\ a[2] = y
  BY SuccessorsAre
<1>2. a \in Vertices(n) \X Vertices(n)
  BY DEF Graphs
<1> QED BY <1>1, <1>2

(* The closure is the last of its steps.                                   *)
LEMMA ClosureBySteps ==
  ASSUME NEW n \in Nat, NEW g \in Graphs(n)
  PROVE  \E w : ClosureSteps(g, n, w) /\ Closure(g, n) = w[n]
<1> DEFINE T == [Vertices(n) -> SUBSET Vertices(n)]
           start == [x \in Vertices(n) |-> {x}]
           step == [p \in Int \X T |->
                     [x \in Vertices(n) |->
                       p[2][x] \cup UNION {Successors(g, y) : y \in p[2][x]}]]
<1>1. start \in T
  OBVIOUS
<1>2. step \in [Int \X T -> T]
  <2> SUFFICES ASSUME NEW p \in Int \X T, NEW x \in Vertices(n)
               PROVE  p[2][x] \cup UNION {Successors(g, y) : y \in p[2][x]} \in SUBSET Vertices(n)
    OBVIOUS
  <2>1. p[2][x] \in SUBSET Vertices(n)
    OBVIOUS
  <2> QED BY <2>1, SuccessorsInGraph
<1> HIDE DEF start, step
<1>3. PICK f \in [0..n -> T] : Repeats(f, 0, n, start, step)
  <2> HIDE DEF T
  <2>1. 0 \in Int /\ n \in Int /\ 0 <= n
    OBVIOUS
  <2> QED BY <1>1, <1>2, <2>1, RepetitionExists, Zenon
<1>6. ASSUME NEW k \in 0..n
      PROVE  f[k] = IF k = 0 THEN [x \in Vertices(n) |-> {x}]
                    ELSE [x \in Vertices(n) |->
                           f[k - 1][x] \cup UNION {Successors(g, y) : y \in f[k - 1][x]}]
  <2>1. f[k] = IF k = 0 THEN start ELSE step[<<k, f[k - 1]>>]
    BY <1>3 DEF Repeats
  <2>2. CASE k = 0
    BY <2>1, <2>2 DEF start
  <2>3. CASE k # 0
    <3>1. k - 1 \in 0..n
      BY <2>3
    <3>2. f[k - 1] \in T
      BY <1>3, <3>1
    <3>3. <<k, f[k - 1]>> \in Int \X T
      BY <3>2
    <3>4. f[k] = step[<<k, f[k - 1]>>]
      BY <2>1, <2>3
    <3>5. step[<<k, f[k - 1]>>] = [x \in Vertices(n) |->
            f[k - 1][x] \cup UNION {Successors(g, y) : y \in f[k - 1][x]}]
      <4> HIDE DEF T
      <4> QED BY <3>3 DEF step
    <3> QED BY <2>3, <3>4, <3>5
  <2> QED BY <2>2, <2>3
<1>7. ClosureSteps(g, n, f)
  <2>1. f = [k \in 0..n |-> f[k]]
    BY <1>3
  <2>2. [k \in 0..n |-> f[k]]
          = [k \in 0..n |->
              IF k = 0 THEN [x \in Vertices(n) |-> {x}]
              ELSE [x \in Vertices(n) |->
                     f[k - 1][x] \cup UNION {Successors(g, y) : y \in f[k - 1][x]}]]
    BY <1>6
  <2> QED BY <2>1, <2>2 DEF ClosureSteps
<1> DEFINE w == CHOOSE w : ClosureSteps(g, n, w)
<1>8. ClosureSteps(g, n, w)
  BY <1>7
<1>9. Closure(g, n) = w[n]
  BY DEF Closure, ClosureSteps
<1> QED BY <1>8, <1>9

(* What the closure is: what can be reached, and no more.                  *)
ClosureRight(g, n, R) ==
  /\ R \in [Vertices(n) -> SUBSET Vertices(n)]
  /\ \A x \in Vertices(n) : x \in R[x]
  /\ \A x \in Vertices(n) : \A a \in g : a[1] \in R[x] => a[2] \in R[x]
  /\ \A x \in Vertices(n) : \A C \in SUBSET Vertices(n) :
       x \in C /\ (\A a \in g : a[1] \in C => a[2] \in C) => R[x] \subseteq C

(* The closure that is computed holds what can be reached, and no more.    *)
LEMMA ClosureIsRight ==
  ASSUME NEW n \in Nat, NEW g \in Graphs(n)
  PROVE  ClosureRight(g, n, Closure(g, n))
<1> DEFINE T == [Vertices(n) -> SUBSET Vertices(n)]
<1>1. PICK w : ClosureSteps(g, n, w) /\ Closure(g, n) = w[n]
  BY ClosureBySteps
<1>2. /\ w[0] = [x \in Vertices(n) |-> {x}]
      /\ \A k \in 1..n : w[k] = [x \in Vertices(n) |->
           w[k - 1][x] \cup UNION {Successors(g, y) : y \in w[k - 1][x]}]
  <2>0. w = [k \in 0..n |->
        IF k = 0 THEN [x \in Vertices(n) |-> {x}]
        ELSE [x \in Vertices(n) |->
                   w[k - 1][x] \cup UNION {Successors(g, y) : y \in w[k - 1][x]}]]
    BY <1>1 DEF ClosureSteps
  <2>1. 0 \in 0..n
    OBVIOUS
  <2>2. \A k \in 1..n : k \in 0..n /\ k # 0
    OBVIOUS
  <2>3. ASSUME NEW k \in 1..n
        PROVE  w[k] = [x \in Vertices(n) |->
           w[k - 1][x] \cup UNION {Successors(g, y) : y \in w[k - 1][x]}]
    <3>1. k \in 0..n /\ k # 0
      OBVIOUS
    <3> QED BY <2>0, <3>1
  <2>4. w[0] = [x \in Vertices(n) |-> {x}]
    BY <2>0, <2>1
  <2> QED BY <2>3, <2>4
<1>3. ASSUME NEW C \in T, \A x \in Vertices(n) : x \in C[x],
             \A x \in Vertices(n) : \A a \in g : a[1] \in C[x] => a[2] \in C[x]
      PROVE  \A k \in 0..n : w[k] \in T /\ \A x \in Vertices(n) : x \in w[k][x] /\ w[k][x] \subseteq C[x]
  <2> DEFINE Good(k) == w[k] \in T /\ \A x \in Vertices(n) : x \in w[k][x] /\ w[k][x] \subseteq C[x]
             S == {k \in Nat : k <= n => Good(k)}
  <2>1. 0 \in S
    BY <1>2, <1>3
  <2>2. ASSUME NEW k \in Nat, k \in S PROVE k + 1 \in S
    <3> SUFFICES ASSUME k + 1 <= n PROVE Good(k + 1)
      OBVIOUS
    <3>1. Good(k) /\ k + 1 \in 1..n /\ (k + 1) - 1 = k
      BY <2>2
    <3>2. w[k + 1] = [x \in Vertices(n) |-> w[k][x] \cup UNION {Successors(g, y) : y \in w[k][x]}]
      BY <1>2, <3>1
    <3>3. ASSUME NEW x \in Vertices(n)
          PROVE  w[k + 1][x] \in SUBSET Vertices(n) /\ x \in w[k + 1][x] /\ w[k + 1][x] \subseteq C[x]
      <4>1. w[k + 1][x] = w[k][x] \cup UNION {Successors(g, y) : y \in w[k][x]}
        BY <3>2
      <4>2. \A y \in w[k][x] : Successors(g, y) \subseteq C[x]
        BY <1>3, <3>1, SuccessorsAre
      <4>3. \A y \in w[k][x] : Successors(g, y) \subseteq Vertices(n)
        BY SuccessorsInGraph
      <4> HIDE DEF T
      <4>4. w[k][x] \subseteq C[x] /\ x \in w[k][x] /\ w[k][x] \subseteq Vertices(n)
        BY <3>1 DEF T
      <4> QED BY <4>1, <4>2, <4>3, <4>4
    <3>4. w[k + 1] \in T
      BY <3>2, <3>3
    <3> QED BY <3>3, <3>4
  <2> HIDE DEF S
  <2>3. Nat \subseteq S
    BY <2>1, <2>2, NatSet
  <2> QED BY <2>3 DEF S
<1> DEFINE all == [x \in Vertices(n) |-> Vertices(n)]
<1>4. \A k \in 0..n : w[k] \in T /\ \A x \in Vertices(n) : x \in w[k][x]
  <2>1. all \in T /\ \A x \in Vertices(n) : x \in all[x]
    OBVIOUS
  <2>2. \A x \in Vertices(n) : \A a \in g : a[1] \in all[x] => a[2] \in all[x]
    BY DEF Graphs
  <2> HIDE DEF all, T
  <2> QED BY <1>3, <2>1, <2>2
<1>5. n \in 0..n
  OBVIOUS
<1>6. ASSUME NEW x \in Vertices(n), NEW a \in g, a[1] \in w[n][x]
      PROVE  a[2] \in w[n][x]
  <2> DEFINE W == [k \in 0..n |-> w[k][x]]
  <2>1. n >= 1
    BY DEF Vertices
  <2>2. IsFiniteSet(Vertices(n)) /\ Cardinality(Vertices(n)) = n
    BY <2>1, FS_Interval DEF Vertices
  <2>3. W \in [0..n -> SUBSET Vertices(n)]
    <3>1. \A k \in 0..n : w[k][x] \in SUBSET Vertices(n)
      BY <1>4
    <3> QED BY <3>1
  <2>4. W[0] # {}
    BY <1>4
  <2>5. ASSUME NEW k \in 1..n
        PROVE  W[k] = W[k - 1] \cup UNION {Successors(g, y) : y \in W[k - 1]}
    <3>1. k \in 0..n /\ k - 1 \in 0..n
      OBVIOUS
    <3>2. w[k][x] = w[k - 1][x] \cup UNION {Successors(g, y) : y \in w[k - 1][x]}
      <4>1. w[k] = [z \in Vertices(n) |->
                     w[k - 1][z] \cup UNION {Successors(g, y) : y \in w[k - 1][z]}]
        BY <1>2
      <4> QED BY <4>1
    <3>3. W[k] = w[k][x] /\ W[k - 1] = w[k - 1][x]
      BY <3>1
    <3> HIDE DEF W
    <3> QED BY <3>2, <3>3
  <2> HIDE DEF W
  <2>6. \A k \in 0..(n - 1) : W[k] \subseteq W[k + 1]
    <3> SUFFICES ASSUME NEW k \in 0..(n - 1) PROVE W[k] \subseteq W[k + 1]
      OBVIOUS
    <3>1. k + 1 \in 1..n /\ (k + 1) - 1 = k
      OBVIOUS
    <3> QED BY <2>5, <3>1
  <2>7. \A k \in 1..(n - 1) : W[k] = W[k - 1] => W[k + 1] = W[k]
    <3> SUFFICES ASSUME NEW k \in 1..(n - 1), W[k] = W[k - 1] PROVE W[k + 1] = W[k]
      OBVIOUS
    <3>1. k + 1 \in 1..n /\ (k + 1) - 1 = k /\ k \in 1..n
      OBVIOUS
    <3>2. W[k + 1] = W[k] \cup UNION {Successors(g, y) : y \in W[k]}
      BY <2>5, <3>1
    <3>3. W[k] = W[k - 1] \cup UNION {Successors(g, y) : y \in W[k - 1]}
      BY <2>5, <3>1
    <3> QED BY <3>2, <3>3
  <2>8. W[n] = W[n - 1]
    BY <2>2, <2>3, <2>4, <2>6, <2>7, ChainStops, SMTT(30)
  <2>9. n \in 1..n /\ W[n] = w[n][x]
    BY <2>1, <1>5 DEF W
  <2>10. W[n] = W[n - 1] \cup UNION {Successors(g, y) : y \in W[n - 1]}
    BY <2>5, <2>9
  <2>11. a[2] \in Successors(g, a[1]) /\ a[1] \in W[n - 1]
    BY <1>6, <2>8, <2>9, SuccessorsAre
  <2> QED BY <2>9, <2>10, <2>11
<1>7. ASSUME NEW x \in Vertices(n), NEW C \in SUBSET Vertices(n),
             x \in C, \A a \in g : a[1] \in C => a[2] \in C
      PROVE  w[n][x] \subseteq C
  <2> DEFINE D == [y \in Vertices(n) |-> IF y = x THEN C ELSE Vertices(n)]
  <2>1. D \in T /\ \A y \in Vertices(n) : y \in D[y]
    BY <1>7
  <2>2. \A y \in Vertices(n) : \A a \in g : a[1] \in D[y] => a[2] \in D[y]
    BY <1>7 DEF Graphs
  <2>3. D[x] = C
    OBVIOUS
  <2> HIDE DEF D, T
  <2>4. w[n][x] \subseteq D[x]
    BY <1>3, <1>5, <2>1, <2>2
  <2> QED BY <2>3, <2>4
<1> QED BY <1>1, <1>4, <1>5, <1>6, <1>7 DEF ClosureRight

(* The vertices of a graph can be numbered so that every arc leads down.   *)
RankedBy(g, n, rank) ==
  /\ rank \in [Vertices(n) -> Nat]
  /\ \A a \in g : rank[a[2]] < rank[a[1]]

Ranked(g, n) == \E rank \in [Vertices(n) -> Nat] : RankedBy(g, n, rank)

(* A graph that igraph calls acyclic can be: by how much each vertex       *)
(* reaches.                                                                *)
LEMMA DagIsRanked ==
  ASSUME NEW n \in Nat, NEW g \in Graphs(n), IsDag(g, n)
  PROVE  Ranked(g, n)
<1> DEFINE R == Closure(g, n)
           rank == [x \in Vertices(n) |-> Cardinality(R[x])]
<1>1. ClosureRight(g, n, R)
  BY ClosureIsRight
<1>2. \A a \in g : a[1] \notin R[a[2]]
  BY DEF IsDag
<1> HIDE DEF R
<1>3. IsFiniteSet(Vertices(n))
  BY FS_Interval DEF Vertices
<1>4. \A x \in Vertices(n) : R[x] \subseteq Vertices(n)
  BY <1>1 DEF ClosureRight
<1>5. \A x \in Vertices(n) : IsFiniteSet(R[x]) /\ Cardinality(R[x]) \in Nat
  BY <1>3, <1>4, FS_Subset, FS_CardinalityType
<1>6. ASSUME NEW a \in g
      PROVE  rank[a[2]] < rank[a[1]]
  <2>1. a[1] \in Vertices(n) /\ a[2] \in Vertices(n)
    BY DEF Graphs
  <2>2. a[1] \in R[a[1]]
    BY <1>1, <2>1 DEF ClosureRight
  <2>3. a[2] \in R[a[1]]
    BY <1>1, <2>1, <2>2 DEF ClosureRight
  <2>4. \A b \in g : b[1] \in R[a[1]] => b[2] \in R[a[1]]
    BY <1>1, <2>1 DEF ClosureRight
  <2>5. R[a[2]] \subseteq R[a[1]]
    BY <1>1, <1>4, <2>1, <2>3, <2>4 DEF ClosureRight
  <2>6. R[a[2]] # R[a[1]]
    BY <1>2, <2>2
  <2>7. /\ Cardinality(R[a[2]]) <= Cardinality(R[a[1]])
        /\ Cardinality(R[a[1]]) # Cardinality(R[a[2]])
    BY <1>5, <2>1, <2>5, <2>6, FS_Subset
  <2>8. Cardinality(R[a[2]]) < Cardinality(R[a[1]])
    BY <1>5, <2>1, <2>7
  <2> QED BY <2>1, <2>8
<1>7. rank \in [Vertices(n) -> Nat]
  BY <1>5
<1> HIDE DEF rank
<1>8. RankedBy(g, n, rank)
  BY <1>6, <1>7 DEF RankedBy
<1> QED BY <1>7, <1>8 DEF Ranked

(* What is reached from a vertex lies below it.                            *)
LEMMA ReachedIsLower ==
  ASSUME NEW n \in Nat, NEW g \in Graphs(n), NEW rank, RankedBy(g, n, rank),
         NEW x \in Vertices(n), NEW y \in Closure(g, n)[x]
  PROVE  y \in Vertices(n) /\ (y = x \/ rank[y] < rank[x])
<1> DEFINE C == {z \in Vertices(n) : z = x \/ rank[z] < rank[x]}
<1>1. ClosureRight(g, n, Closure(g, n))
  BY ClosureIsRight
<1>2. ASSUME NEW a \in g, a[1] \in C PROVE a[2] \in C
  <2>1. a[1] \in Vertices(n) /\ a[2] \in Vertices(n)
    BY DEF Graphs
  <2>2. rank[a[2]] < rank[a[1]] /\ rank \in [Vertices(n) -> Nat]
    BY DEF RankedBy
  <2>3. rank[a[1]] <= rank[x]
    BY <1>2, <2>1, <2>2
  <2>4. rank[a[2]] \in Nat /\ rank[a[1]] \in Nat /\ rank[x] \in Nat
    BY <2>1, <2>2
  <2>5. rank[a[2]] < rank[x]
    BY <2>2, <2>3, <2>4
  <2> QED BY <2>1, <2>5
<1>3. C \in SUBSET Vertices(n) /\ x \in C
  OBVIOUS
<1> HIDE DEF C
<1>4. Closure(g, n)[x] \subseteq C
  BY <1>1, <1>2, <1>3 DEF ClosureRight
<1> QED BY <1>4 DEF C

(* The trees that the resilience rests on leave the graph acyclic.         *)
LEMMA ResilienceKeepsRank ==
  ASSUME NEW n \in Nat, NEW r \in Int, 0 <= r, r < n,
         NEW g \in SUBSET Complete(n - r), Ranked(g, n)
  PROVE  /\ g \cup ResilienceArcs(n, r) \in Graphs(n)
         /\ Ranked(g \cup ResilienceArcs(n, r), n)
<1> DEFINE m == n - r
<1>0. m \in Int /\ 0 < m /\ m <= n /\ n \in Int /\ n - r = m
  OBVIOUS
<1>1. PICK rank \in [Vertices(n) -> Nat] : RankedBy(g, n, rank)
  BY DEF Ranked
<1> HIDE DEF m
<1> DEFINE up == [x \in Vertices(n) |-> IF x < m THEN rank[x] + n ELSE n - 1 - x]
<1>2. up \in [Vertices(n) -> Nat]
  <2> SUFFICES ASSUME NEW x \in Vertices(n)
               PROVE  (IF x < m THEN rank[x] + n ELSE n - 1 - x) \in Nat
    OBVIOUS
  <2>1. x \in Int /\ 0 <= x /\ x <= n - 1 /\ rank[x] \in Nat
    BY DEF Vertices
  <2>2. rank[x] + n \in Nat /\ n - 1 - x \in Nat
    BY <1>0, <2>1
  <2> QED BY <2>2
<1>3. ASSUME NEW a \in g \cup ResilienceArcs(n, r)
      PROVE  a \in Vertices(n) \X Vertices(n) /\ up[a[2]] < up[a[1]]
  <2>1. CASE a \in g
    <3>1. a \in Vertices(m) \X Vertices(m)
      BY <1>0, <2>1 DEF Complete
    <3>2. a \in Vertices(n) \X Vertices(n) /\ a[1] < m /\ a[2] < m
      BY <1>0, <3>1 DEF Vertices
    <3>3. rank[a[2]] < rank[a[1]]
      BY <1>1, <2>1 DEF RankedBy
    <3>4. up[a[2]] = rank[a[2]] + n /\ up[a[1]] = rank[a[1]] + n
      BY <3>2
    <3>5. rank[a[2]] \in Nat /\ rank[a[1]] \in Nat
      BY <3>2
    <3> HIDE DEF up
    <3>6. up[a[2]] < up[a[1]]
      BY <1>0, <3>3, <3>4, <3>5
    <3> QED BY <3>2, <3>6
  <2>2. CASE a \in {<<i, m>> : i \in 0..m - 1} /\ r # 0
    <3>1. PICK i \in 0..m - 1 : a = <<i, m>>
      BY <2>2
    <3>2. i \in Vertices(n) /\ m \in Vertices(n) /\ i < m /\ ~(m < m)
      BY <1>0, <2>2 DEF Vertices
    <3>3. up[i] = rank[i] + n /\ up[m] = n - 1 - m /\ rank[i] \in Nat
      BY <3>2
    <3>4. a[1] = i /\ a[2] = m /\ a \in Vertices(n) \X Vertices(n)
      BY <3>1, <3>2
    <3> HIDE DEF up
    <3>5. up[m] < up[i]
      BY <1>0, <3>3
    <3> QED BY <3>4, <3>5
  <2>3. CASE a \in {<<i, i + 1>> : i \in m..n - 2}
    <3>1. PICK i \in m..n - 2 : a = <<i, i + 1>>
      BY <2>3
    <3>2. i \in Vertices(n) /\ i + 1 \in Vertices(n) /\ ~(i < m) /\ ~(i + 1 < m)
      BY <1>0 DEF Vertices
    <3>3. up[i] = n - 1 - i /\ up[i + 1] = n - 1 - (i + 1)
      BY <3>2
    <3>4. a[1] = i /\ a[2] = i + 1 /\ a \in Vertices(n) \X Vertices(n)
      BY <3>1, <3>2
    <3> HIDE DEF up
    <3>5. up[i + 1] < up[i]
      BY <1>0, <3>3
    <3> QED BY <3>4, <3>5
  <2> QED BY <1>0, <2>1, <2>2, <2>3 DEF ResilienceArcs
<1> HIDE DEF up
<1>4. RankedBy(g \cup ResilienceArcs(n, r), n, up)
  BY <1>2, <1>3 DEF RankedBy
<1>5. g \cup ResilienceArcs(n, r) \in Graphs(n)
  BY <1>3 DEF Graphs
<1> QED BY <1>2, <1>4, <1>5 DEF Ranked

(* The other end of a cable is the other of its two ends.                  *)
LEMMA OtherEnd ==
  ASSUME NEW e \in E, NEW w \in Ends[e]
  PROVE  /\ w \in V /\ Other(w, e) \in V /\ Other(w, e) # w
         /\ Ends[e] = {w, Other(w, e)} /\ Other(Other(w, e), e) = w
<1>1. PICK a, b \in V : a # b /\ Ends[e] = {a, b}
  BY TopologyAssumption
<1>2. \E u \in Ends[e] : u # w
  BY <1>1
<1>3. Other(w, e) \in Ends[e] /\ Other(w, e) # w
  BY <1>2 DEF Other
<1>4. \E u \in Ends[e] : u # Other(w, e)
  BY <1>1
<1>5. Other(Other(w, e), e) \in Ends[e] /\ Other(Other(w, e), e) # Other(w, e)
  BY <1>4 DEF Other
<1> QED BY <1>1, <1>3, <1>5

(* A cable that crosses a cut of the switches has one end on each side.    *)
LEMMA CrossingEnds ==
  ASSUME NEW e \in E, NEW X, Splits(X, Ends[e] \cap V)
  PROVE  \E w \in V : /\ w \in Ends[e] /\ w \notin X
                      /\ Other(w, e) \in X
<1>1. PICK a, b \in V : a # b /\ Ends[e] = {a, b}
  BY TopologyAssumption
<1>2. PICK w \in Ends[e] : w \notin X
  BY DEF Splits
<1>3. PICK x \in Ends[e] : x \in X
  BY DEF Splits
<1>4. Ends[e] = {w, Other(w, e)} /\ w \in V
  BY <1>2, OtherEnd
<1> QED BY <1>2, <1>3, <1>4

-----------------------------------------------------------------------------
(* Distances along a tree.                                                 *)

(* The switches within k hops of d, for each k.                            *)
WithinHops(T, d, w) ==
  w = [k \in 0..Cardinality(V) |->
        IF k = 0 THEN {d}
        ELSE LET near == w[k - 1]
             IN  near \cup {u \in V : \E e \in T \cap EdgesAt(u) : Other(u, e) \in near}]

(* The hops are counted by these sets.                                     *)
LEMMA HopsByWithin ==
  ASSUME NEW T, NEW d \in V
  PROVE  \E w : /\ WithinHops(T, d, w)
                /\ Hops(T, d) = [u \in V |-> Cardinality({k \in 0..Cardinality(V) : u \notin w[k]})]
<1> DEFINE n == Cardinality(V)
           A == SUBSET V
           start == {d}
           step == [p \in Int \X A |->
                     p[2] \cup {u \in V : \E e \in T \cap EdgesAt(u) : Other(u, e) \in p[2]}]
<1>0. n \in Nat
  BY TopologyAssumption, FS_CardinalityType
<1> HIDE DEF n
<1>1. start \in A
  OBVIOUS
<1>2. step \in [Int \X A -> A]
  OBVIOUS
<1> HIDE DEF start, step
<1>3. PICK f \in [0..n -> A] : Repeats(f, 0, n, start, step)
  <2> HIDE DEF A
  <2>1. 0 \in Int /\ n \in Int /\ 0 <= n
    BY <1>0
  <2> QED BY <1>1, <1>2, <2>1, RepetitionExists, Zenon
<1>6. ASSUME NEW k \in 0..n
      PROVE  f[k] = IF k = 0 THEN {d}
                    ELSE f[k - 1] \cup {u \in V : \E e \in T \cap EdgesAt(u) : Other(u, e) \in f[k - 1]}
  <2>1. f[k] = IF k = 0 THEN start ELSE step[<<k, f[k - 1]>>]
    BY <1>3 DEF Repeats
  <2>2. CASE k = 0
    BY <2>1, <2>2 DEF start
  <2>3. CASE k # 0
    <3>1. k - 1 \in 0..n
      BY <1>0, <2>3
    <3>2. f[k - 1] \in A
      BY <1>3, <3>1
    <3>3. <<k, f[k - 1]>> \in Int \X A
      BY <3>2
    <3>4. f[k] = step[<<k, f[k - 1]>>]
      BY <2>1, <2>3
    <3>5. step[<<k, f[k - 1]>>]
            = f[k - 1] \cup {u \in V : \E e \in T \cap EdgesAt(u) : Other(u, e) \in f[k - 1]}
      <4> HIDE DEF A
      <4> QED BY <3>3 DEF step
    <3> QED BY <2>3, <3>4, <3>5
  <2> QED BY <2>2, <2>3
<1>7. WithinHops(T, d, f)
  <2>1. f = [k \in 0..n |-> f[k]]
    BY <1>3
  <2>2. [k \in 0..n |-> f[k]]
          = [k \in 0..n |->
              IF k = 0 THEN {d}
              ELSE f[k - 1] \cup {u \in V : \E e \in T \cap EdgesAt(u) : Other(u, e) \in f[k - 1]}]
    BY <1>6
  <2> QED BY <2>1, <2>2 DEF WithinHops, n
<1> DEFINE w == CHOOSE w : WithinHops(T, d, w)
<1>8. WithinHops(T, d, w)
  BY <1>7
<1>9. Hops(T, d) = [u \in V |-> Cardinality({k \in 0..Cardinality(V) : u \notin w[k]})]
  BY DEF Hops, WithinHops
<1> QED BY <1>8, <1>9

(* Along a tree there is an edge from every switch that leads closer to d. *)
LEMMA CloserEdge ==
  ASSUME NEW T, T \subseteq E, Connects(T, V), NEW d \in V, NEW u \in V, u # d
  PROVE  \E e \in T \cap EdgesAt(u) : Hops(T, d)[Other(u, e)] < Hops(T, d)[u]
<1> DEFINE n == Cardinality(V)
<1>0. n \in Nat /\ IsFiniteSet(V)
  BY TopologyAssumption, FS_CardinalityType
<1>1. PICK w : /\ WithinHops(T, d, w)
               /\ Hops(T, d) = [x \in V |-> Cardinality({k \in 0..Cardinality(V) : x \notin w[k]})]
  BY HopsByWithin
<1> DEFINE Far(x) == {k \in 0..n : x \notin w[k]}
           Next1(S) == S \cup {x \in V : \E e \in T \cap EdgesAt(x) : Other(x, e) \in S}
<1>2. \A x \in V : Hops(T, d)[x] = Cardinality(Far(x))
  BY <1>1
<1>3. w = [k \in 0..n |-> IF k = 0 THEN {d} ELSE Next1(w[k - 1])]
  BY <1>1 DEF WithinHops
<1> HIDE DEF n
<1>4. w[0] = {d}
  BY <1>0, <1>3
<1>5. ASSUME NEW k \in 1..n PROVE w[k] = Next1(w[k - 1])
  <2>1. k \in 0..n /\ k # 0
    OBVIOUS
  <2> HIDE DEF Next1
  <2> QED BY <1>3, <2>1
<1>6. \A k \in 0..n : w[k] \in SUBSET V
  <2> DEFINE S == {k \in Nat : k <= n => w[k] \in SUBSET V}
  <2>1. 0 \in S
    BY <1>4
  <2>2. ASSUME NEW k \in Nat, k \in S PROVE k + 1 \in S
    <3>1. k + 1 <= n => k + 1 \in 1..n /\ (k + 1) - 1 = k /\ k <= n
      BY <1>0
    <3> QED BY <1>5, <2>2, <3>1
  <2> HIDE DEF S
  <2>3. Nat \subseteq S
    BY <2>1, <2>2, NatSet
  <2> QED BY <2>3 DEF S
<1>7. \A k \in 0..(n - 1) : w[k] \subseteq w[k + 1]
  <2> SUFFICES ASSUME NEW k \in 0..(n - 1) PROVE w[k] \subseteq w[k + 1]
    OBVIOUS
  <2>1. k + 1 \in 1..n /\ (k + 1) - 1 = k
    BY <1>0
  <2> QED BY <1>5, <2>1
<1>8. n >= 1 /\ w[n] = w[n - 1]
  <2> DEFINE W == [k \in 0..n |-> w[k]]
  <2>1. W \in [0..n -> SUBSET V] /\ W[0] # {}
    BY <1>0, <1>4, <1>6
  <2>2. \A k \in 0..n : W[k] = w[k]
    OBVIOUS
  <2> HIDE DEF W
  <2>3. \A k \in 0..(n - 1) : W[k] \subseteq W[k + 1]
    <3> SUFFICES ASSUME NEW k \in 0..(n - 1) PROVE W[k] \subseteq W[k + 1]
      OBVIOUS
    <3>1. k \in 0..n /\ k + 1 \in 0..n
      BY <1>0
    <3> QED BY <1>7, <2>2, <3>1
  <2>4. \A k \in 1..(n - 1) : W[k] = W[k - 1] => W[k + 1] = W[k]
    <3> SUFFICES ASSUME NEW k \in 1..(n - 1), W[k] = W[k - 1] PROVE W[k + 1] = W[k]
      OBVIOUS
    <3>1. k \in 1..n /\ k + 1 \in 1..n /\ (k + 1) - 1 = k /\ k \in 0..n /\ k - 1 \in 0..n /\ k + 1 \in 0..n
      BY <1>0
    <3>2. w[k] = w[k - 1]
      BY <2>2, <3>1
    <3>3. w[k + 1] = Next1(w[k]) /\ w[k] = Next1(w[k - 1])
      BY <1>5, <3>1
    <3> HIDE DEF Next1
    <3> QED BY <2>2, <3>1, <3>2, <3>3
  <2>5. n >= 1 /\ W[n] = W[n - 1]
    <3>1. IsFiniteSet(V) /\ n \in Nat /\ Cardinality(V) <= n
      BY <1>0, TopologyAssumption DEF n
    <3>2. W \in [0..n -> SUBSET V] /\ W[0] # {}
      BY <2>1
    <3> QED BY <2>3, <2>4, <3>1, <3>2, ChainStops, Zenon
  <2> QED BY <1>0, <2>2, <2>5
<1>9. w[n] = V
  <2>1. w[n] = Next1(w[n])
    <3>1. w[n] = Next1(w[n - 1])
      BY <1>0, <1>5, <1>8
    <3> HIDE DEF Next1
    <3> QED BY <1>8, <3>1
  <2>2. w[n] \in SUBSET V /\ d \in w[n]
    <3>1. w[0] \subseteq w[n]
      BY <1>0, <1>7, ChainGrows
    <3> QED BY <1>0, <1>4, <1>6, <3>1
  <2> SUFFICES ASSUME w[n] # V PROVE FALSE
    OBVIOUS
  <2>3. Splits(w[n], V)
    BY <2>2 DEF Splits
  <2>4. PICK e \in T : Splits(w[n], Ends[e] \cap V)
    BY <2>2, <2>3 DEF Connects
  <2>5. PICK x \in V : x \in Ends[e] /\ x \notin w[n] /\ Other(x, e) \in w[n]
    BY <2>4, CrossingEnds
  <2>6. e \in T \cap EdgesAt(x)
    BY <2>5 DEF EdgesAt
  <2>7. x \in Next1(w[n])
    BY <2>5, <2>6
  <2> HIDE DEF Next1
  <2> QED BY <2>1, <2>5, <2>7
<1>10. PICK k \in 0..n : u \in w[k] /\ \A j \in 0..n : u \in w[j] => k <= j
  <2> DEFINE S == {k \in 0..n : u \in w[k]}
  <2>1. S \in SUBSET Nat /\ n \in S
    BY <1>0, <1>9
  <2>2. PICK k \in S : \A j \in S : k <= j
    <3> HIDE DEF S
    <3> QED BY <2>1, LeastNat
  <2> QED BY <2>2
<1>11. k \in 1..n /\ k - 1 \in 0..n /\ u \notin w[k - 1]
  <2>1. k # 0
    BY <1>4, <1>10
  <2>2. k \in 1..n /\ k - 1 \in 0..n /\ ~(k <= k - 1)
    BY <1>0, <2>1
  <2> QED BY <1>10, <2>2
<1>12. PICK e \in T \cap EdgesAt(u) : Other(u, e) \in w[k - 1]
  BY <1>5, <1>10, <1>11
<1>13. Other(u, e) \in V
  BY OtherEnd DEF EdgesAt
<1>14. Far(Other(u, e)) \subseteq Far(u)
  <2> SUFFICES ASSUME NEW j \in 0..n, Other(u, e) \notin w[j], u \in w[j]
               PROVE  FALSE
    OBVIOUS
  <2>1. k - 1 <= j
    BY <1>10, <1>11
  <2>2. w[k - 1] \subseteq w[j]
    BY <1>0, <1>7, <1>11, <2>1, ChainGrows
  <2> QED BY <1>12, <2>2
<1>15. k - 1 \in Far(u) /\ k - 1 \notin Far(Other(u, e))
  BY <1>11, <1>12
<1>16. IsFiniteSet(0..n)
  BY <1>0, FS_Interval
<1>17. IsFiniteSet(Far(u)) /\ IsFiniteSet(Far(Other(u, e)))
  BY <1>16, FS_Subset
<1> DEFINE a == Far(u)
           b == Far(Other(u, e))
<1>18. b \subseteq a /\ b # a /\ IsFiniteSet(a) /\ IsFiniteSet(b)
  BY <1>14, <1>15, <1>17
<1>19. Hops(T, d)[Other(u, e)] = Cardinality(b) /\ Hops(T, d)[u] = Cardinality(a)
  BY <1>2, <1>13
<1> HIDE DEF a, b, Far
<1>20. Cardinality(b) \in Nat /\ Cardinality(a) \in Nat
  BY <1>18, FS_CardinalityType
<1>21. Cardinality(b) <= Cardinality(a) /\ Cardinality(a) # Cardinality(b)
  BY <1>18, FS_Subset
<1>22. Cardinality(b) < Cardinality(a)
  BY <1>20, <1>21
<1> QED BY <1>19, <1>22

(* The next edge of a path lies in its tree.                               *)
LEMMA NextEdgeInTree ==
  ASSUME NEW T, T \subseteq E, Connects(T, V), NEW d \in V, NEW u \in V, u # d
  PROVE  PathsTo(T, d)[u].edge \in T \cap EdgesAt(u)
<1> DEFINE hops == Hops(T, d)
<1>1. \E e \in T \cap EdgesAt(u) : hops[Other(u, e)] < hops[u]
  BY CloserEdge
<1> HIDE DEF hops
<1>2. PathsTo(T, d)[u].edge = CHOOSE e \in T \cap EdgesAt(u) : hops[Other(u, e)] < hops[u]
  BY DEF PathsTo, hops
<1> QED BY <1>1, <1>2

-----------------------------------------------------------------------------
(* The two sides of an edge of a tree.                                     *)

(* Edges that connect all switches are at least one less than those.       *)
LEMMA ConnectedNeeds ==
  ASSUME NEW T, T \subseteq E, Connects(T, V)
  PROVE  Cardinality(V) <= Cardinality(T) + 1
<1> DEFINE n == Cardinality(V)
           Grown(k, R, F) ==
             /\ Cardinality(R) = k + 1 /\ Cardinality(F) = k
             /\ \A e \in F : Ends[e] \subseteq R
           S == {k \in Nat : k + 1 <= n => \E R \in SUBSET V, F \in SUBSET T : Grown(k, R, F)}
<1>0. n \in Nat /\ IsFiniteSet(V) /\ n # 0
  BY TopologyAssumption, FS_CardinalityType, FS_EmptySet
<1>1. IsFiniteSet(T)
  BY TopologyAssumption, FS_Subset
<1> HIDE DEF n
<1>2. 0 \in S
  <2>1. PICK x \in V : TRUE
    BY TopologyAssumption
  <2>2. Cardinality({x}) = 1 /\ Cardinality({}) = 0
    BY FS_Singleton, FS_EmptySet
  <2>3. Grown(0, {x}, {})
    BY <2>2
  <2> HIDE DEF Grown
  <2>4. {x} \in SUBSET V /\ {} \in SUBSET T
    OBVIOUS
  <2> QED BY <2>3, <2>4
<1>3. ASSUME NEW k \in Nat, k \in S
      PROVE  k + 1 \in S
  <2> SUFFICES ASSUME (k + 1) + 1 <= n
               PROVE  \E R \in SUBSET V, F \in SUBSET T : Grown(k + 1, R, F)
    OBVIOUS
  <2>1. k + 1 <= n /\ k + 1 # n /\ k + 1 # 0
    BY <1>0
  <2>2. PICK R \in SUBSET V, F \in SUBSET T : Grown(k, R, F)
    BY <1>3, <2>1
  <2>3. IsFiniteSet(R) /\ IsFiniteSet(F)
    BY <1>0, <1>1, FS_Subset
  <2>4. R # V /\ R # {}
    <3>1. Cardinality(R) = k + 1
      BY <2>2
    <3>2. Cardinality({}) = 0
      BY FS_EmptySet
    <3> QED BY <2>1, <3>1, <3>2 DEF n
  <2>5. Splits(R, V)
    BY <2>4 DEF Splits
  <2>6. PICK e \in T : Splits(R, Ends[e] \cap V)
    BY <2>5 DEF Connects
  <2>7. PICK w \in V : w \in Ends[e] /\ w \notin R /\ Other(w, e) \in R
    BY <2>6, CrossingEnds
  <2>8. Ends[e] = {w, Other(w, e)}
    BY <2>7, OtherEnd
  <2>9. e \notin F
    BY <2>2, <2>7
  <2>10. Cardinality(R \cup {w}) = Cardinality(R) + 1
    BY <2>3, <2>7, FS_AddElement
  <2>11. Cardinality(F \cup {e}) = Cardinality(F) + 1
    BY <2>3, <2>9, FS_AddElement
  <2>12. \A x \in F \cup {e} : Ends[x] \subseteq R \cup {w}
    BY <2>2, <2>7, <2>8
  <2>13. Grown(k + 1, R \cup {w}, F \cup {e})
    <3>1. Cardinality(R) = k + 1 /\ Cardinality(F) = k
      BY <2>2
    <3> QED BY <2>10, <2>11, <2>12, <3>1
  <2>14. R \cup {w} \in SUBSET V /\ F \cup {e} \in SUBSET T
    OBVIOUS
  <2> HIDE DEF Grown
  <2> QED BY <2>13, <2>14
<1> HIDE DEF S
<1>4. n - 1 \in Nat /\ (n - 1) + 1 <= n
  BY <1>0
<1>5. n - 1 \in S
  BY <1>2, <1>3, <1>4, NatSet
<1>6. PICK R \in SUBSET V, F \in SUBSET T : Cardinality(F) = n - 1
  BY <1>4, <1>5 DEF S
<1>7. Cardinality(F) <= Cardinality(T) /\ Cardinality(T) \in Nat
  BY <1>1, FS_Subset, FS_CardinalityType
<1> QED BY <1>0, <1>6, <1>7 DEF n

(* X is not left along the edges T but e.                                  *)
Uncut(T, e, X) == \A b \in T : b # e => ~Splits(X, Ends[b] \cap V)

(* The switches on u's side of e: what the other edges of T lead to.       *)
Side(T, e, u) == {w \in V : \A X \in SUBSET V : u \in X /\ Uncut(T, e, X) => w \in X}

(* An uncut set holds both ends of an edge but e, or none.                 *)
LEMMA UncutEnds ==
  ASSUME NEW T, T \subseteq E, NEW e, NEW X
  PROVE  Uncut(T, e, X) <=>
           \A b \in T : b # e => \A w \in Ends[b] : Other(w, b) \in X => w \in X
<1>1. ASSUME Uncut(T, e, X), NEW b \in T, b # e, NEW w \in Ends[b], Other(w, b) \in X
      PROVE  w \in X
  <2>1. w \in V /\ Other(w, b) \in V /\ Ends[b] = {w, Other(w, b)}
    BY OtherEnd
  <2>2. ~Splits(X, Ends[b] \cap V)
    BY <1>1 DEF Uncut
  <2> QED BY <1>1, <2>1, <2>2 DEF Splits
<1>2. ASSUME \A b \in T : b # e => \A w \in Ends[b] : Other(w, b) \in X => w \in X,
             NEW b \in T, b # e, Splits(X, Ends[b] \cap V)
      PROVE  FALSE
  <2>1. PICK w \in V : w \in Ends[b] /\ w \notin X /\ Other(w, b) \in X
    BY <1>2, CrossingEnds
  <2> QED BY <1>2, <2>1
<1> QED BY <1>1, <1>2 DEF Uncut

(* Without one of its edges a tree does not connect the ends of it.        *)
LEMMA EdgeSeparates ==
  ASSUME NEW T, SpanningTree(T), NEW e \in T, NEW u \in Ends[e]
  PROVE  Other(u, e) \notin Side(T, e, u)
<1> SUFFICES ASSUME Other(u, e) \in Side(T, e, u) PROVE FALSE
  OBVIOUS
<1> DEFINE o == Other(u, e)
           F == T \ {e}
<1>0. T \subseteq E /\ Cardinality(T) = Cardinality(V) - 1 /\ Connects(T, V)
  BY DEF SpanningTree
<1>1. u \in V /\ o \in V /\ o # u /\ Ends[e] = {u, o}
  BY <1>0, OtherEnd
<1>2. \A X \in SUBSET V : u \in X /\ Uncut(T, e, X) => o \in X
  BY DEF Side
<1> HIDE DEF o
<1>3. ASSUME NEW X \in SUBSET V, Splits(X, V), \A b \in F : ~Splits(X, Ends[b] \cap V)
      PROVE  FALSE
  <2> DEFINE Y == V \ X
  <2>1. Uncut(T, e, X)
    BY <1>3 DEF Uncut
  <2>2. Uncut(T, e, Y)
    BY <1>3 DEF Uncut, Splits
  <2>3. Splits(X, Ends[e] \cap V)
    <3>1. PICK b \in T : Splits(X, Ends[b] \cap V)
      BY <1>0, <1>3 DEF Connects
    <3> QED BY <1>3, <3>1
  <2>4. (u \in X) # (o \in X)
    BY <1>1, <2>3 DEF Splits
  <2>5. CASE u \in X
    BY <1>2, <2>1, <2>4, <2>5
  <2>6. CASE u \notin X
    <3>1. Y \in SUBSET V /\ u \in Y
      BY <1>1, <2>6
    <3>2. o \in Y
      BY <1>2, <2>2, <3>1
    <3> QED BY <2>4, <2>6, <3>2
  <2> QED BY <2>5, <2>6
<1>4. Connects(F, V)
  BY <1>3 DEF Connects
<1>5. F \subseteq E
  BY <1>0
<1>6. IsFiniteSet(T) /\ IsFiniteSet(V)
  BY <1>0, TopologyAssumption, FS_Subset
<1>7. Cardinality(F) = Cardinality(T) - 1
  BY <1>6, FS_RemoveElement
<1>8. Cardinality(V) <= Cardinality(F) + 1
  BY <1>4, <1>5, ConnectedNeeds
<1>9. Cardinality(T) \in Nat /\ Cardinality(V) \in Nat
  BY <1>6, FS_CardinalityType
<1> QED BY <1>0, <1>7, <1>8, <1>9

(* From an edge to the next along the tree, the side gets smaller.         *)
LEMMA SideShrinks ==
  ASSUME NEW T, SpanningTree(T), NEW a \in T, NEW b \in T, a # b,
         NEW u \in Ends[a] \cap Ends[b]
  PROVE  Cardinality(Side(T, b, Other(u, b))) < Cardinality(Side(T, a, u))
<1> DEFINE o == Other(u, b)
           A == Side(T, a, u)
           B == Side(T, b, o)
<1>0. T \subseteq E
  BY DEF SpanningTree
<1>1. u \in V /\ o \in V /\ Ends[b] = {u, o} /\ Other(o, b) = u /\ o \in Ends[b]
  BY <1>0, OtherEnd
<1>2. u \notin B
  BY <1>1, EdgeSeparates
<1>3. u \in A
  BY <1>1 DEF Side
<1>4. ASSUME NEW X \in SUBSET V, u \in X, Uncut(T, a, X)
      PROVE  B \subseteq X
  <2> DEFINE Y == X \cap B
  <2>1. o \in X
    <3>1. \A w \in Ends[b] : Other(w, b) \in X => w \in X
      BY <1>0, <1>4, UncutEnds
    <3> QED BY <1>1, <1>4, <3>1
  <2>2. o \in B
    BY <1>1 DEF Side
  <2>3. Uncut(T, b, B)
    <3> SUFFICES ASSUME NEW c \in T, c # b, NEW w \in Ends[c], Other(w, c) \in B
                 PROVE  w \in B
      BY <1>0, UncutEnds
    <3>1. w \in V
      BY <1>0, OtherEnd
    <3> SUFFICES ASSUME NEW Z \in SUBSET V, o \in Z, Uncut(T, b, Z) PROVE w \in Z
      BY <3>1 DEF Side
    <3>2. Other(w, c) \in Z
      BY DEF Side
    <3> QED BY <1>0, <3>2, UncutEnds
  <2>4. Uncut(T, b, Y)
    <3> SUFFICES ASSUME NEW c \in T, c # b, NEW w \in Ends[c], Other(w, c) \in X, Other(w, c) \in B
                 PROVE  w \in X /\ w \in B
      BY <1>0, UncutEnds
    <3>1. w \in B
      BY <1>0, <2>3, UncutEnds
    <3>2. CASE c # a
      BY <1>0, <1>4, <3>1, <3>2, UncutEnds
    <3>3. CASE c = a
      <4>1. u \in Ends[c]
        BY <3>3
      <4>2. Ends[c] = {w, Other(w, c)}
        BY <1>0, OtherEnd
      <4> QED BY <1>2, <3>1, <4>1, <4>2
    <3> QED BY <3>2, <3>3
  <2>5. Y \in SUBSET V /\ o \in Y
    BY <2>1, <2>2
  <2>6. B \subseteq Y
    BY <2>4, <2>5 DEF Side
  <2> QED BY <2>6
<1>5. B \subseteq A
  <2>1. B \subseteq V
    BY DEF Side
  <2> HIDE DEF B
  <2> QED BY <1>4, <2>1 DEF Side
<1>6. IsFiniteSet(A)
  <2>1. A \subseteq V
    BY DEF Side
  <2> QED BY <2>1, TopologyAssumption, FS_Subset
<1> HIDE DEF A, B
<1>7. IsFiniteSet(B) /\ Cardinality(B) <= Cardinality(A) /\ (Cardinality(A) = Cardinality(B) => A = B)
  BY <1>5, <1>6, FS_Subset
<1>8. Cardinality(A) \in Nat /\ Cardinality(B) \in Nat
  BY <1>6, <1>7, FS_CardinalityType
<1>9. A # B
  BY <1>2, <1>3
<1> QED BY <1>7, <1>8, <1>9 DEF A, B

-----------------------------------------------------------------------------
(* The graphs and the layers hold no trees but those that there are.       *)

(* A function on 1 .. n is a sequence of length n.                         *)
LEMMA FunctionIsSequence ==
  ASSUME NEW S, NEW n \in Nat, NEW f \in [1..n -> S]
  PROVE  f \in Seq(S) /\ Len(f) = n
OBVIOUS

(* The layers of a graph, before the empty ones are left out.              *)
LayerSteps(g, n, top, w) ==
  w = [k \in 0..n |->
        IF k = 0 THEN top
        ELSE LET prev == w[k - 1]
             IN  (UNION {Successors(g, x) : x \in prev}) \ prev]

(* The layers are those steps that are not empty.                          *)
LEMMA LayersBySteps ==
  ASSUME NEW n \in Nat, NEW g \in Graphs(n), NEW top \in SUBSET Vertices(n)
  PROVE  \E w : /\ LayerSteps(g, n, top, w)
                /\ Layers(g, n, top) = [k \in 1..Cardinality({i \in 0..n : w[i] # {}}) |-> w[k - 1]]
<1> DEFINE A == SUBSET Vertices(n)
           step == [p \in Int \X A |-> (UNION {Successors(g, x) : x \in p[2]}) \ p[2]]
<1>2. step \in [Int \X A -> A]
  <2> SUFFICES ASSUME NEW p \in Int \X A
               PROVE  UNION {Successors(g, x) : x \in p[2]} \in A
    OBVIOUS
  <2> QED BY SuccessorsInGraph
<1> HIDE DEF step
<1>3. PICK f \in [0..n -> A] : Repeats(f, 0, n, top, step)
  <2>0. top \in A
    OBVIOUS
  <2> HIDE DEF A
  <2>1. 0 \in Int /\ n \in Int /\ 0 <= n
    OBVIOUS
  <2> QED BY <1>2, <2>0, <2>1, RepetitionExists, Zenon
<1>6. ASSUME NEW k \in 0..n
      PROVE  f[k] = IF k = 0 THEN top
                    ELSE (UNION {Successors(g, x) : x \in f[k - 1]}) \ f[k - 1]
  <2>1. f[k] = IF k = 0 THEN top ELSE step[<<k, f[k - 1]>>]
    BY <1>3 DEF Repeats
  <2>2. CASE k = 0
    BY <2>1, <2>2
  <2>3. CASE k # 0
    <3>1. k - 1 \in 0..n
      BY <2>3
    <3>2. f[k - 1] \in A
      BY <1>3, <3>1
    <3>3. <<k, f[k - 1]>> \in Int \X A
      BY <3>2
    <3>4. f[k] = step[<<k, f[k - 1]>>]
      BY <2>1, <2>3
    <3>5. step[<<k, f[k - 1]>>] = (UNION {Successors(g, x) : x \in f[k - 1]}) \ f[k - 1]
      <4> HIDE DEF A
      <4> QED BY <3>3 DEF step
    <3> QED BY <2>3, <3>4, <3>5
  <2> QED BY <2>2, <2>3
<1>7. LayerSteps(g, n, top, f)
  <2>1. f = [k \in 0..n |-> f[k]]
    BY <1>3
  <2>2. [k \in 0..n |-> f[k]]
          = [k \in 0..n |->
              IF k = 0 THEN top
              ELSE (UNION {Successors(g, x) : x \in f[k - 1]}) \ f[k - 1]]
    BY <1>6
  <2> QED BY <2>1, <2>2 DEF LayerSteps
<1> DEFINE w == CHOOSE w : LayerSteps(g, n, top, w)
<1>8. LayerSteps(g, n, top, w)
  BY <1>7
<1>9. Layers(g, n, top) = [k \in 1..Cardinality({i \in 0..n : w[i] # {}}) |-> w[k - 1]]
  BY DEF Layers, LayerSteps
<1> QED BY <1>8, <1>9

(* The layers of a graph hold its own trees.                               *)
LEMMA LayersInRange ==
  ASSUME NEW n \in Nat, NEW g \in Graphs(n), NEW top \in SUBSET Vertices(n)
  PROVE  \A k \in DOMAIN Layers(g, n, top) : Layers(g, n, top)[k] \subseteq Vertices(n)
<1>1. PICK w : /\ LayerSteps(g, n, top, w)
               /\ Layers(g, n, top) = [k \in 1..Cardinality({i \in 0..n : w[i] # {}}) |-> w[k - 1]]
  BY LayersBySteps
<1>2. w = [k \in 0..n |->
            IF k = 0 THEN top ELSE (UNION {Successors(g, x) : x \in w[k - 1]}) \ w[k - 1]]
  BY <1>1 DEF LayerSteps
<1>3. ASSUME NEW k \in 0..n PROVE w[k] \subseteq Vertices(n)
  <2>1. CASE k = 0
    BY <1>2, <2>1
  <2>2. CASE k # 0
    <3>1. w[k] = (UNION {Successors(g, x) : x \in w[k - 1]}) \ w[k - 1]
      BY <1>2, <2>2
    <3> QED BY <3>1, SuccessorsInGraph
  <2> QED BY <2>1, <2>2
<1> DEFINE some == {i \in 0..n : w[i] # {}}
<1>4. some \subseteq 0..n /\ IsFiniteSet(0..n) /\ Cardinality(0..n) = n + 1
  BY FS_Interval
<1> HIDE DEF some
<1>5. Cardinality(some) \in Nat /\ Cardinality(some) <= n + 1
  BY <1>4, FS_Subset, FS_CardinalityType, ZenonT(30)
<1>6. \A k \in 1..Cardinality(some) : k - 1 \in 0..n
  BY <1>5
<1>7. Layers(g, n, top) = [k \in 1..Cardinality(some) |-> w[k - 1]]
  BY <1>1 DEF some
<1> QED BY <1>3, <1>6, <1>7

(* A line leads to its own trees.                                          *)
LEMMA LineInRange ==
  ASSUME NEW n \in Nat
  PROVE  Line(n) \in Graphs(n)
BY DEF Line, Graphs, Vertices

-----------------------------------------------------------------------------
(* The layered graphs.                                                     *)

Layered == {"mlayer", "alayer", "t"}

Widths(type, n, l1width, w) ==
  w = [k \in 1..n |->
        IF k = 1 THEN l1width ELSE LET prev == w[k - 1] IN NextWidth(type, prev)]

Totals(n, width, u) ==
  u = [k \in 0..n |->
        IF k = 0 THEN 0 ELSE LET prev == u[k - 1] IN prev + width[k]]

(* A layer after a layer with trees has trees.                             *)
LEMMA NextWidthPositive ==
  ASSUME NEW type \in Layered, NEW x \in Nat \ {0}
  PROVE  NextWidth(type, x) \in Nat \ {0}
<1>1. CASE type = "mlayer"
  BY <1>1 DEF NextWidth
<1>2. CASE type = "alayer"
  BY <1>2 DEF NextWidth
<1>3. CASE type = "t"
  BY <1>3 DEF NextWidth
<1> QED BY <1>1, <1>2, <1>3 DEF Layered

(* The layers of a layered graph have widths, and none is 0.               *)
LEMMA WidthsExist ==
  ASSUME NEW type \in Layered, NEW n \in Nat \ {0}, NEW l1width \in Nat \ {0}
  PROVE  \E w \in [1..n -> Nat \ {0}] : Widths(type, n, l1width, w)
<1> DEFINE A == Nat \ {0}
           step == [p \in Int \X A |-> NextWidth(type, p[2])]
<1>2. step \in [Int \X A -> A]
  <2> SUFFICES ASSUME NEW p \in Int \X A
               PROVE  NextWidth(type, p[2]) \in A
    OBVIOUS
  <2> QED BY NextWidthPositive
<1> HIDE DEF step
<1>3. PICK f \in [1..n -> A] : Repeats(f, 1, n, l1width, step)
  <2>0. l1width \in A
    OBVIOUS
  <2> HIDE DEF A
  <2>1. 1 \in Int /\ n \in Int /\ 1 <= n
    OBVIOUS
  <2> QED BY <1>2, <2>0, <2>1, RepetitionExists, Zenon
<1>6. ASSUME NEW k \in 1..n
      PROVE  f[k] = IF k = 1 THEN l1width ELSE NextWidth(type, f[k - 1])
  <2>1. f[k] = IF k = 1 THEN l1width ELSE step[<<k, f[k - 1]>>]
    BY <1>3 DEF Repeats
  <2>2. CASE k = 1
    BY <2>1, <2>2
  <2>3. CASE k # 1
    <3>1. k - 1 \in 1..n
      BY <2>3
    <3>2. f[k - 1] \in A
      BY <1>3, <3>1
    <3>3. <<k, f[k - 1]>> \in Int \X A
      BY <3>2
    <3>4. f[k] = step[<<k, f[k - 1]>>]
      BY <2>1, <2>3
    <3>5. step[<<k, f[k - 1]>>] = NextWidth(type, f[k - 1])
      <4> HIDE DEF A
      <4> QED BY <3>3 DEF step
    <3> QED BY <2>3, <3>4, <3>5
  <2> QED BY <2>2, <2>3
<1>7. Widths(type, n, l1width, f)
  <2>1. f = [k \in 1..n |-> f[k]]
    BY <1>3
  <2>2. [k \in 1..n |-> f[k]]
          = [k \in 1..n |-> IF k = 1 THEN l1width ELSE NextWidth(type, f[k - 1])]
    BY <1>6
  <2> QED BY <2>1, <2>2 DEF Widths
<1> QED BY <1>3, <1>7

(* The widths of the layers have running totals.                           *)
LEMMA TotalsExist ==
  ASSUME NEW n \in Nat \ {0}, NEW width \in [1..n -> Nat \ {0}]
  PROVE  \E u : Totals(n, width, u)
<1> DEFINE step == [p \in Int \X Nat |-> IF p[1] \in 1..n THEN p[2] + width[p[1]] ELSE 0]
<1>2. step \in [Int \X Nat -> Nat]
  OBVIOUS
<1> HIDE DEF step
<1>3. PICK f \in [0..n -> Nat] : Repeats(f, 0, n, 0, step)
  <2>1. 0 \in Int /\ n \in Int /\ 0 <= n /\ 0 \in Nat
    OBVIOUS
  <2> QED BY <1>2, <2>1, RepetitionExists, Zenon
<1>6. ASSUME NEW k \in 0..n
      PROVE  f[k] = IF k = 0 THEN 0 ELSE f[k - 1] + width[k]
  <2>1. f[k] = IF k = 0 THEN 0 ELSE step[<<k, f[k - 1]>>]
    BY <1>3 DEF Repeats
  <2>2. CASE k = 0
    BY <2>1, <2>2
  <2>3. CASE k # 0
    <3>1. k - 1 \in 0..n /\ k \in 1..n
      BY <2>3
    <3>2. f[k - 1] \in Nat
      BY <1>3, <3>1
    <3>3. <<k, f[k - 1]>> \in Int \X Nat
      BY <3>2, SMTT(30)
    <3>4. f[k] = step[<<k, f[k - 1]>>]
      BY <2>1, <2>3
    <3>5. step[<<k, f[k - 1]>>] = f[k - 1] + width[k]
      BY <3>1, <3>3 DEF step
    <3> QED BY <2>3, <3>4, <3>5
  <2> QED BY <2>2, <2>3
<1>7. Totals(n, width, f)
  <2>1. f = [k \in 0..n |-> f[k]]
    BY <1>3
  <2>2. [k \in 0..n |-> f[k]] = [k \in 0..n |-> IF k = 0 THEN 0 ELSE f[k - 1] + width[k]]
    BY <1>6
  <2> QED BY <2>1, <2>2 DEF Totals
<1> QED BY <1>7

(* Every layer has a tree, so that n layers are enough for n trees.        *)
LEMMA TotalsGrow ==
  ASSUME NEW n \in Nat \ {0}, NEW width \in [1..n -> Nat \ {0}], NEW u, Totals(n, width, u)
  PROVE  /\ u[0] = 0
         /\ \A k \in 0..n : u[k] \in Nat /\ k <= u[k]
         /\ \A k \in 1..n : u[k - 1] < u[k]
         /\ \A i, j \in 0..n : i <= j => u[i] <= u[j]
<1>1. u = [k \in 0..n |-> IF k = 0 THEN 0 ELSE u[k - 1] + width[k]]
  BY DEF Totals
<1>2. u[0] = 0
  BY <1>1
<1> DEFINE S == {k \in Nat : k <= n => u[k] \in Nat /\ k <= u[k]}
<1>3. 0 \in S
  BY <1>2
<1>4. ASSUME NEW k \in Nat, k \in S PROVE k + 1 \in S
  <2> SUFFICES ASSUME k + 1 <= n PROVE u[k + 1] \in Nat /\ k + 1 <= u[k + 1]
    OBVIOUS
  <2>1. k + 1 \in 1..n /\ k + 1 \in 0..n /\ k + 1 # 0 /\ (k + 1) - 1 = k /\ k <= n
    OBVIOUS
  <2>2. u[k + 1] = u[k] + width[k + 1]
    BY <1>1, <2>1
  <2>3. width[k + 1] \in Nat /\ width[k + 1] >= 1
    BY <2>1
  <2>4. u[k] \in Nat /\ k <= u[k]
    BY <1>4, <2>1
  <2> QED BY <2>2, <2>3, <2>4
<1> HIDE DEF S
<1>5. Nat \subseteq S
  BY <1>3, <1>4, NatSet
<1>6. \A k \in 0..n : u[k] \in Nat /\ k <= u[k]
  BY <1>5 DEF S
<1>7. ASSUME NEW k \in 1..n PROVE u[k - 1] < u[k]
  <2>1. k \in 0..n /\ k # 0 /\ k - 1 \in 0..n
    OBVIOUS
  <2>2. u[k] = u[k - 1] + width[k]
    BY <1>1, <2>1
  <2>3. width[k] \in Nat /\ width[k] >= 1 /\ u[k - 1] \in Nat
    BY <1>6, <2>1
  <2> QED BY <2>2, <2>3
<1>8. ASSUME NEW i \in 0..n, NEW j \in 0..n, i <= j PROVE u[i] <= u[j]
  <2> DEFINE Q == {d \in Nat : i + d <= n => u[i] <= u[i + d]}
  <2>1. 0 \in Q
    BY <1>6
  <2>2. ASSUME NEW d \in Nat, d \in Q PROVE d + 1 \in Q
    <3> SUFFICES ASSUME i + (d + 1) <= n PROVE u[i] <= u[i + (d + 1)]
      OBVIOUS
    <3>1. i + (d + 1) \in 1..n /\ (i + (d + 1)) - 1 = i + d /\ i + d <= n /\ i + d \in 0..n /\ i + (d + 1) \in 0..n
      OBVIOUS
    <3>2. u[i + d] < u[i + (d + 1)]
      BY <1>7, <3>1
    <3>3. u[i] <= u[i + d]
      BY <2>2, <3>1
    <3>4. u[i] \in Nat /\ u[i + d] \in Nat /\ u[i + (d + 1)] \in Nat
      BY <1>6, <3>1
    <3> QED BY <3>2, <3>3, <3>4
  <2> HIDE DEF Q
  <2>3. j - i \in Nat /\ i + (j - i) = j
    BY <1>8
  <2>4. j - i \in Q
    BY <2>1, <2>2, <2>3, NatSet
  <2> QED BY <2>3, <2>4 DEF Q
<1> QED BY <1>2, <1>6, <1>7, <1>8

(* There are enough layers for the trees, and they hold no others; none is *)
(* empty, and the trees of a layer come before those of the later ones.    *)
LEMMA LayersOfInRange ==
  ASSUME NEW type \in Layered, NEW n \in Nat \ {0}, NEW l1width \in Nat \ {0}
  PROVE  \E m \in 1..n :
           /\ LayersOf(type, n, l1width) \in [1..m -> SUBSET Vertices(n)]
           /\ \A x \in Vertices(n) : \E k \in 1..m : x \in LayersOf(type, n, l1width)[k]
           /\ \A i, j \in 1..m : i < j =>
                \A x \in LayersOf(type, n, l1width)[i], y \in LayersOf(type, n, l1width)[j] : x < y
           /\ \A k \in 1..m : LayersOf(type, n, l1width)[k] # {}
           /\ \A i, j \in 1..m :
                i < j => LayersOf(type, n, l1width)[i] \cap LayersOf(type, n, l1width)[j] = {}
<1> DEFINE width == CHOOSE w : Widths(type, n, l1width, w)
           upTo == CHOOSE u : Totals(n, width, u)
           number == CHOOSE k \in 1..n : upTo[k - 1] < n /\ n <= upTo[k]
<1>1. LayersOf(type, n, l1width)
        = [k \in 1..number |-> {i \in Vertices(n) : upTo[k - 1] <= i /\ i < upTo[k]}]
  BY DEF LayersOf, Widths, Totals
<1>2. Widths(type, n, l1width, width)
  BY WidthsExist
<1> HIDE DEF width
<1>3. width \in [1..n -> Nat \ {0}]
  <2> DEFINE S == {k \in Nat : k + 1 <= n => width[k + 1] \in Nat \ {0}}
  <2>0. width = [k \in 1..n |-> IF k = 1 THEN l1width ELSE NextWidth(type, width[k - 1])]
    BY <1>2 DEF Widths
  <2>1. 0 \in S
    BY <2>0
  <2>2. ASSUME NEW k \in Nat, k \in S PROVE k + 1 \in S
    <3> SUFFICES ASSUME (k + 1) + 1 <= n PROVE width[(k + 1) + 1] \in Nat \ {0}
      OBVIOUS
    <3>1. (k + 1) + 1 \in 1..n /\ (k + 1) + 1 # 1 /\ ((k + 1) + 1) - 1 = k + 1 /\ k + 1 <= n
      OBVIOUS
    <3>2. width[(k + 1) + 1] = NextWidth(type, width[k + 1])
      BY <2>0, <3>1
    <3> QED BY <2>2, <3>1, <3>2, NextWidthPositive
  <2> HIDE DEF S
  <2>3. Nat \subseteq S
    BY <2>1, <2>2, NatSet
  <2>4. ASSUME NEW k \in 1..n PROVE width[k] \in Nat \ {0}
    <3>1. k - 1 \in Nat /\ (k - 1) + 1 = k /\ k <= n
      OBVIOUS
    <3> QED BY <2>3, <3>1 DEF S
  <2>5. width = [k \in 1..n |-> width[k]]
    BY <2>0
  <2> QED BY <2>4, <2>5
<1>4. Totals(n, width, upTo)
  BY <1>3, TotalsExist
<1> HIDE DEF upTo
<1>5. /\ upTo[0] = 0
      /\ \A k \in 0..n : upTo[k] \in Nat /\ k <= upTo[k]
      /\ \A k \in 1..n : upTo[k - 1] < upTo[k]
      /\ \A i, j \in 0..n : i <= j => upTo[i] <= upTo[j]
  BY <1>3, <1>4, TotalsGrow
<1>6. \E k \in 1..n : upTo[k - 1] < n /\ n <= upTo[k]
  <2> DEFINE S == {k \in 0..n : n <= upTo[k]}
  <2>1. n \in S /\ S \in SUBSET Nat
    BY <1>5
  <2>2. PICK k \in S : \A j \in S : k <= j
    <3> HIDE DEF S
    <3> QED BY <2>1, LeastNat
  <2>3. k \in 0..n /\ k # 0
    BY <1>5, <2>2
  <2>4. k \in 1..n /\ k - 1 \in 0..n /\ ~(k <= k - 1)
    BY <2>3
  <2>5. ~(n <= upTo[k - 1]) /\ upTo[k - 1] \in Nat
    BY <1>5, <2>2, <2>4
  <2> QED BY <2>2, <2>4, <2>5
<1>7. number \in 1..n /\ upTo[number - 1] < n /\ n <= upTo[number]
  BY <1>6
<1> HIDE DEF number
<1> DEFINE L == LayersOf(type, n, l1width)
<1>8. L = [k \in 1..number |-> {i \in Vertices(n) : upTo[k - 1] <= i /\ i < upTo[k]}]
  BY <1>1
<1> HIDE DEF L
<1>9. ASSUME NEW k \in 1..number PROVE L[k] # {}
  <2>1. k \in 1..n /\ k - 1 \in 0..n /\ number - 1 \in 0..n /\ k - 1 <= number - 1
    BY <1>7
  <2>2. upTo[k - 1] <= upTo[number - 1] /\ upTo[k - 1] < upTo[k]
    BY <1>5, <2>1
  <2>3. upTo[k - 1] \in Nat /\ upTo[number - 1] \in Nat
    BY <1>5, <2>1
  <2>4. upTo[k - 1] \in Vertices(n)
    BY <1>7, <2>2, <2>3 DEF Vertices
  <2>5. upTo[k - 1] \in L[k]
    BY <1>8, <2>2, <2>3, <2>4
  <2> QED BY <2>5
<1>10. ASSUME NEW i \in 1..number, NEW j \in 1..number, i < j, NEW x \in L[i], NEW y \in L[j]
       PROVE  x < y
  <2>1. i \in 0..n /\ j - 1 \in 0..n /\ i <= j - 1
    BY <1>7, <1>10
  <2>2. upTo[i] <= upTo[j - 1] /\ upTo[i] \in Nat /\ upTo[j - 1] \in Nat
    BY <1>5, <2>1
  <2>3. x \in Vertices(n) /\ x < upTo[i] /\ y \in Vertices(n) /\ upTo[j - 1] <= y
    BY <1>8
  <2>4. x \in Int /\ y \in Int
    BY <2>3 DEF Vertices
  <2> QED BY <2>2, <2>3, <2>4
<1>11. L \in [1..number -> SUBSET Vertices(n)]
  BY <1>7, <1>8
<1>12. ASSUME NEW i \in 1..number, NEW j \in 1..number, i < j PROVE L[i] \cap L[j] = {}
  <2> SUFFICES ASSUME NEW x \in L[i] \cap L[j] PROVE FALSE
    OBVIOUS
  <2>1. x < x /\ x \in Vertices(n)
    BY <1>10, <1>11, <1>12
  <2> QED BY <2>1 DEF Vertices
<1>13. ASSUME NEW x \in Vertices(n) PROVE \E k \in 1..number : x \in L[k]
  <2> DEFINE S == {k \in 0..n : x < upTo[k]}
  <2>1. number \in S /\ S \in SUBSET Nat /\ x \in Nat
    <3>1. x \in Nat /\ x < n
      BY DEF Vertices
    <3> QED BY <1>5, <1>7, <3>1
  <2>2. PICK k \in S : \A j \in S : k <= j
    <3> HIDE DEF S
    <3> QED BY <2>1, LeastNat
  <2>3. k \in 0..n /\ k # 0 /\ k <= number
    BY <1>5, <2>1, <2>2
  <2>4. k \in 1..number /\ k - 1 \in 0..n /\ ~(k <= k - 1)
    BY <1>7, <2>3
  <2>5. upTo[k - 1] <= x
    BY <1>5, <2>1, <2>2, <2>4
  <2>6. x \in L[k]
    BY <1>8, <2>2, <2>4, <2>5
  <2> QED BY <2>4, <2>6
<1> QED BY <1>7, <1>9, <1>10, <1>11, <1>12, <1>13 DEF L

(* A layered graph leads to its own trees.                                 *)
LEMMA LayeredInRange ==
  ASSUME NEW type \in Layered, NEW n \in Nat \ {0}, NEW l1width \in Nat \ {0}, NEW self_layer
  PROVE  /\ LayeredDag(type, n, l1width, self_layer) \in Graphs(n)
         /\ LayeredFirst(type, n, l1width) \in SUBSET Vertices(n)
<1> DEFINE L == LayersOf(type, n, l1width)
<1>1. PICK m \in 1..n : L \in [1..m -> SUBSET Vertices(n)]
  BY LayersOfInRange
<1> HIDE DEF L
<1>2. Len(L) = m
  BY <1>1, FunctionIsSequence
<1>3. \A k \in 1..m - 1 : L[k] \in SUBSET Vertices(n) /\ L[k + 1] \in SUBSET Vertices(n)
  <2> SUFFICES ASSUME NEW k \in 1..m - 1
               PROVE  L[k] \in SUBSET Vertices(n) /\ L[k + 1] \in SUBSET Vertices(n)
    OBVIOUS
  <2>1. k \in 1..m /\ k + 1 \in 1..m
    OBVIOUS
  <2> QED BY <1>1, <2>1
<1>4. Line(n) \in Graphs(n)
  BY LineInRange
<1>5. UNION {L[k] \X L[k + 1] : k \in 1..m - 1} \subseteq Vertices(n) \X Vertices(n)
  BY <1>3
<1>6. L[1] \in SUBSET Vertices(n)
  BY <1>1
<1>7. LayeredDag(type, n, l1width, self_layer)
        = (UNION {L[k] \X L[k + 1] : k \in 1..m - 1})
            \cup {a \in Line(n) : self_layer /\ \E k \in DOMAIN L : {a[1], a[2]} \subseteq L[k]}
  BY <1>2 DEF LayeredDag, L
<1>8. LayeredFirst(type, n, l1width) = L[1]
  BY DEF LayeredFirst, L
<1> DEFINE across == (UNION {L[k] \X L[k + 1] : k \in 1..m - 1})
           inside == {a \in Line(n) : self_layer /\ \E k \in DOMAIN L : {a[1], a[2]} \subseteq L[k]}
           pairs == Vertices(n) \X Vertices(n)
<1>9. inside \subseteq pairs /\ across \subseteq pairs
  BY <1>4, <1>5 DEF Graphs
<1>10. Graphs(n) = SUBSET pairs
  BY DEF Graphs
<1>12. LayeredDag(type, n, l1width, self_layer) = across \cup inside
  BY <1>7, Zenon
<1> HIDE DEF across, inside, pairs
<1>11. LayeredDag(type, n, l1width, self_layer) \in Graphs(n)
  BY <1>9, <1>10, <1>12
<1> QED BY <1>6, <1>8, <1>11

-----------------------------------------------------------------------------
(* The trees that are kept.                                                *)

SwappedFor(L, dist, maxl1, top, new) ==
  IF Cardinality(top \cap L[1]) > maxl1 /\ new \notin L[1]
  THEN {(top \ {bad}) \cup {new} :
          bad \in {x \in top \cap L[1] : \A y \in top \cap L[1] : dist[y] <= dist[x]}}
  ELSE {top}

TopsSteps(L, n, dist, num_trees, maxl1, s, w) ==
  w = [k \in num_trees..n |->
        IF k = num_trees THEN {{s[i] : i \in 1..k}}
        ELSE LET prev == w[k - 1]
             IN  UNION {SwappedFor(L, dist, maxl1, top, s[k]) : top \in prev}]

(* The kept trees are those after the last exchange.                       *)
LEMMA TopTreesBySteps ==
  ASSUME NEW L, NEW n, NEW dist, NEW num_trees, NEW maxl1
  PROVE  TopTrees(L, n, dist, num_trees, maxl1)
           = UNION {(CHOOSE w : TopsSteps(L, n, dist, num_trees, maxl1, s, w))[n] :
                      s \in ByDistance(L, n, dist)}
BY DEF TopTrees, TopsSteps, SwappedFor

(* An exchange brings in no tree but the new one.                          *)
LEMMA SwappedInRange ==
  ASSUME NEW n, NEW L, NEW dist, NEW maxl1,
         NEW top \in SUBSET Vertices(n), NEW new \in Vertices(n)
  PROVE  SwappedFor(L, dist, maxl1, top, new) \in SUBSET SUBSET Vertices(n)
BY DEF SwappedFor

(* The kept trees come from those exchanges, in an order by distance.      *)
LEMMA TopTreesFromSteps ==
  ASSUME NEW n \in Nat, NEW num_trees \in Nat \ {0}, num_trees <= n,
         NEW L, NEW dist, NEW maxl1,
         NEW top \in TopTrees(L, n, dist, num_trees, maxl1)
  PROVE  \E s \in ByDistance(L, n, dist) : \E w :
           TopsSteps(L, n, dist, num_trees, maxl1, s, w) /\ top \in w[n]
<1>1. PICK s \in ByDistance(L, n, dist) :
         top \in (CHOOSE w : TopsSteps(L, n, dist, num_trees, maxl1, s, w))[n]
  BY TopTreesBySteps
<1>2. s \in [1..n -> Vertices(n)]
  BY DEF ByDistance
<1> DEFINE A == SUBSET SUBSET Vertices(n)
           start == {{s[i] : i \in 1..num_trees}}
           step == [p \in Int \X A |->
                     IF p[1] \in 1..n
                     THEN UNION {SwappedFor(L, dist, maxl1, x, s[p[1]]) : x \in p[2]} ELSE {}]
<1>3. start \in A
  BY <1>2
<1>4. step \in [Int \X A -> A]
  <2> SUFFICES ASSUME NEW p \in Int \X A, p[1] \in 1..n
               PROVE  UNION {SwappedFor(L, dist, maxl1, x, s[p[1]]) : x \in p[2]} \in A
    OBVIOUS
  <2>1. s[p[1]] \in Vertices(n) /\ p[2] \in A
    BY <1>2
  <2>2. \A x \in p[2] : SwappedFor(L, dist, maxl1, x, s[p[1]]) \in A
    BY <2>1, SwappedInRange
  <2> QED BY <2>2
<1> HIDE DEF start, step
<1>5. PICK f \in [num_trees..n -> A] : Repeats(f, num_trees, n, start, step)
  <2> HIDE DEF A
  <2>1. num_trees \in Int /\ n \in Int /\ num_trees <= n
    OBVIOUS
  <2> QED BY <1>3, <1>4, <2>1, RepetitionExists, Zenon
<1>6. ASSUME NEW k \in num_trees..n
      PROVE  f[k] = IF k = num_trees THEN {{s[i] : i \in 1..k}}
                    ELSE UNION {SwappedFor(L, dist, maxl1, x, s[k]) : x \in f[k - 1]}
  <2>1. f[k] = IF k = num_trees THEN start ELSE step[<<k, f[k - 1]>>]
    BY <1>5 DEF Repeats
  <2>2. CASE k = num_trees
    BY <2>1, <2>2 DEF start
  <2>3. CASE k # num_trees
    <3>1. k - 1 \in num_trees..n /\ k \in 1..n
      BY <2>3
    <3>2. f[k - 1] \in A
      BY <1>5, <3>1
    <3>3. <<k, f[k - 1]>> \in Int \X A
      BY <3>2
    <3>4. f[k] = step[<<k, f[k - 1]>>]
      BY <2>1, <2>3
    <3>5. step[<<k, f[k - 1]>>] = UNION {SwappedFor(L, dist, maxl1, x, s[k]) : x \in f[k - 1]}
      <4> HIDE DEF A
      <4> QED BY <3>1, <3>3 DEF step
    <3> QED BY <2>3, <3>4, <3>5
  <2> QED BY <2>2, <2>3
<1>7. TopsSteps(L, n, dist, num_trees, maxl1, s, f)
  <2>1. f = [k \in num_trees..n |-> f[k]]
    BY <1>5
  <2>2. [k \in num_trees..n |-> f[k]]
          = [k \in num_trees..n |->
              IF k = num_trees THEN {{s[i] : i \in 1..k}}
              ELSE UNION {SwappedFor(L, dist, maxl1, x, s[k]) : x \in f[k - 1]}]
    BY <1>6
  <2> QED BY <2>1, <2>2 DEF TopsSteps
<1> DEFINE w == CHOOSE w : TopsSteps(L, n, dist, num_trees, maxl1, s, w)
<1>8. TopsSteps(L, n, dist, num_trees, maxl1, s, w) /\ top \in w[n]
  BY <1>1, <1>7
<1> HIDE DEF w
<1> QED BY <1>8

(* The trees that are kept are among those that there are.                 *)
LEMMA TopTreesInRange ==
  ASSUME NEW n \in Nat, NEW num_trees \in Nat \ {0}, num_trees <= n,
         NEW L, NEW dist, NEW maxl1,
         NEW top \in TopTrees(L, n, dist, num_trees, maxl1)
  PROVE  top \in SUBSET Vertices(n)
<1>7. PICK s \in ByDistance(L, n, dist) :
         \E w : TopsSteps(L, n, dist, num_trees, maxl1, s, w) /\ top \in w[n]
  BY TopTreesFromSteps
<1>8. PICK w : TopsSteps(L, n, dist, num_trees, maxl1, s, w) /\ top \in w[n]
  BY <1>7
<1> DEFINE A == SUBSET SUBSET Vertices(n)
<1>2. s \in [1..n -> Vertices(n)]
  BY DEF ByDistance
<1>9. w = [k \in num_trees..n |->
            IF k = num_trees THEN {{s[i] : i \in 1..k}}
            ELSE UNION {SwappedFor(L, dist, maxl1, x, s[k]) : x \in w[k - 1]}]
  BY <1>8 DEF TopsSteps
<1> DEFINE S == {m \in Nat : num_trees + m <= n => w[num_trees + m] \in A}
<1>10. 0 \in S
  <2>1. num_trees \in num_trees..n /\ num_trees + 0 = num_trees
    OBVIOUS
  <2>2. w[num_trees] = {{s[i] : i \in 1..num_trees}}
    BY <1>9, <2>1
  <2>3. w[num_trees] \in A
    BY <1>2, <2>2
  <2> QED BY <2>1, <2>3
<1>11. ASSUME NEW m \in Nat, m \in S PROVE m + 1 \in S
  <2> SUFFICES ASSUME num_trees + (m + 1) <= n PROVE w[num_trees + (m + 1)] \in A
    OBVIOUS
  <2> DEFINE k == num_trees + (m + 1)
  <2>1. k \in num_trees..n /\ k # num_trees /\ k - 1 = num_trees + m /\ num_trees + m <= n /\ k \in 1..n
    OBVIOUS
  <2> HIDE DEF k
  <2>2. w[k] = UNION {SwappedFor(L, dist, maxl1, x, s[k]) : x \in w[k - 1]}
    BY <1>9, <2>1
  <2>3. w[k - 1] \in A
    BY <1>11, <2>1
  <2>4. s[k] \in Vertices(n)
    BY <1>2, <2>1
  <2>5. \A x \in w[k - 1] : SwappedFor(L, dist, maxl1, x, s[k]) \in A
    BY <2>3, <2>4, SwappedInRange
  <2>6. w[k] \in A
    BY <2>2, <2>5
  <2> QED BY <2>6 DEF k
<1> HIDE DEF S
<1>12. n - num_trees \in Nat /\ num_trees + (n - num_trees) = n
  OBVIOUS
<1>13. n - num_trees \in S
  BY <1>10, <1>11, <1>12, NatSet
<1>14. w[n] \in A
  BY <1>12, <1>13 DEF S
<1> QED BY <1>8, <1>14

(* A finite set of numbers has a k-th, for every k up to its size.         *)
LEMMA NthIsOne ==
  ASSUME NEW S \in SUBSET Nat, IsFiniteSet(S), NEW k \in 1..Cardinality(S)
  PROVE  Nth(S, k) \in S /\ Cardinality({y \in S : y <= Nth(S, k)}) = k
<1> DEFINE Below(x) == {y \in S : y <= x}
           enough == {x \in S : k <= Cardinality(Below(x))}
<1>1. \A x : IsFiniteSet(Below(x)) /\ Cardinality(Below(x)) \in Nat
  <2>1. \A x : Below(x) \subseteq S
    OBVIOUS
  <2> HIDE DEF Below
  <2> QED BY <2>1, FS_Subset, FS_CardinalityType
<1>2. enough # {}
  <2>1. \E x \in S : Below(x) = S
    <3>1. S # {} /\ Cardinality(S) \in Nat
      BY FS_EmptySet, FS_CardinalityType
    <3>2. PICK x \in S : \A y \in S : y <= x
      BY <3>1, GreatestNat
    <3> QED BY <3>2
  <2>2. Cardinality(S) \in Nat
    BY FS_CardinalityType
  <2> QED BY <2>1, <2>2
<1>3. PICK x \in enough : \A y \in enough : x <= y
  <2>1. enough \in SUBSET Nat
    OBVIOUS
  <2> HIDE DEF enough
  <2> QED BY <1>2, <2>1, LeastNat
<1>4. Cardinality(Below(x)) = k
  <2> SUFFICES ASSUME Cardinality(Below(x)) # k PROVE FALSE
    OBVIOUS
  <2>1. Cardinality(Below(x)) > k
    BY <1>1, <1>3
  <2> DEFINE less == Below(x) \ {x}
  <2>2. Cardinality(less) = Cardinality(Below(x)) - 1 /\ IsFiniteSet(less)
    <3>1. x \in Below(x)
      BY <1>3
    <3> HIDE DEF Below
    <3> QED BY <1>1, <3>1, FS_RemoveElement
  <2>3. Cardinality(less) >= k
    BY <1>1, <2>1, <2>2
  <2>4. less # {}
    <3>1. Cardinality({}) = 0
      BY FS_EmptySet
    <3> HIDE DEF less
    <3> QED BY <2>3, <3>1
  <2>5. less \in SUBSET Nat
    OBVIOUS
  <2>6. PICK z \in less : \A y \in less : y <= z
    <3> HIDE DEF less
    <3> QED BY <2>2, <2>4, <2>5, GreatestNat
  <2>7. Below(z) = less
    <3>1. z \in Nat /\ x \in Nat /\ z \in S /\ z <= x /\ z # x
      BY <2>6
    <3>2. \A y \in S : y \in Nat /\ (y <= z => y <= x /\ y # x)
      BY <3>1
    <3>3. \A y \in S : y <= x /\ y # x => y <= z
      BY <2>6
    <3> QED BY <3>2, <3>3
  <2>8. z \in enough /\ ~(x <= z)
    BY <2>3, <2>6, <2>7
  <2> QED BY <1>3, <2>8
<1>5. x \in S /\ Cardinality({y \in S : y <= x}) = k
  BY <1>3, <1>4
<1> QED BY <1>5 DEF Nth

(* The layers that are kept hold trees that are kept.                      *)
LEMMA KeptInTop ==
  ASSUME NEW L, NEW top, NEW type, IsFiniteSet(top), top \subseteq Nat,
         NEW k \in DOMAIN Kept(L, top, type)
  PROVE  Kept(L, top, type)[k] \subseteq top
<1> DEFINE some == {i \in DOMAIN L : L[i] \cap top # {}}
           nlayers == [i \in 1..Cardinality(some) |-> L[Nth(some, i)] \cap top]
           byIndex == [i \in 1..Cardinality(top) |-> {Nth(top, i)}]
<1>1. Kept(L, top, type) = IF type = "line" /\ Cardinality(nlayers[1]) > 1 THEN byIndex ELSE nlayers
  BY DEF Kept
<1> HIDE DEF some
<1>2. \A i \in DOMAIN nlayers : nlayers[i] \subseteq top
  OBVIOUS
<1>3. \A i \in DOMAIN byIndex : byIndex[i] \subseteq top
  <2>1. \A i \in 1..Cardinality(top) : Nth(top, i) \in top
    BY NthIsOne, Zenon
  <2> QED BY <2>1
<1> HIDE DEF nlayers, byIndex
<1> QED BY <1>1, <1>2, <1>3

-----------------------------------------------------------------------------
(* Later layers are reached from earlier ones.                             *)

(* What is reached from what is reached is reached.                        *)
LEMMA ReachedAgain ==
  ASSUME NEW n \in Nat, NEW g \in Graphs(n), NEW x \in Vertices(n), NEW y \in Closure(g, n)[x]
  PROVE  /\ x \in Closure(g, n)[x] /\ y \in Vertices(n)
         /\ Closure(g, n)[y] \subseteq Closure(g, n)[x]
         /\ \A a \in g : a[1] = y => a[2] \in Closure(g, n)[x]
<1> DEFINE R == Closure(g, n)
<1>1. ClosureRight(g, n, R)
  BY ClosureIsRight
<1> HIDE DEF R
<1>2. R[x] \in SUBSET Vertices(n) /\ x \in R[x] /\ \A a \in g : a[1] \in R[x] => a[2] \in R[x]
  BY <1>1 DEF ClosureRight
<1>3. y \in R[x]
  BY DEF R
<1>4. R[y] \subseteq R[x]
  BY <1>1, <1>2, <1>3 DEF ClosureRight
<1> QED BY <1>2, <1>3, <1>4 DEF R

(* What the layers are.                                                    *)
LEMMA LayerIs ==
  ASSUME NEW n \in Nat, NEW g \in Graphs(n), NEW top \in SUBSET Vertices(n),
         NEW w, LayerSteps(g, n, top, w)
  PROVE  /\ w[0] = top
         /\ \A k \in 0..n : w[k] \subseteq Vertices(n)
         /\ \A k \in 0..(n - 1) : \A x :
              x \in w[k + 1] <=> x \notin w[k] /\ \E y \in w[k] : <<y, x>> \in g
<1>1. w = [k \in 0..n |->
            IF k = 0 THEN top ELSE (UNION {Successors(g, x) : x \in w[k - 1]}) \ w[k - 1]]
  BY DEF LayerSteps
<1>2. w[0] = top
  <2>1. 0 \in 0..n
    OBVIOUS
  <2> QED BY <1>1, <2>1
<1>3. \A k \in 0..(n - 1) : w[k + 1] = (UNION {Successors(g, x) : x \in w[k]}) \ w[k]
  <2> SUFFICES ASSUME NEW k \in 0..(n - 1)
               PROVE  w[k + 1] = (UNION {Successors(g, x) : x \in w[k]}) \ w[k]
    OBVIOUS
  <2>1. k + 1 \in 0..n /\ k + 1 # 0 /\ (k + 1) - 1 = k
    OBVIOUS
  <2> QED BY <1>1, <2>1
<1>4. \A y, x : x \in Successors(g, y) <=> <<y, x>> \in g
  <2> SUFFICES ASSUME NEW y, NEW x PROVE x \in Successors(g, y) <=> <<y, x>> \in g
    OBVIOUS
  <2>1. \A a \in g : a = <<a[1], a[2]>>
    BY DEF Graphs
  <2> QED BY <2>1, SuccessorsAre
<1>5. \A k \in 0..(n - 1) : \A x : x \in w[k + 1] <=> x \notin w[k] /\ \E y \in w[k] : <<y, x>> \in g
  <2> SUFFICES ASSUME NEW k \in 0..(n - 1), NEW x
               PROVE  x \in w[k + 1] <=> x \notin w[k] /\ \E y \in w[k] : <<y, x>> \in g
    OBVIOUS
  <2>1. w[k + 1] = (UNION {Successors(g, y) : y \in w[k]}) \ w[k]
    BY <1>3
  <2>2. x \in UNION {Successors(g, y) : y \in w[k]} <=> \E y \in w[k] : x \in Successors(g, y)
    OBVIOUS
  <2> QED BY <1>4, <2>1, <2>2
<1>6. \A k \in 0..n : w[k] \subseteq Vertices(n)
  <2> SUFFICES ASSUME NEW k \in 0..n PROVE w[k] \subseteq Vertices(n)
    OBVIOUS
  <2>1. CASE k = 0
    BY <1>2, <2>1
  <2>2. CASE k # 0
    <3>1. k - 1 \in 0..(n - 1) /\ (k - 1) + 1 = k
      BY <2>2
    <3>2. w[k] = (UNION {Successors(g, x) : x \in w[k - 1]}) \ w[k - 1]
      BY <1>3, <3>1
    <3> QED BY <3>2, SuccessorsInGraph
  <2> QED BY <2>1, <2>2
<1> QED BY <1>2, <1>5, <1>6

(* A set of numbers that has all below each of its own begins at 0.        *)
LEMMA DownClosed ==
  ASSUME NEW n \in Nat, NEW S \in SUBSET (0..n), \A k \in 0..(n - 1) : k + 1 \in S => k \in S
  PROVE  Cardinality(S) \in Nat /\ S = 0..(Cardinality(S) - 1)
<1>1. IsFiniteSet(S) /\ Cardinality(S) \in Nat
  <2>1. IsFiniteSet(0..n)
    BY FS_Interval
  <2> QED BY <2>1, FS_Subset, FS_CardinalityType
<1>2. CASE S = {}
  <2>1. Cardinality(S) = 0
    BY <1>2, FS_EmptySet
  <2>2. 0..(0 - 1) = {}
    OBVIOUS
  <2> QED BY <1>2, <2>1, <2>2
<1>3. CASE S # {}
  <2>1. PICK m \in S : \A k \in S : k <= m
    BY <1>1, <1>3, GreatestNat
  <2>2. m \in 0..n
    OBVIOUS
  <2>3. 0..m \subseteq S
    <3> DEFINE gaps == {k \in 0..m : k \notin S}
    <3> SUFFICES ASSUME gaps # {} PROVE FALSE
      OBVIOUS
    <3>1. gaps \in SUBSET Nat /\ IsFiniteSet(gaps)
      <4>1. gaps \subseteq 0..m /\ IsFiniteSet(0..m) /\ 0..m \subseteq Nat
        BY <2>2, FS_Interval
      <4> HIDE DEF gaps
      <4> QED BY <2>2, <4>1, FS_Subset
    <3>2. PICK k \in gaps : \A j \in gaps : j <= k
      <4> HIDE DEF gaps
      <4> QED BY <3>1, GreatestNat
    <3>3. k # m
      BY <2>1, <3>2
    <3>4. k + 1 \in 0..m /\ k \in 0..(n - 1) /\ ~(k + 1 <= k)
      BY <2>2, <3>2, <3>3
    <3>5. k + 1 \in S
      BY <3>2, <3>4
    <3> QED BY <3>2, <3>4, <3>5
  <2>4. S \subseteq 0..m
    BY <2>1, <2>2
  <2>5. S = 0..m
    BY <2>3, <2>4
  <2>6. Cardinality(S) = m + 1
    BY <2>2, <2>5, FS_Interval
  <2> QED BY <1>1, <2>2, <2>5, <2>6
<1> QED BY <1>2, <1>3

(* The layers: from every tree of one all trees of later ones are reached. *)
LaterReached(g, n, L) ==
  \A i, j \in DOMAIN L : i < j => \A t \in L[i] : L[j] \subseteq Closure(g, n)[t]

WellLayered(n, L) ==
  /\ L \in Seq(SUBSET Vertices(n))
  /\ \A k \in DOMAIN L : L[k] # {}
  /\ LayersDisjoint(L)

(* From every tree of a step all of the next are reached.                  *)
NextReached(g, n, w) ==
  \A k \in 0..(n - 1) : \A t \in w[k] : w[k + 1] \subseteq Closure(g, n)[t]

(* Then they are of every later step.                                      *)
LEMMA StepsReached ==
  ASSUME NEW n \in Nat, NEW g \in Graphs(n), NEW top \in SUBSET Vertices(n),
         NEW w, LayerSteps(g, n, top, w), NextReached(g, n, w),
         NEW i \in 0..n, NEW j \in 0..n, i < j, NEW t \in w[i]
  PROVE  w[j] \subseteq Closure(g, n)[t]
<1> DEFINE S == {d \in Nat : i + d + 1 <= n => w[i + d + 1] \subseteq Closure(g, n)[t]}
<1>0. t \in Vertices(n)
  BY LayerIs
<1>1. 0 \in S
  <2>1. i + 0 + 1 = i + 1
    OBVIOUS
  <2>2. ASSUME i + 1 <= n PROVE w[i + 1] \subseteq Closure(g, n)[t]
    BY <2>2 DEF NextReached
  <2> QED BY <2>1, <2>2
<1>2. ASSUME NEW d \in Nat, d \in S PROVE d + 1 \in S
  <2> SUFFICES ASSUME i + (d + 1) + 1 <= n, NEW x \in w[i + (d + 1) + 1]
               PROVE  x \in Closure(g, n)[t]
    OBVIOUS
  <2> DEFINE k == i + d + 1
  <2>1. k + 1 = i + (d + 1) + 1 /\ k \in 0..(n - 1) /\ k <= n
    OBVIOUS
  <2>2. w[k] \subseteq Closure(g, n)[t]
    BY <1>2, <2>1
  <2> HIDE DEF k
  <2>3. x \in w[k + 1]
    BY <2>1
  <2>4. PICK y \in w[k] : <<y, x>> \in g
    <3>1. \A z : z \in w[k + 1] <=> z \notin w[k] /\ \E y \in w[k] : <<y, z>> \in g
      <4>1. \A l \in 0..(n - 1) : \A z :
              z \in w[l + 1] <=> z \notin w[l] /\ \E y \in w[l] : <<y, z>> \in g
        BY LayerIs
      <4> QED BY <2>1, <4>1, Zenon
    <3> QED BY <2>3, <3>1
  <2>5. y \in Closure(g, n)[t]
    BY <2>2
  <2>6. \A a \in g : a[1] = y => a[2] \in Closure(g, n)[t]
    BY <1>0, <2>5, ReachedAgain
  <2>7. <<y, x>>[1] = y /\ <<y, x>>[2] = x
    OBVIOUS
  <2> QED BY <2>4, <2>6, <2>7
<1> HIDE DEF S
<1>3. j - i - 1 \in Nat /\ i + (j - i - 1) + 1 = j
  OBVIOUS
<1>4. j - i - 1 \in S
  BY <1>1, <1>2, <1>3, NatSet
<1> QED BY <1>3, <1>4 DEF S

(* The layers have no gaps, so that this holds of them too.                *)
LEMMA LayersReached ==
  ASSUME NEW n \in Nat, NEW g \in Graphs(n), NEW top \in SUBSET Vertices(n),
         \A w : LayerSteps(g, n, top, w) => NextReached(g, n, w)
  PROVE  LET L == Layers(g, n, top) IN
         /\ L \in Seq(SUBSET Vertices(n))
         /\ \A k \in DOMAIN L : L[k] # {}
         /\ LaterReached(g, n, L)
<1>1. PICK w : /\ LayerSteps(g, n, top, w)
               /\ Layers(g, n, top) = [k \in 1..Cardinality({i \in 0..n : w[i] # {}}) |-> w[k - 1]]
  BY LayersBySteps
<1> DEFINE some == {i \in 0..n : w[i] # {}}
           c == Cardinality(some)
           L == Layers(g, n, top)
<1>2. /\ \A k \in 0..n : w[k] \subseteq Vertices(n)
      /\ \A k \in 0..(n - 1) : w[k + 1] # {} => w[k] # {}
  <2>1. /\ \A k \in 0..n : w[k] \subseteq Vertices(n)
        /\ \A k \in 0..(n - 1) : \A x :
             x \in w[k + 1] <=> x \notin w[k] /\ \E y \in w[k] : <<y, x>> \in g
    BY <1>1, LayerIs
  <2> QED BY <2>1
<1>3. c \in Nat /\ some = 0..(c - 1)
  <2>1. \A k \in 0..(n - 1) : k + 1 \in some => k \in some
    BY <1>2
  <2>2. some \in SUBSET (0..n)
    OBVIOUS
  <2> HIDE DEF some
  <2> QED BY <2>1, <2>2, DownClosed
<1>4. L = [k \in 1..c |-> w[k - 1]]
  BY <1>1
<1>5. ASSUME NEW k \in 1..c PROVE k - 1 \in 0..n /\ w[k - 1] # {} /\ w[k - 1] \subseteq Vertices(n)
  <2>1. k - 1 \in some
    <3> HIDE DEF some
    <3> QED BY <1>3
  <2> QED BY <1>2, <2>1
<1> HIDE DEF c, some, L
<1>6. L \in [1..c -> SUBSET Vertices(n)] /\ DOMAIN L = 1..c
  BY <1>4, <1>5
<1>7. L \in Seq(SUBSET Vertices(n))
  BY <1>3, <1>6, FunctionIsSequence
<1>8. \A k \in DOMAIN L : L[k] # {}
  BY <1>4, <1>5, <1>6
<1>9. LaterReached(g, n, L)
  <2> SUFFICES ASSUME NEW i \in 1..c, NEW j \in 1..c, i < j, NEW t \in L[i]
               PROVE  L[j] \subseteq Closure(g, n)[t]
    BY <1>6 DEF LaterReached
  <2>1. i - 1 \in 0..n /\ j - 1 \in 0..n /\ i - 1 < j - 1 /\ L[i] = w[i - 1] /\ L[j] = w[j - 1]
    BY <1>3, <1>4, <1>5
  <2>2. NextReached(g, n, w) /\ t \in w[i - 1]
    BY <1>1, <2>1
  <2>3. \A p, q \in 0..n : p < q => \A x \in w[p] : w[q] \subseteq Closure(g, n)[x]
    <3> SUFFICES ASSUME NEW p \in 0..n, NEW q \in 0..n, p < q, NEW x \in w[p]
                 PROVE  w[q] \subseteq Closure(g, n)[x]
      OBVIOUS
    <3>1. LayerSteps(g, n, top, w) /\ NextReached(g, n, w)
      BY <1>1, <2>2
    <3> QED BY <3>1, StepsReached
  <2>4. w[j - 1] \subseteq Closure(g, n)[t]
    BY <2>1, <2>2, <2>3
  <2> QED BY <2>1, <2>4
<1> QED BY <1>7, <1>8, <1>9 DEF L

(* A graph whose layers are, after the first, single trees in order.       *)
LEMMA ChainReached ==
  ASSUME NEW n \in Nat, NEW g \in Graphs(n), NEW m \in 1..n,
         \A y, x : <<y, x>> \in g /\ y \in Vertices(m) /\ x \notin Vertices(m)
                     => x = m /\ \A t \in Vertices(m) : m \in Closure(g, n)[t],
         \A y, x : <<y, x>> \in g /\ y >= m => x = y + 1,
         NEW w, LayerSteps(g, n, Vertices(m), w)
  PROVE  NextReached(g, n, w)
<1>0. Vertices(m) \in SUBSET Vertices(n)
  BY DEF Vertices
<1>1. /\ w[0] = Vertices(m)
      /\ \A k \in 0..n : w[k] \subseteq Vertices(n)
      /\ \A k \in 0..(n - 1) : \A x :
           x \in w[k + 1] <=> x \notin w[k] /\ \E y \in w[k] : <<y, x>> \in g
  BY <1>0, LayerIs
<1> DEFINE S == {k \in Nat : k + 1 <= n => w[k + 1] \subseteq {m + k}}
<1>2. 0 \in S
  <2> SUFFICES ASSUME 1 <= n, NEW x \in w[1] PROVE x = m
    OBVIOUS
  <2>0. 0 \in 0..(n - 1) /\ 0 + 1 = 1
    OBVIOUS
  <2>1. x \notin w[0] /\ \E y \in w[0] : <<y, x>> \in g
    BY <1>1, <2>0
  <2> QED BY <1>1, <2>1
<1>3. ASSUME NEW k \in Nat, k \in S PROVE k + 1 \in S
  <2> SUFFICES ASSUME (k + 1) + 1 <= n, NEW x \in w[(k + 1) + 1] PROVE x = m + (k + 1)
    OBVIOUS
  <2>1. k + 1 \in 0..(n - 1) /\ k + 1 <= n
    OBVIOUS
  <2>2. PICK y \in w[k + 1] : <<y, x>> \in g
    BY <1>1, <2>1
  <2>3. y = m + k
    BY <1>3, <2>1
  <2>4. y >= m /\ y + 1 = m + (k + 1)
    BY <2>3
  <2> QED BY <2>2, <2>4
<1> HIDE DEF S
<1>4. \A k \in 0..(n - 1) : w[k + 1] \subseteq {m + k}
  <2>1. Nat \subseteq S
    BY <1>2, <1>3, NatSet
  <2> QED BY <2>1 DEF S
<1>5. ASSUME NEW k \in 0..(n - 1), NEW t \in w[k], NEW x \in w[k + 1]
      PROVE  x \in Closure(g, n)[t]
  <2>1. t \in Vertices(n)
    BY <1>1
  <2>2. x \notin w[k] /\ \E y \in w[k] : <<y, x>> \in g
    BY <1>1
  <2>3. PICK y \in w[k] : <<y, x>> \in g
    BY <2>2
  <2>4. CASE k = 0
    <3>1. y \in Vertices(m) /\ t \in Vertices(m) /\ x \notin Vertices(m)
      BY <1>1, <2>2, <2>4
    <3> QED BY <2>3, <3>1
  <2>5. CASE k # 0
    <3>1. k - 1 \in 0..(n - 1) /\ (k - 1) + 1 = k
      BY <2>5
    <3>2. y = t
      BY <1>4, <3>1
    <3>3. t \in Closure(g, n)[t]
      <4>1. ClosureRight(g, n, Closure(g, n))
        BY ClosureIsRight
      <4> QED BY <2>1, <4>1 DEF ClosureRight
    <3>4. \A a \in g : a[1] = t => a[2] \in Closure(g, n)[t]
      BY <2>1, <3>3, ReachedAgain
    <3>5. <<t, x>>[1] = t /\ <<t, x>>[2] = x
      OBVIOUS
    <3> QED BY <2>3, <3>2, <3>4, <3>5
  <2> QED BY <2>4, <2>5
<1> QED BY <1>5 DEF NextReached

(* Along a line every later tree is reached.                               *)
LEMMA LineReached ==
  ASSUME NEW n \in Nat, NEW x \in Vertices(n), NEW y \in Vertices(n), x <= y
  PROVE  y \in Closure(Line(n), n)[x]
<1> DEFINE R == Closure(Line(n), n)[x]
           S == {d \in Nat : x + d \in Vertices(n) => x + d \in R}
<1>0. Line(n) \in Graphs(n) /\ x \in Int /\ y \in Int /\ 0 <= x
  BY LineInRange DEF Vertices
<1>1. 0 \in S
  <2>1. ClosureRight(Line(n), n, Closure(Line(n), n))
    BY <1>0, ClosureIsRight
  <2>2. x \in R /\ x + 0 = x
    BY <1>0, <2>1 DEF ClosureRight
  <2> HIDE DEF R
  <2> QED BY <2>2
<1>2. ASSUME NEW d \in Nat, d \in S PROVE d + 1 \in S
  <2> SUFFICES ASSUME x + (d + 1) \in Vertices(n) PROVE x + (d + 1) \in R
    OBVIOUS
  <2>1. x + d \in Vertices(n) /\ x + d \in 0..n - 2 /\ x + (d + 1) = (x + d) + 1
    BY <1>0 DEF Vertices
  <2>2. x + d \in R
    BY <1>2, <2>1
  <2>3. <<x + d, (x + d) + 1>> \in Line(n)
    BY <2>1 DEF Line
  <2>4. \A a \in Line(n) : a[1] = x + d => a[2] \in R
    BY <1>0, <2>2, ReachedAgain
  <2>5. <<x + d, (x + d) + 1>>[1] = x + d /\ <<x + d, (x + d) + 1>>[2] = (x + d) + 1
    OBVIOUS
  <2> HIDE DEF R
  <2> QED BY <2>1, <2>3, <2>4, <2>5
<1> HIDE DEF S, R
<1>3. y - x \in Nat /\ x + (y - x) = y
  BY <1>0
<1>4. y - x \in S
  BY <1>1, <1>2, <1>3, NatSet
<1> QED BY <1>3, <1>4 DEF S, R

(* The layers of a line.                                                   *)
LEMMA LineNext ==
  ASSUME NEW n \in Nat \ {0}, NEW num_trees \in Int, num_trees # 0, num_trees <= n,
         NEW w, LayerSteps(Line(n), n, LineFirst(n, num_trees), w)
  PROVE  NextReached(Line(n), n, w)
<1> DEFINE m == IF num_trees < 0 THEN 1 ELSE n - num_trees + 1
<1>1. m \in 1..n /\ LineFirst(n, num_trees) = Vertices(m)
  <2>1. CASE num_trees < 0
    <3>1. 1 - 1 = 0 /\ 0..0 = {0}
      OBVIOUS
    <3> QED BY <2>1, <3>1 DEF LineFirst, Vertices
  <2>2. CASE ~(num_trees < 0)
    <3>1. m = n - num_trees + 1 /\ m - 1 = n - num_trees /\ m \in 1..n
      BY <2>2
    <3> QED BY <2>2, <3>1 DEF LineFirst, Vertices
  <2> QED BY <2>1, <2>2
<1> HIDE DEF m
<1>2. \A y, x : <<y, x>> \in Line(n) => y \in Int /\ x = y + 1 /\ x \in Vertices(n)
  BY DEF Line, Vertices
<1>3. ASSUME NEW y, NEW x, <<y, x>> \in Line(n), y \in Vertices(m), x \notin Vertices(m)
      PROVE  x = m /\ \A t \in Vertices(m) : m \in Closure(Line(n), n)[t]
  <2>1. x = m
    BY <1>1, <1>2, <1>3 DEF Vertices
  <2>2. m \in Vertices(n)
    BY <1>2, <1>3, <2>1
  <2>3. \A t \in Vertices(m) : t \in Vertices(n) /\ t <= m
    BY <1>1 DEF Vertices
  <2> QED BY <2>1, <2>2, <2>3, LineReached
<1>4. Line(n) \in Graphs(n)
  BY LineInRange
<1>5. \A y, x : <<y, x>> \in Line(n) /\ y >= m => x = y + 1
  BY <1>2
<1>6. LayerSteps(Line(n), n, Vertices(m), w)
  BY <1>1
<1> QED BY <1>1, <1>3, <1>4, <1>5, <1>6, ChainReached

(* The one layer of a graph without arcs.                                  *)
LEMMA NoresNext ==
  ASSUME NEW n \in Nat \ {0}, NEW w, LayerSteps({}, n, Vertices(n), w)
  PROVE  NextReached({}, n, w)
<1>1. n \in 1..n /\ {} \in Graphs(n)
  BY DEF Graphs
<1> QED BY <1>1, ChainReached

(* The layers of the random graphs: those that are connected at random,    *)
(* and after them the trees that the resilience rests on.                  *)
LEMMA RandomNext ==
  ASSUME NEW n \in Nat, NEW r \in Int, 0 <= r, r < n, NEW h \in SUBSET Complete(n - r),
         h \cup ResilienceArcs(n, r) \in Graphs(n),
         NEW w, LayerSteps(h \cup ResilienceArcs(n, r), n, Vertices(n - r), w)
  PROVE  NextReached(h \cup ResilienceArcs(n, r), n, w)
<1> DEFINE m == n - r
           g == h \cup ResilienceArcs(n, r)
<1>1. m \in 1..n /\ g \in Graphs(n) /\ n - r = m
  OBVIOUS
<1>2. \A y, x : <<y, x>> \in h => y \in Vertices(m) /\ x \in Vertices(m)
  BY DEF Complete
<1>3. \A y, x : <<y, x>> \in ResilienceArcs(n, r) =>
        r # 0 /\ ((y < m /\ x = m) \/ (y >= m /\ x = y + 1))
  <2> SUFFICES ASSUME NEW y, NEW x, <<y, x>> \in ResilienceArcs(n, r)
               PROVE  r # 0 /\ ((y < m /\ x = m) \/ (y >= m /\ x = y + 1))
    OBVIOUS
  <2>1. r # 0
    BY DEF ResilienceArcs
  <2>2. \/ \E i \in 0..n - r - 1 : <<y, x>> = <<i, n - r>>
        \/ \E i \in n - r..n - 2 : <<y, x>> = <<i, i + 1>>
    BY <2>1 DEF ResilienceArcs
  <2>3. CASE \E i \in 0..n - r - 1 : <<y, x>> = <<i, n - r>>
    <3>1. PICK i \in 0..n - r - 1 : y = i /\ x = n - r
      BY <2>3
    <3>2. i < n - r
      OBVIOUS
    <3>3. y \in Int /\ y < m /\ x = m
      BY <3>1, <3>2
    <3> QED BY <2>1, <3>3
  <2>4. CASE \E i \in n - r..n - 2 : <<y, x>> = <<i, i + 1>>
    <3>1. PICK i \in n - r..n - 2 : y = i /\ x = i + 1
      BY <2>4
    <3>2. y \in Int /\ y >= m /\ x = y + 1
      BY <1>1, <3>1
    <3> QED BY <2>1, <3>2
  <2> QED BY <2>2, <2>3, <2>4
<1>4. r # 0 => \A t \in Vertices(m) : <<t, m>> \in g
  BY <1>1 DEF ResilienceArcs, Vertices
<1> HIDE DEF m
<1>5. ASSUME NEW y, NEW x, <<y, x>> \in g, y \in Vertices(m), x \notin Vertices(m)
      PROVE  x = m /\ \A t \in Vertices(m) : m \in Closure(g, n)[t]
  <2>1. <<y, x>> \in ResilienceArcs(n, r)
    BY <1>2, <1>5
  <2>2. y < m /\ y \in Int
    BY <1>1, <1>5 DEF Vertices
  <2>3. x = m /\ r # 0
    BY <1>1, <1>3, <2>1, <2>2
  <2> HIDE DEF g
  <2>4. ASSUME NEW t \in Vertices(m) PROVE m \in Closure(g, n)[t]
    <3>1. t \in Vertices(n) /\ <<t, m>> \in g
      BY <1>1, <1>4, <2>3 DEF Vertices
    <3>2. ClosureRight(g, n, Closure(g, n))
      BY <1>1, ClosureIsRight
    <3>3. t \in Closure(g, n)[t]
      BY <3>1, <3>2 DEF ClosureRight
    <3>4. \A a \in g : a[1] = t => a[2] \in Closure(g, n)[t]
      BY <1>1, <3>1, <3>3, ReachedAgain
    <3>5. <<t, m>>[1] = t /\ <<t, m>>[2] = m
      OBVIOUS
    <3> QED BY <3>1, <3>4, <3>5
  <2> QED BY <2>3, <2>4
<1>6. ASSUME NEW y, NEW x, <<y, x>> \in g, y >= m PROVE x = y + 1
  <2>1. y \notin Vertices(m)
    BY <1>1, <1>6 DEF Vertices
  <2>2. <<y, x>> \in ResilienceArcs(n, r)
    BY <1>2, <1>6, <2>1
  <2>3. y \in Int
    <3>1. <<y, x>> \in Vertices(n) \X Vertices(n)
      BY <1>1, <1>6 DEF Graphs
    <3> QED BY <3>1 DEF Vertices
  <2> QED BY <1>1, <1>3, <1>6, <2>2, <2>3
<1>7. LayerSteps(g, n, Vertices(m), w)
  BY <1>1
<1>8. NextReached(g, n, w)
  <2> HIDE DEF g
  <2> QED BY <1>1, <1>5, <1>6, <1>7, ChainReached
<1> QED BY <1>8

(* The layers of a layered graph are those it was built from.              *)
LEMMA LayeredSteps ==
  ASSUME NEW type \in Layered, NEW n \in Nat \ {0}, NEW l1width \in Nat \ {0}, NEW self_layer,
         NEW w,
         LayerSteps(LayeredDag(type, n, l1width, self_layer), n, LayeredFirst(type, n, l1width), w),
         NEW m \in 1..n, LayersOf(type, n, l1width) \in [1..m -> SUBSET Vertices(n)]
  PROVE  /\ \A k \in 0..n :
              w[k] = IF k < m THEN LayersOf(type, n, l1width)[k + 1] ELSE {}
         /\ NextReached(LayeredDag(type, n, l1width, self_layer), n, w)
<1> DEFINE L == LayersOf(type, n, l1width)
           g == LayeredDag(type, n, l1width, self_layer)
           top == LayeredFirst(type, n, l1width)
<1>1. /\ L \in [1..m -> SUBSET Vertices(n)]
      /\ \A k \in 1..m : L[k] # {}
      /\ \A i, j \in 1..m : i < j => L[i] \cap L[j] = {}
  <2>1. PICK q \in 1..n : /\ L \in [1..q -> SUBSET Vertices(n)]
                          /\ \A k \in 1..q : L[k] # {}
                          /\ \A i, j \in 1..q : i < j => L[i] \cap L[j] = {}
    BY LayersOfInRange
  <2> HIDE DEF L
  <2>2. DOMAIN L = 1..q /\ DOMAIN L = 1..m
    BY <2>1 DEF L
  <2>3. q \in 1..m /\ m \in 1..q
    BY <2>2
  <2>4. q = m
    BY <2>3
  <2> QED BY <2>1, <2>4
<1>2. g \in Graphs(n) /\ top \in SUBSET Vertices(n) /\ top = L[1]
  BY LayeredInRange DEF LayeredFirst
<1>3. ASSUME NEW y, NEW x
      PROVE  <<y, x>> \in g <=> \/ \E k \in 1..(m - 1) : y \in L[k] /\ x \in L[k + 1]
                                \/ <<y, x>> \in Line(n) /\ self_layer /\ \E k \in 1..m : {y, x} \subseteq L[k]
  <2> DEFINE across == UNION {L[k] \X L[k + 1] : k \in 1..m - 1}
             inside == {a \in Line(n) : self_layer /\ \E k \in 1..m : {a[1], a[2]} \subseteq L[k]}
  <2> HIDE DEF L
  <2>1. Len(L) = m /\ DOMAIN L = 1..m
    BY <1>1, FunctionIsSequence
  <2>2. g = (UNION {L[k] \X L[k + 1] : k \in 1..Len(L) - 1})
              \cup {a \in Line(n) : self_layer /\ \E k \in DOMAIN L : {a[1], a[2]} \subseteq L[k]}
    BY DEF LayeredDag, L
  <2> HIDE DEF g
  <2>3. g = across \cup inside
    BY <2>1, <2>2, Zenon
  <2>4. <<y, x>> \in across <=> \E k \in 1..(m - 1) : y \in L[k] /\ x \in L[k + 1]
    OBVIOUS
  <2>5. <<y, x>> \in inside <=> <<y, x>> \in Line(n) /\ self_layer /\ \E k \in 1..m : {y, x} \subseteq L[k]
    OBVIOUS
  <2> HIDE DEF across, inside
  <2> QED BY <2>3, <2>4, <2>5
<1> HIDE DEF L, g, top
<1>4. LayerSteps(g, n, top, w)
  BY DEF g, top
<1>5. \A i, j \in 1..m : (\E x : x \in L[i] /\ x \in L[j]) => i = j
  <2> SUFFICES ASSUME NEW i \in 1..m, NEW j \in 1..m, NEW x, x \in L[i], x \in L[j], i # j PROVE FALSE
    OBVIOUS
  <2>1. i < j \/ j < i
    OBVIOUS
  <2> QED BY <1>1, <2>1
<1>6. /\ w[0] = L[1]
      /\ \A k \in 0..(n - 1) : \A x :
           x \in w[k + 1] <=> x \notin w[k] /\ \E y \in w[k] : <<y, x>> \in g
  <2>1. n \in Nat /\ g \in Graphs(n) /\ top \in SUBSET Vertices(n)
    BY <1>2
  <2>2. /\ w[0] = top
        /\ \A k \in 0..n : w[k] \subseteq Vertices(n)
        /\ \A k \in 0..(n - 1) : \A x :
             x \in w[k + 1] <=> x \notin w[k] /\ \E y \in w[k] : <<y, x>> \in g
    BY <1>4, <2>1, LayerIs
  <2>3. w[0] = top
    BY <2>2
  <2>4. w[0] = L[1]
    BY <1>2, <2>3
  <2>5. \A k \in 0..(n - 1) : \A x :
             x \in w[k + 1] <=> x \notin w[k] /\ \E y \in w[k] : <<y, x>> \in g
    BY <2>2
  <2> QED BY <2>4, <2>5
<1> DEFINE Is(k) == w[k] = IF k < m THEN L[k + 1] ELSE {}
           S == {k \in Nat : k <= n => Is(k)}
<1>7. 0 \in S
  <2>1. 0 < m /\ 0 + 1 = 1
    <3> HIDE DEF S, Is
    <3> QED OBVIOUS
  <2>2. L[0 + 1] = L[1]
    BY <2>1
  <2>3. Is(0)
    BY <1>6, <2>1, <2>2
  <2> HIDE DEF Is
  <2> QED BY <2>3
<1>8. ASSUME NEW k \in Nat, k \in S PROVE k + 1 \in S
  <2> SUFFICES ASSUME k + 1 <= n PROVE Is(k + 1)
    OBVIOUS
  <2>1. k \in 0..(n - 1) /\ Is(k)
    BY <1>8
  <2>2. \A x : x \in w[k + 1] <=> x \notin w[k] /\ \E y \in w[k] : <<y, x>> \in g
    BY <1>6, <2>1
  <2>3. CASE k + 1 < m
    <3>1. w[k] = L[k + 1] /\ k + 1 \in 1..m /\ (k + 1) + 1 \in 1..m /\ k + 1 \in 1..(m - 1)
      BY <2>1, <2>3
    <3>2. ASSUME NEW x \in w[k + 1] PROVE x \in L[(k + 1) + 1]
      <4>1. x \notin L[k + 1] /\ \E y \in L[k + 1] : <<y, x>> \in g
        BY <2>2, <3>1
      <4>2. PICK y \in L[k + 1] : <<y, x>> \in g
        BY <4>1
      <4>3. CASE \E j \in 1..(m - 1) : y \in L[j] /\ x \in L[j + 1]
        <5>1. PICK j \in 1..(m - 1) : y \in L[j] /\ x \in L[j + 1]
          BY <4>3
        <5>2. j \in 1..m
          OBVIOUS
        <5>3. j = k + 1
          BY <1>5, <3>1, <5>1, <5>2
        <5> QED BY <5>1, <5>3
      <4>4. CASE \E j \in 1..m : {y, x} \subseteq L[j]
        <5>1. PICK j \in 1..m : y \in L[j] /\ x \in L[j]
          BY <4>4
        <5>2. j = k + 1
          BY <1>5, <3>1, <5>1
        <5> QED BY <4>1, <5>1, <5>2
      <4> QED BY <1>3, <4>2, <4>3, <4>4
    <3>3. ASSUME NEW x \in L[(k + 1) + 1] PROVE x \in w[k + 1]
      <4>1. PICK y \in L[k + 1] : TRUE
        BY <1>1, <3>1
      <4>2. <<y, x>> \in g
        BY <1>3, <3>1
      <4>3. x \notin L[k + 1]
        <5>1. (k + 1) + 1 # k + 1
          OBVIOUS
        <5> QED BY <1>5, <3>1, <5>1
      <4> QED BY <2>2, <3>1, <4>2, <4>3
    <3> QED BY <2>3, <3>2, <3>3
  <2>4. CASE ~(k + 1 < m)
    <3>1. ASSUME NEW x \in w[k + 1] PROVE FALSE
      <4>1. x \notin w[k] /\ \E y \in w[k] : <<y, x>> \in g
        BY <2>2
      <4>2. k < m
        BY <2>1, <4>1
      <4>3. k + 1 = m /\ w[k] = L[m] /\ m \in 1..m
        BY <2>1, <2>4, <4>2
      <4>4. PICK y \in L[m] : <<y, x>> \in g
        BY <4>1, <4>3
      <4>5. CASE \E j \in 1..(m - 1) : y \in L[j] /\ x \in L[j + 1]
        <5>1. PICK j \in 1..(m - 1) : y \in L[j]
          BY <4>5
        <5>2. j \in 1..m /\ j # m
          OBVIOUS
        <5> QED BY <1>5, <4>3, <5>1, <5>2
      <4>6. CASE \E j \in 1..m : {y, x} \subseteq L[j]
        <5>1. PICK j \in 1..m : y \in L[j] /\ x \in L[j]
          BY <4>6
        <5>2. j = m
          BY <1>5, <4>3, <5>1
        <5> QED BY <4>1, <4>3, <5>1, <5>2
      <4> QED BY <1>3, <4>4, <4>5, <4>6
    <3> QED BY <2>4, <3>1
  <2> QED BY <2>3, <2>4
<1> HIDE DEF S, Is
<1>9. \A k \in 0..n : Is(k)
  <2>1. Nat \subseteq S
    BY <1>7, <1>8, NatSet
  <2> QED BY <2>1 DEF S
<1>10. ASSUME NEW k \in 0..(n - 1), NEW t \in w[k], NEW x \in w[k + 1]
       PROVE  x \in Closure(g, n)[t]
  <2>1. k \in 0..n /\ k + 1 \in 0..n
    OBVIOUS
  <2>2. k + 1 < m /\ x \in L[(k + 1) + 1]
    BY <1>9, <2>1 DEF Is
  <2>3. k < m /\ t \in L[k + 1]
    BY <1>9, <2>1 DEF Is
  <2>4. k + 1 \in 1..(m - 1) /\ k + 1 \in 1..m
    BY <2>2
  <2>5. <<t, x>> \in g
    BY <1>3, <2>2, <2>3, <2>4
  <2>6. t \in Vertices(n)
    BY <1>1, <2>3, <2>4
  <2>7. ClosureRight(g, n, Closure(g, n))
    BY <1>2, ClosureIsRight
  <2>8. t \in Closure(g, n)[t]
    BY <2>6, <2>7 DEF ClosureRight
  <2>9. \A a \in g : a[1] = t => a[2] \in Closure(g, n)[t]
    BY <1>2, <2>6, <2>8, ReachedAgain
  <2>10. <<t, x>>[1] = t /\ <<t, x>>[2] = x
    OBVIOUS
  <2> QED BY <2>5, <2>9, <2>10
<1>11. NextReached(g, n, w)
  BY <1>10 DEF NextReached
<1>12. \A k \in 0..n : w[k] = IF k < m THEN L[k + 1] ELSE {}
  BY <1>9 DEF Is
<1> QED BY <1>11, <1>12 DEF g, L

-----------------------------------------------------------------------------
(* The layers of the trees that are kept.                                  *)

(* The k-th number grows with k.                                           *)
LEMMA NthRises ==
  ASSUME NEW S \in SUBSET Nat, IsFiniteSet(S),
         NEW i \in 1..Cardinality(S), NEW j \in 1..Cardinality(S), i < j
  PROVE  Nth(S, i) \in S /\ Nth(S, j) \in S /\ Nth(S, i) < Nth(S, j)
<1> DEFINE x == Nth(S, i)
           y == Nth(S, j)
           Below(z) == {k \in S : k <= z}
<1>1. x \in S /\ y \in S /\ Cardinality(Below(x)) = i /\ Cardinality(Below(y)) = j
  BY NthIsOne
<1> HIDE DEF x, y
<1>2. x \in Nat /\ y \in Nat /\ i \in Int /\ j \in Int
  BY <1>1
<1>3. ASSUME ~(x < y) PROVE FALSE
  <2>1. \A k \in S : k <= y => k <= x
    <3> SUFFICES ASSUME NEW k \in S, k <= y PROVE k <= x
      OBVIOUS
    <3>1. k \in Nat
      OBVIOUS
    <3> QED BY <1>2, <1>3, <3>1
  <2>2. Below(y) \subseteq Below(x) /\ Below(x) \subseteq S
    BY <2>1
  <2> HIDE DEF Below
  <2>3. IsFiniteSet(Below(x))
    BY <2>2, FS_Subset
  <2>4. Cardinality(Below(y)) <= Cardinality(Below(x))
    BY <2>2, <2>3, FS_Subset
  <2> QED BY <1>1, <1>2, <2>4
<1>4. x < y
  BY <1>3
<1> QED BY <1>1, <1>4 DEF x, y

(* The trees of a line are reached in order.                               *)
InOrder(g, n) == \A x, y \in Vertices(n) : x < y => y \in Closure(g, n)[x]

(* The trees that are kept stay in layers that follow each other.          *)
LEMMA KeptLayers ==
  ASSUME NEW n \in Nat, NEW g, NEW L, NEW type, WellLayered(n, L), LaterReached(g, n, L),
         type = "line" => InOrder(g, n),
         NEW top \in SUBSET Vertices(n)
  PROVE  WellLayered(n, Kept(L, top, type)) /\ LaterReached(g, n, Kept(L, top, type))
<1> DEFINE some == {k \in DOMAIN L : L[k] \cap top # {}}
           c == Cardinality(some)
           m == Cardinality(top)
           nlayers == [k \in 1..c |-> L[Nth(some, k)] \cap top]
           byIndex == [k \in 1..m |-> {Nth(top, k)}]
<1>1. L \in Seq(SUBSET Vertices(n)) /\ LayersDisjoint(L)
  BY DEF WellLayered
<1>2. DOMAIN L = 1..Len(L) /\ Len(L) \in Nat
  BY <1>1
<1>3. some \in SUBSET Nat /\ IsFiniteSet(some) /\ c \in Nat
  <2>0. some \subseteq DOMAIN L /\ 1 \in Int /\ Len(L) \in Int
    BY <1>2
  <2>1. some \subseteq 1..Len(L) /\ IsFiniteSet(1..Len(L)) /\ 1..Len(L) \subseteq Nat
    <3> HIDE DEF some
    <3>1. IsFiniteSet(1..Len(L))
      BY <2>0, FS_Interval
    <3> QED BY <1>2, <2>0, <3>1
  <2> HIDE DEF some
  <2> QED BY <2>1, FS_Subset, FS_CardinalityType
<1>4. top \in SUBSET Nat /\ IsFiniteSet(top) /\ m \in Nat
  <2>1. top \subseteq 0..(n - 1) /\ IsFiniteSet(0..(n - 1)) /\ 0..(n - 1) \subseteq Nat
    BY FS_Interval DEF Vertices
  <2> QED BY <2>1, FS_Subset, FS_CardinalityType
<1>5. Kept(L, top, type) = IF type = "line" /\ Cardinality(nlayers[1]) > 1 THEN byIndex ELSE nlayers
  BY DEF Kept
<1>6. \A x \in some : x \in DOMAIN L /\ L[x] \cap top # {} /\ L[x] \subseteq Vertices(n)
  BY <1>1
<1> HIDE DEF some
<1>7. WellLayered(n, nlayers) /\ LaterReached(g, n, nlayers)
  <2>1. ASSUME NEW k \in 1..c PROVE Nth(some, k) \in some
    BY <1>3, NthIsOne
  <2>2. \A k \in 1..c : nlayers[k] = L[Nth(some, k)] \cap top
    OBVIOUS
  <2>3. DOMAIN nlayers = 1..c
    OBVIOUS
  <2>4. nlayers \in [1..c -> SUBSET Vertices(n)]
    OBVIOUS
  <2> HIDE DEF nlayers, c
  <2>5. nlayers \in Seq(SUBSET Vertices(n))
    BY <1>3, <2>4, FunctionIsSequence
  <2>6. \A k \in DOMAIN nlayers : nlayers[k] # {}
    BY <1>6, <2>1, <2>2, <2>3
  <2>7. ASSUME NEW i \in 1..c, NEW j \in 1..c, i < j
        PROVE  /\ Nth(some, i) \in DOMAIN L /\ Nth(some, j) \in DOMAIN L /\ Nth(some, i) < Nth(some, j)
               /\ nlayers[i] = L[Nth(some, i)] \cap top /\ nlayers[j] = L[Nth(some, j)] \cap top
    BY <1>3, <1>6, <2>2, <2>7, NthRises DEF c
  <2>8. LayersDisjoint(nlayers)
    <3> SUFFICES ASSUME NEW i \in 1..c, NEW j \in 1..c, i < j PROVE nlayers[i] \cap nlayers[j] = {}
      BY <2>3 DEF LayersDisjoint
    <3>1. L[Nth(some, i)] \cap L[Nth(some, j)] = {}
      BY <1>1, <2>7 DEF LayersDisjoint
    <3> QED BY <2>7, <3>1
  <2>9. LaterReached(g, n, nlayers)
    <3> SUFFICES ASSUME NEW i \in 1..c, NEW j \in 1..c, i < j, NEW t \in nlayers[i]
                 PROVE  nlayers[j] \subseteq Closure(g, n)[t]
      BY <2>3 DEF LaterReached
    <3>1. t \in L[Nth(some, i)]
      BY <2>7
    <3>2. L[Nth(some, j)] \subseteq Closure(g, n)[t]
      BY <2>7, <3>1 DEF LaterReached
    <3> QED BY <2>7, <3>2
  <2> QED BY <2>5, <2>6, <2>8, <2>9 DEF WellLayered
<1>8. ASSUME type = "line" PROVE WellLayered(n, byIndex) /\ LaterReached(g, n, byIndex)
  <2>1. ASSUME NEW k \in 1..m PROVE Nth(top, k) \in top
    BY <1>4, NthIsOne
  <2>2. \A k \in 1..m : byIndex[k] = {Nth(top, k)}
    OBVIOUS
  <2>3. DOMAIN byIndex = 1..m
    OBVIOUS
  <2>4. byIndex \in [1..m -> SUBSET Vertices(n)]
    BY <2>1
  <2> HIDE DEF byIndex, m
  <2>5. byIndex \in Seq(SUBSET Vertices(n))
    BY <1>4, <2>4, FunctionIsSequence
  <2>6. \A k \in DOMAIN byIndex : byIndex[k] # {}
    BY <2>2, <2>3
  <2>7. ASSUME NEW i \in 1..m, NEW j \in 1..m, i < j
        PROVE  /\ Nth(top, i) \in Vertices(n) /\ Nth(top, j) \in Vertices(n) /\ Nth(top, i) < Nth(top, j)
               /\ byIndex[i] = {Nth(top, i)} /\ byIndex[j] = {Nth(top, j)}
    BY <1>4, <2>2, <2>7, NthRises DEF m
  <2>8. LayersDisjoint(byIndex)
    <3> SUFFICES ASSUME NEW i \in 1..m, NEW j \in 1..m, i < j PROVE byIndex[i] \cap byIndex[j] = {}
      BY <2>3 DEF LayersDisjoint
    <3>1. Nth(top, i) # Nth(top, j)
      BY <2>7 DEF Vertices
    <3> QED BY <2>7, <3>1
  <2>9. LaterReached(g, n, byIndex)
    <3> SUFFICES ASSUME NEW i \in 1..m, NEW j \in 1..m, i < j, NEW t \in byIndex[i]
                 PROVE  byIndex[j] \subseteq Closure(g, n)[t]
      BY <2>3 DEF LaterReached
    <3>1. Nth(top, j) \in Closure(g, n)[Nth(top, i)]
      BY <1>8, <2>7 DEF InOrder
    <3> QED BY <2>7, <3>1
  <2> QED BY <2>5, <2>6, <2>8, <2>9 DEF WellLayered
<1> HIDE DEF nlayers, byIndex
<1> QED BY <1>5, <1>7, <1>8

-----------------------------------------------------------------------------
(* The rows of the tables.                                                 *)

(* A row offers the current tree first, then trees of its own and of later *)
(* layers, all of the later ones, and those of each before those of the    *)
(* next.                                                                   *)
RowWell(L, r) ==
  \A i \in DOMAIN L : \A t \in L[i] :
    /\ t \in DOMAIN r[t]
    /\ \A x \in DOMAIN r[t] : x = t \/ (r[t][t] < r[t][x] /\ \E k \in DOMAIN L : i <= k /\ x \in L[k])
    /\ \A k \in DOMAIN L : i < k => L[k] \subseteq DOMAIN r[t]
    /\ \A j, k \in DOMAIN L : i < j /\ j < k => \A y \in L[j], x \in L[k] : r[t][y] < r[t][x]

(* The trees of a switch are all trees of the layers, each once, by layer. *)
LEMMA SortedPlaces ==
  ASSUME NEW n \in Nat, WellLayered(n, layers), NEW u, NEW s \in SortedBy(u)
  PROVE  /\ \A x : (\E k \in DOMAIN layers : x \in layers[k]) <=> \E i \in DOMAIN s : s[i] = x
         /\ IsFiniteSet(DOMAIN s) /\ DOMAIN s \subseteq Nat
         /\ \A a, b \in DOMAIN s : a < b =>
              /\ s[a] # s[b]
              /\ \A j, k \in DOMAIN layers : s[a] \in layers[j] /\ s[b] \in layers[k] => j <= k
<1> DEFINE trees == UNION {layers[k] : k \in DOMAIN layers}
           c == Cardinality(trees)
           layerOf == [t \in trees |-> CHOOSE k \in DOMAIN layers : t \in layers[k]]
           far == [t \in trees |-> fpaths[dst][t][u].len]
<1>1. layers \in Seq(SUBSET Vertices(n)) /\ LayersDisjoint(layers)
  BY DEF WellLayered
<1>2. DOMAIN layers \subseteq Int
  BY <1>1
<1>3. IsFiniteSet(trees) /\ c \in Nat
  <2>1. IsFiniteSet(Vertices(n))
    BY FS_Interval DEF Vertices
  <2>2. trees \subseteq Vertices(n)
    BY <1>1
  <2> QED BY <2>1, <2>2, FS_Subset, FS_CardinalityType
<1>4. /\ s \in [1..c -> trees]
      /\ \A i, j \in DOMAIN s : i < j =>
           /\ s[i] # s[j]
           /\ \/ layerOf[s[i]] < layerOf[s[j]]
              \/ layerOf[s[i]] = layerOf[s[j]] /\ far[s[i]] <= far[s[j]]
  BY DEF SortedBy
<1>5. ASSUME NEW k \in DOMAIN layers, NEW x \in layers[k] PROVE layerOf[x] = k
  <2>1. x \in trees
    OBVIOUS
  <2>2. layerOf[x] \in DOMAIN layers /\ x \in layers[layerOf[x]]
    BY <2>1
  <2> HIDE DEF layerOf
  <2>3. ~(layerOf[x] < k) /\ ~(k < layerOf[x])
    BY <1>1, <2>2 DEF LayersDisjoint
  <2> QED BY <1>2, <2>2, <2>3
<1>6. \A x : (\E k \in DOMAIN layers : x \in layers[k]) <=> x \in trees
  OBVIOUS
<1> HIDE DEF trees, c, layerOf, far
<1>7. DOMAIN s = 1..c /\ IsFiniteSet(1..c) /\ 1..c \subseteq Nat /\ Cardinality(1..c) = c
  BY <1>3, <1>4, FS_Interval
<1>8. s \in Surjection(1..c, trees)
  <2>1. \A i, j \in 1..c : s[i] = s[j] => i = j
    <3> SUFFICES ASSUME NEW i \in 1..c, NEW j \in 1..c, s[i] = s[j], i # j PROVE FALSE
      OBVIOUS
    <3>1. i < j \/ j < i
      OBVIOUS
    <3> QED BY <1>4, <1>7, <3>1
  <2>2. s \in Injection(1..c, trees)
    BY <1>4, <1>7, <2>1 DEF Injection, IsInjective
  <2> QED BY <1>3, <1>7, <2>2, FS_Injection DEF c
<1>9. \A x : x \in trees <=> \E i \in DOMAIN s : s[i] = x
  BY <1>4, <1>7, <1>8 DEF Surjection
<1>10. ASSUME NEW a \in DOMAIN s, NEW b \in DOMAIN s, a < b,
              NEW j \in DOMAIN layers, NEW k \in DOMAIN layers, s[a] \in layers[j], s[b] \in layers[k]
       PROVE  j <= k
  <2>1. layerOf[s[a]] = j /\ layerOf[s[b]] = k /\ j \in Int /\ k \in Int
    BY <1>2, <1>5, <1>10
  <2>2. layerOf[s[a]] < layerOf[s[b]] \/ layerOf[s[a]] = layerOf[s[b]]
    BY <1>4, <1>10
  <2> QED BY <2>1, <2>2
<1> QED BY <1>4, <1>6, <1>7, <1>9, <1>10

(* The rows made of them keep to the layers.                               *)
LEMMA RowsKeepLayers ==
  ASSUME N \in Nat, WellLayered(N, layers), LaterReached(arcs, N, layers),
         NEW u, NEW s \in SortedBy(u)
  PROVE  RowWell(layers, RowsOf(s))
<1> DEFINE trans == Transitions(layers)
           UpTo(x) == {s[i] : i \in {i \in DOMAIN s : \E j \in DOMAIN s : s[j] = x /\ i <= j}}
           r == RowsOf(s)
<1>1. layers \in Seq(SUBSET Vertices(N)) /\ LayersDisjoint(layers)
  BY DEF WellLayered
<1>2. DOMAIN layers \subseteq Int
  BY <1>1
<1>3. \A i, k \in DOMAIN layers : (\E x : x \in layers[i] /\ x \in layers[k]) => i = k
  <2> SUFFICES ASSUME NEW i \in DOMAIN layers, NEW k \in DOMAIN layers, NEW x,
                      x \in layers[i], x \in layers[k], i # k
               PROVE  FALSE
    OBVIOUS
  <2>1. i < k \/ k < i
    BY <1>2
  <2> QED BY <1>1, <2>1 DEF LayersDisjoint
<1>4. /\ \A x : (\E k \in DOMAIN layers : x \in layers[k]) <=> \E i \in DOMAIN s : s[i] = x
      /\ IsFiniteSet(DOMAIN s) /\ DOMAIN s \subseteq Nat
      /\ \A a, b \in DOMAIN s : a < b =>
           /\ s[a] # s[b]
           /\ \A j, k \in DOMAIN layers : s[a] \in layers[j] /\ s[b] \in layers[k] => j <= k
  BY SortedPlaces
<1>5. ASSUME NEW i \in DOMAIN layers, NEW t \in layers[i], NEW x
      PROVE  x \in Successors(trans, t) <=>
               /\ x \in Vertices(N) /\ x # t /\ x \in Closure(arcs, N)[t]
               /\ \E k \in DOMAIN layers : i <= k /\ x \in layers[k]
  <2>1. t \in Vertices(N)
    BY <1>1
  <2>2. trans = {p \in Vertices(N) \X Vertices(N) :
        /\ p[1] # p[2]
        /\ \E h, k \in DOMAIN layers : h <= k /\ p[1] \in layers[h] /\ p[2] \in layers[k]
        /\ p[2] \in Closure(arcs, N)[p[1]]}
    BY DEF Transitions
  <2> HIDE DEF trans
  <2>3. ASSUME x \in Successors(trans, t)
        PROVE  /\ x \in Vertices(N) /\ x # t /\ x \in Closure(arcs, N)[t]
               /\ \E k \in DOMAIN layers : i <= k /\ x \in layers[k]
    <3>1. PICK p \in trans : p[1] = t /\ p[2] = x
      BY <2>3, SuccessorsAre
    <3>2. x \in Vertices(N) /\ x # t /\ x \in Closure(arcs, N)[t]
      BY <2>2, <3>1
    <3>3. PICK h \in DOMAIN layers, k \in DOMAIN layers : h <= k /\ t \in layers[h] /\ x \in layers[k]
      BY <2>2, <3>1
    <3>4. h = i
      BY <1>3, <3>3
    <3> QED BY <3>2, <3>3, <3>4
  <2>4. ASSUME x \in Vertices(N), x # t, x \in Closure(arcs, N)[t],
               \E k \in DOMAIN layers : i <= k /\ x \in layers[k]
        PROVE  x \in Successors(trans, t)
    <3>1. <<t, x>> \in Vertices(N) \X Vertices(N) /\ <<t, x>>[1] = t /\ <<t, x>>[2] = x
      BY <2>1, <2>4
    <3>2. <<t, x>> \in trans
      BY <2>2, <2>4, <3>1
    <3> QED BY <3>1, <3>2, SuccessorsAre
  <2> QED BY <2>3, <2>4
<1>6. r = [t \in Range(s) |->
        [x \in {t} \cup Successors(trans, t) |->
          IF x = t THEN 0 ELSE Cardinality(UpTo(x) \cap Successors(trans, t))]]
  BY DEF RowsOf
<1>7. ASSUME NEW j \in DOMAIN layers, NEW k \in DOMAIN layers, j < k, NEW y \in layers[j], NEW x \in layers[k]
      PROVE  UpTo(y) \subseteq UpTo(x) /\ x \notin UpTo(y)
  <2>1. PICK a \in DOMAIN s : s[a] = y
    BY <1>4
  <2>2. PICK b \in DOMAIN s : s[b] = x
    BY <1>4
  <2>3. a \in Nat /\ b \in Nat /\ j \in Int /\ k \in Int
    BY <1>2, <1>4
  <2>4. ~(k <= j) /\ x # y
    BY <1>3, <1>7, <2>3
  <2>5. a < b
    <3>1. ~(b < a)
      BY <1>4, <2>1, <2>2, <2>4
    <3>2. a # b
      BY <2>1, <2>2, <2>4
    <3> QED BY <2>3, <3>1, <3>2
  <2>6. \A i \in DOMAIN s : (\E h \in DOMAIN s : s[h] = y /\ i <= h) => i <= a
    <3> SUFFICES ASSUME NEW i \in DOMAIN s, NEW h \in DOMAIN s, s[h] = y, i <= h PROVE i <= a
      OBVIOUS
    <3>1. ~(h < a) /\ ~(a < h) /\ h \in Nat /\ i \in Nat
      BY <1>4, <2>1
    <3> QED BY <2>3, <3>1
  <2>7. \A i \in DOMAIN s : i <= a => i <= b
    <3> SUFFICES ASSUME NEW i \in DOMAIN s, i <= a PROVE i <= b
      OBVIOUS
    <3>1. i \in Nat
      BY <1>4
    <3> QED BY <2>3, <2>5, <3>1
  <2>8. UpTo(y) \subseteq UpTo(x)
    BY <2>2, <2>6, <2>7
  <2>9. x \notin UpTo(y)
    <3> SUFFICES ASSUME NEW i \in DOMAIN s, s[i] = x, i <= a PROVE FALSE
      BY <2>6
    <3>1. ~(i < b) /\ ~(b < i) /\ i \in Nat
      BY <1>4, <2>2
    <3> QED BY <2>3, <2>5, <3>1
  <2> QED BY <2>8, <2>9
<1>8. ASSUME NEW k \in DOMAIN layers, NEW x \in layers[k]
      PROVE  x \in UpTo(x)
  <2>1. PICK b \in DOMAIN s : s[b] = x
    BY <1>4
  <2>2. b <= b
    BY <1>4
  <2> QED BY <2>1, <2>2
<1>9. \A x : UpTo(x) \subseteq UNION {layers[k] : k \in DOMAIN layers}
  BY <1>4
<1>10. IsFiniteSet(UNION {layers[k] : k \in DOMAIN layers})
  <2>1. IsFiniteSet(Vertices(N))
    BY FS_Interval DEF Vertices
  <2>2. (UNION {layers[k] : k \in DOMAIN layers}) \subseteq Vertices(N)
    BY <1>1
  <2> QED BY <2>1, <2>2, FS_Subset
<1>11. \A x : \A S : IsFiniteSet(UpTo(x) \cap S) /\ Cardinality(UpTo(x) \cap S) \in Nat
  <2> SUFFICES ASSUME NEW x, NEW S
               PROVE  IsFiniteSet(UpTo(x) \cap S) /\ Cardinality(UpTo(x) \cap S) \in Nat
    OBVIOUS
  <2> DEFINE A == UpTo(x) \cap S
  <2>1. A \subseteq UNION {layers[k] : k \in DOMAIN layers}
    BY <1>9
  <2> HIDE DEF A
  <2>2. IsFiniteSet(A) /\ Cardinality(A) \in Nat
    BY <1>10, <2>1, FS_Subset, FS_CardinalityType
  <2> QED BY <2>2 DEF A
<1> HIDE DEF UpTo, trans
<1> SUFFICES ASSUME NEW i \in DOMAIN layers, NEW t \in layers[i]
             PROVE  /\ t \in DOMAIN r[t]
                    /\ \A x \in DOMAIN r[t] :
                         x = t \/ (r[t][t] < r[t][x] /\ \E k \in DOMAIN layers : i <= k /\ x \in layers[k])
                    /\ \A k \in DOMAIN layers : i < k => layers[k] \subseteq DOMAIN r[t]
                    /\ \A j, k \in DOMAIN layers : i < j /\ j < k =>
                         \A y \in layers[j], x \in layers[k] : r[t][y] < r[t][x]
  BY DEF RowWell
<1> DEFINE succs == Successors(trans, t)
<1>12. t \in Range(s)
  BY <1>4 DEF Range
<1> HIDE DEF r
<1>13. r[t] = [x \in {t} \cup succs |-> IF x = t THEN 0 ELSE Cardinality(UpTo(x) \cap succs)]
  BY <1>6, <1>12
<1>14. DOMAIN r[t] = {t} \cup succs /\ r[t][t] = 0
  BY <1>13
<1>15. \A x \in succs : x # t /\ r[t][x] = Cardinality(UpTo(x) \cap succs)
  BY <1>5, <1>13
<1>16. ASSUME NEW x \in succs
       PROVE  0 < r[t][x] /\ \E k \in DOMAIN layers : i <= k /\ x \in layers[k]
  <2>1. \E k \in DOMAIN layers : i <= k /\ x \in layers[k]
    BY <1>5, <1>16
  <2>2. x \in UpTo(x) \cap succs
    BY <1>8, <2>1
  <2>3. Cardinality(UpTo(x) \cap succs) # 0
    BY <1>11, <2>2, FS_EmptySet
  <2>4. Cardinality(UpTo(x) \cap succs) \in Nat
    BY <1>11
  <2> QED BY <1>15, <2>1, <2>3, <2>4
<1>17. ASSUME NEW k \in DOMAIN layers, i < k, NEW x \in layers[k]
       PROVE  x \in succs
  <2>1. x # t /\ i <= k
    BY <1>2, <1>3, <1>17
  <2>2. x \in Closure(arcs, N)[t] /\ x \in Vertices(N)
    BY <1>1, <1>17 DEF LaterReached
  <2> QED BY <1>5, <2>1, <2>2
<1>18. ASSUME NEW j \in DOMAIN layers, NEW k \in DOMAIN layers, i < j, j < k,
              NEW y \in layers[j], NEW x \in layers[k]
       PROVE  r[t][y] < r[t][x]
  <2>1. i < k
    BY <1>2, <1>18
  <2>2. x \in succs /\ y \in succs
    BY <1>17, <1>18, <2>1
  <2> DEFINE A == UpTo(y) \cap succs
             B == UpTo(x) \cap succs
  <2>3. A \subseteq B /\ x \in B /\ x \notin A
    BY <1>7, <1>8, <1>18, <2>2
  <2>4. IsFiniteSet(B) /\ Cardinality(A) \in Nat /\ Cardinality(B) \in Nat
    BY <1>11
  <2>5. r[t][y] = Cardinality(A) /\ r[t][x] = Cardinality(B)
    BY <1>15, <2>2
  <2> HIDE DEF A, B
  <2>6. Cardinality(A) <= Cardinality(B) /\ Cardinality(A) # Cardinality(B)
    BY <2>3, <2>4, FS_Subset
  <2> QED BY <2>4, <2>5, <2>6
<1> QED BY <1>14, <1>16, <1>17, <1>18

-----------------------------------------------------------------------------
(* The inductive invariant.                                                *)

Chosen == forest \in Forests /\ args \in Args

NextEdges ==
  \A d \in V, t \in Vertices(N) : \A u \in V \ {d} : fpaths[d][t][u].edge \in Tree(t) \cap EdgesAt(u)

GraphInRange == arcs \in Graphs(N) /\ first \in SUBSET Vertices(N)

Building == {"check", "search", "succ", "label"}

RandomGraphs ==
  /\ status \in Building => args.type \in {"rand", "maxdag"}
  /\ status \in Building \cup {"ttg"} => deps = {}

(* Every dependency is one along a tree, or one to a tree that the graph   *)
(* leads to.                                                               *)
DepOf(p) ==
  \E t, x \in Vertices(N), u \in V :
    \E a \in Tree(t) \cap EdgesAt(u), b \in Tree(x) \cap EdgesAt(u) :
      /\ p = << <<a, u>>, <<b, Other(u, b)>> >>
      /\ \/ x = t /\ a # b
         \/ x \in Closure(arcs, N)[t] /\ x # t

DepsFollowGraph == \A p \in deps : DepOf(p)

Pending == todo \in SUBSET V

GraphRanked == status = "tables" \/ deps # {} => Ranked(arcs, N)

IInv ==
  /\ Chosen /\ NextEdges /\ GraphInRange /\ RandomGraphs /\ Pending
  /\ DepsFollowGraph /\ GraphRanked

(* What is known of a forest and the arguments.                            *)
LEMMA ForestFacts ==
  ASSUME Chosen
  PROVE  /\ N \in Nat \ {0}
         /\ \A t \in Vertices(N) : SpanningTree(Tree(t)) /\ Tree(t) \subseteq E
         /\ \A t, x \in Vertices(N) : t # x => Tree(t) \cap Tree(x) = {}
         /\ args.num_trees \in Int /\ args.num_trees # 0 /\ args.num_trees <= N
         /\ args.rand_res \in Int /\ args.l1width \in Int
         /\ args.type \in {"rand", "maxdag"} => 0 <= args.rand_res /\ args.rand_res < N
         /\ args.type \in Layered => args.l1width \in Nat \ {0}
         /\ args.type \in {"line", "nores", "rand", "maxdag"} \cup Layered
<1>1. forest \in Seq(SUBSET E) /\ forest # << >>
  BY DfrArguments DEF Chosen
<1>2. N \in Nat \ {0}
  BY <1>1 DEF N
<1>3. DOMAIN forest = 1..N
  BY <1>1 DEF N
<1>4. \A t \in Vertices(N) : t + 1 \in DOMAIN forest
  BY <1>2, <1>3 DEF Vertices
<1>5. \A i, j \in DOMAIN forest : SpanningTree(forest[i]) /\ (i # j => forest[i] \cap forest[j] = {})
  BY DfrArguments DEF Chosen
<1>6. \A t \in Vertices(N) : SpanningTree(Tree(t)) /\ Tree(t) \subseteq E
  BY <1>4, <1>5 DEF Tree, SpanningTree
<1>7. ASSUME NEW t \in Vertices(N), NEW x \in Vertices(N), t # x
      PROVE  Tree(t) \cap Tree(x) = {}
  <2>1. t + 1 # x + 1 /\ t + 1 \in DOMAIN forest /\ x + 1 \in DOMAIN forest
    BY <1>2, <1>4, <1>7 DEF Vertices
  <2> QED BY <1>5, <2>1 DEF Tree
<1>8. /\ {args.num_trees, args.rand_res, args.l1width} \subseteq Int
      /\ args.type \in {"line", "nores", "mlayer", "alayer", "t", "rand", "maxdag"}
      /\ args.num_trees # 0 /\ args.num_trees <= N
      /\ args.type \in {"mlayer", "alayer", "t"} => args.l1width > 0
      /\ args.type \in {"rand", "maxdag"} => 0 <= args.rand_res /\ args.rand_res < N
  BY DfrArguments DEF Chosen, N
<1>9. args.type \in Layered => args.l1width \in Nat \ {0}
  BY <1>8 DEF Layered
<1> QED BY <1>2, <1>6, <1>7, <1>8, <1>9 DEF Layered

(* Initially the paths lie in their trees, and nothing waits.              *)
LEMMA InitInvariant ==
  ASSUME Init
  PROVE  IInv
<1>1. Chosen
  BY DEF Init, Chosen
<1>2. NextEdges
  <2> SUFFICES ASSUME NEW d \in V, NEW t \in Vertices(N), NEW u \in V \ {d}
               PROVE  fpaths[d][t][u].edge \in Tree(t) \cap EdgesAt(u)
    BY DEF NextEdges
  <2>1. fpaths[d][t] = PathsTo(Tree(t), d)
    BY DEF Init
  <2>2. Tree(t) \subseteq E /\ Connects(Tree(t), V)
    BY <1>1, ForestFacts DEF SpanningTree
  <2> QED BY <2>1, <2>2, NextEdgeInTree
<1>3. GraphInRange
  BY DEF Init, GraphInRange, Graphs
<1>4. RandomGraphs /\ DepsFollowGraph /\ GraphRanked /\ Pending
  BY DEF Init, Pending, RandomGraphs, DepsFollowGraph, GraphRanked, Building
<1> QED BY <1>1, <1>2, <1>3, <1>4 DEF IInv

(* Steps after which the forest and its paths are what they were.          *)
SameForest == UNCHANGED <<forest, args, fpaths>>

(* ... keep what is known of them.                                         *)
LEMMA ForestKept ==
  ASSUME IInv, SameForest, todo' \subseteq todo
  PROVE  /\ Chosen' /\ NextEdges' /\ Pending' /\ N' = N /\ N \in Nat \ {0}
BY ForestFacts DEF IInv, Pending, SameForest, Chosen, NextEdges, N, Tree

(* A graph that is taken for the tables is acyclic.                        *)
LEMMA BuildTtgInvariant ==
  ASSUME IInv, BuildTtg
  PROVE  IInv'
<1>1. Chosen' /\ NextEdges' /\ Pending' /\ N' = N /\ N \in Nat \ {0}
  BY ForestKept DEF BuildTtg, SameForest, Unsearched
<1>2. Chosen /\ deps = {} /\ deps' = {} /\ args' = args
  BY DEF IInv, BuildTtg, RandomGraphs, Unsearched
<1>3. arcs' \in Graphs(N) /\ first' \in SUBSET Vertices(N)
  <2>1. CASE args.type = "line"
    <3>1. arcs' = Line(N) /\ first' = LineFirst(N, args.num_trees)
      BY <2>1 DEF BuildTtg
    <3>2. LineFirst(N, args.num_trees) \in SUBSET Vertices(N)
      BY <1>2, ForestFacts DEF LineFirst, Vertices
    <3> QED BY <1>1, <3>1, <3>2, LineInRange
  <2>2. CASE args.type = "nores"
    <3>1. arcs' = {} /\ first' = Vertices(N)
      BY <2>2 DEF BuildTtg
    <3> QED BY <3>1 DEF Graphs
  <2>3. CASE args.type \in Layered
    <3>1. /\ arcs' = LayeredDag(args.type, N, args.l1width, args.self_layer)
          /\ first' = LayeredFirst(args.type, N, args.l1width)
      BY <2>3 DEF BuildTtg, Layered
    <3>2. args.l1width \in Nat \ {0}
      BY <1>2, <2>3, ForestFacts
    <3> QED BY <1>1, <2>3, <3>1, <3>2, LayeredInRange
  <2>4. args.type \notin {"rand", "maxdag"}
    BY DEF BuildTtg
  <2> QED BY <1>2, <2>1, <2>2, <2>3, <2>4, ForestFacts
<1>4. status' \in {"tables", "assert"} /\ (status' = "tables" => IsDag(arcs', N))
  BY DEF BuildTtg
<1>5. status' = "tables" => Ranked(arcs', N)
  BY <1>1, <1>3, <1>4, DagIsRanked
<1>6. GraphInRange' /\ GraphRanked'
  BY <1>1, <1>2, <1>3, <1>5 DEF GraphInRange, GraphRanked
<1>7. RandomGraphs' /\ DepsFollowGraph'
  BY <1>2, <1>4 DEF RandomGraphs, DepsFollowGraph, Building
<1> QED BY <1>1, <1>6, <1>7 DEF IInv

(* The random graphs begin with the trees that are not left out.           *)
LEMMA CompleteInRange ==
  ASSUME NEW n \in Nat, NEW r \in Int, 0 <= r
  PROVE  Complete(n - r) \in Graphs(n)
BY DEF Complete, Graphs, Vertices

(* A step of the random graphs: no table is there, and the graph holds no  *)
(* trees but those that there are.                                         *)
LEMMA RandomStep ==
  ASSUME IInv, SameForest, todo' = todo, deps = {}, deps' = {}, first' = first,
         arcs' \in Graphs(N), status' \in Building, args.type \in {"rand", "maxdag"}
  PROVE  IInv'
<1>1. Chosen' /\ NextEdges' /\ Pending' /\ N' = N
  BY ForestKept
<1>2. GraphInRange'
  BY <1>1 DEF GraphInRange, IInv
<1>3. RandomGraphs' /\ DepsFollowGraph' /\ GraphRanked'
  BY DEF RandomGraphs, DepsFollowGraph, GraphRanked, Building, SameForest
<1> QED BY <1>1, <1>2, <1>3 DEF IInv

(* The random graphs begin in range.                                       *)
LEMMA StartInvariant ==
  ASSUME IInv, MaxDag \/ RandDag
  PROVE  IInv'
<1>1. SameForest /\ todo' = todo /\ deps = {} /\ deps' = {} /\ first' = first /\ status' \in Building
  BY DEF MaxDag, RandDag, SameForest, IInv, RandomGraphs, Unsearched, Building
<1>2. args.type \in {"rand", "maxdag"} /\ Chosen
  BY DEF MaxDag, RandDag, IInv
<1>3. arcs' \subseteq Complete(NumL1)
  BY DEF MaxDag, RandDag, Orders
<1>4. Complete(NumL1) \in Graphs(N)
  BY <1>2, ForestFacts, CompleteInRange DEF NumL1
<1>5. arcs' \in Graphs(N)
  BY <1>3, <1>4 DEF Graphs
<1> QED BY <1>1, <1>2, <1>5, RandomStep

(* Breaking cycles only removes arcs.                                      *)
LEMMA BreakCyclesInvariant ==
  ASSUME IInv, BreakCycles
  PROVE  IInv'
<1>1. status \in Building
  BY DEF BreakCycles, NewSearch, Acyclic, Pop, PopRoot, Searched, Successor, SuccessorsDone, Building
<1>2. deps = {} /\ args.type \in {"rand", "maxdag"}
  BY <1>1 DEF IInv, RandomGraphs
<1>3. Searching
  BY DEF BreakCycles, NewSearch, Acyclic, Pop, PopRoot, Searched, Successor, SuccessorsDone
<1>4. SameForest /\ todo' = todo /\ deps' = {} /\ first' = first
  BY <1>2, <1>3 DEF Searching, SameForest
<1>5. status' \in Building
  <2>1. ASSUME NEW p, Visit(p), status \in Building PROVE status' \in Building
    BY <2>1 DEF Visit, Building
  <2>2. CASE Pop \/ PopRoot
    BY <1>1, <2>1, <2>2 DEF Pop, PopRoot
  <2>3. CASE ~(Pop \/ PopRoot)
    BY <1>1, <2>3 DEF BreakCycles, NewSearch, Acyclic, Searched, Successor, SuccessorsDone, Building
  <2> QED BY <2>2, <2>3
<1>6. arcs' \subseteq arcs
  BY DEF BreakCycles, NewSearch, Acyclic, Pop, PopRoot, Searched, Successor, SuccessorsDone, BreakCycle
<1>7. arcs' \in Graphs(N)
  BY <1>6 DEF IInv, GraphInRange, Graphs
<1> QED BY <1>2, <1>4, <1>5, <1>7, RandomStep

(* A random graph is acyclic when it is taken for the tables, and stays so.*)
LEMMA LabelInvariant ==
  ASSUME IInv, Label
  PROVE  IInv'
<1>1. Chosen' /\ NextEdges' /\ Pending' /\ N' = N /\ N \in Nat \ {0}
  BY ForestKept DEF Label, SameForest, Unsearched
<1>2. /\ Chosen /\ deps = {} /\ deps' = {} /\ args.type \in {"rand", "maxdag"}
      /\ arcs \in Graphs(N)
  BY DEF IInv, Label, RandomGraphs, Unsearched, Building, GraphInRange
<1>3. args.rand_res \in Int /\ 0 <= args.rand_res /\ args.rand_res < N
  BY <1>2, ForestFacts
<1>4. arcs' = arcs \cup ResilienceArcs(N, args.rand_res) /\ first' = Vertices(N - args.rand_res)
  BY DEF Label, NumL1
<1>5. first' \in SUBSET Vertices(N)
  BY <1>1, <1>3, <1>4 DEF Vertices
<1>6. ResilienceArcs(N, args.rand_res) \subseteq Vertices(N) \X Vertices(N)
  <2>1. \A i \in 0..N - args.rand_res - 1 : i \in Vertices(N) /\ (args.rand_res # 0 => N - args.rand_res \in Vertices(N))
    BY <1>1, <1>3 DEF Vertices
  <2>2. \A i \in N - args.rand_res..N - 2 : i \in Vertices(N) /\ i + 1 \in Vertices(N)
    BY <1>1, <1>3 DEF Vertices
  <2> QED BY <2>1, <2>2 DEF ResilienceArcs
<1>7. arcs' \in Graphs(N)
  BY <1>2, <1>4, <1>6 DEF Graphs
<1>8. status' \in {"tables", "assert"}
  BY DEF Label
<1>9. ASSUME status' = "tables" PROVE Ranked(arcs', N)
  <2>1. IsDag(arcs, N) /\ arcs \subseteq Complete(N - args.rand_res)
    BY <1>9 DEF Label, NumL1
  <2>2. Ranked(arcs, N)
    BY <1>1, <1>2, <2>1, DagIsRanked
  <2> QED BY <1>1, <1>3, <1>4, <2>1, <2>2, ResilienceKeepsRank
<1>10. GraphInRange' /\ GraphRanked'
  BY <1>1, <1>2, <1>5, <1>7, <1>9 DEF GraphInRange, GraphRanked
<1>11. RandomGraphs' /\ DepsFollowGraph'
  BY <1>2, <1>8 DEF RandomGraphs, DepsFollowGraph, Building
<1> QED BY <1>1, <1>10, <1>11 DEF IInv

(* What waits by the tables of one destination.                            *)
LEMMA DependenciesFollowGraph ==
  ASSUME IInv, NEW d \in V, NEW L, \A k \in DOMAIN L : L[k] \subseteq Vertices(N),
         NEW p \in Dependencies(d, L)
  PROVE  DepOf(p)
<1> DEFINE trans == Transitions(L)
           Outs(t, u) == {fpaths[d][x][u].edge : x \in {t} \cup Successors(trans, t)}
<1>1. Dependencies(d, L)
        = UNION {{<<in_e, u>> : in_e \in (Tree(t) \cap EdgesAt(u)) \ {fpaths[d][t][u].edge}}
                    \X {<<e, Other(u, e)>> : e \in Outs(t, u)} :
                  t \in UNION {L[k] : k \in DOMAIN L}, u \in V \ {d}}
  BY DEF Dependencies
<1>2. PICK t \in UNION {L[k] : k \in DOMAIN L}, u \in V \ {d} :
         p \in {<<in_e, u>> : in_e \in (Tree(t) \cap EdgesAt(u)) \ {fpaths[d][t][u].edge}}
                 \X {<<e, Other(u, e)>> : e \in Outs(t, u)}
  <2> HIDE DEF Outs
  <2> QED BY <1>1
<1>3. t \in Vertices(N)
  OBVIOUS
<1>4. PICK a \in (Tree(t) \cap EdgesAt(u)) \ {fpaths[d][t][u].edge}, b \in Outs(t, u) :
         p = << <<a, u>>, <<b, Other(u, b)>> >>
  <2> HIDE DEF Outs
  <2> QED BY <1>2
<1>5. PICK x \in {t} \cup Successors(trans, t) : b = fpaths[d][x][u].edge
  BY <1>4
<1>6. x = t \/ (x \in Vertices(N) /\ x # t /\ x \in Closure(arcs, N)[t])
  <2> SUFFICES ASSUME x # t PROVE x \in Vertices(N) /\ x \in Closure(arcs, N)[t]
    OBVIOUS
  <2>1. x \in Successors(trans, t)
    BY <1>5
  <2> HIDE DEF trans
  <2>2. PICK q \in trans : q[1] = t /\ q[2] = x
    BY <2>1, SuccessorsAre
  <2>3. q \in Vertices(N) \X Vertices(N) /\ q[2] \in Closure(arcs, N)[q[1]]
    BY DEF trans, Transitions
  <2> QED BY <2>2, <2>3
<1>7. x \in Vertices(N) /\ b \in Tree(x) \cap EdgesAt(u)
  BY <1>2, <1>3, <1>5, <1>6 DEF IInv, NextEdges
<1>8. x = t => a # b
  BY <1>4, <1>5
<1> QED BY <1>3, <1>4, <1>6, <1>7, <1>8 DEF DepOf

(* The tables of a destination add dependencies along the graph only.      *)
LEMMA FwdtableInvariant ==
  ASSUME IInv, NEW d \in todo, FwdtableDfr(d)
  PROVE  IInv'
<1>1. Chosen' /\ NextEdges' /\ Pending' /\ N' = N /\ N \in Nat \ {0}
  BY ForestKept DEF FwdtableDfr, SameForest
<1>2. arcs' = arcs /\ first' = first /\ status = "tables" /\ status' \in {"tables", "assert"} /\ forest' = forest
  BY DEF FwdtableDfr
<1>3. arcs \in Graphs(N) /\ first \in SUBSET Vertices(N) /\ Ranked(arcs, N) /\ Chosen
  BY <1>2 DEF IInv, GraphInRange, GraphRanked
<1>4. GraphInRange' /\ GraphRanked' /\ RandomGraphs'
  BY <1>1, <1>2, <1>3 DEF GraphInRange, GraphRanked, RandomGraphs, Building
<1>7. d \in V
  BY DEF IInv, Pending
<1>5. \A p \in deps' : DepOf(p)
  <2> DEFINE L == Layers(arcs, N, first)
             dist == Distances(d)
  <2>1. CASE deps' = deps
    BY <2>1 DEF IInv, DepsFollowGraph
  <2>2. ASSUME deps' # deps
        PROVE  \E kept \in IF args.num_trees < 0 THEN {L}
                           ELSE {Kept(L, top, args.type) :
                                   top \in TopTrees(L, N, dist, args.num_trees, MaxL1)} :
                 deps' = deps \cup Dependencies(d, kept)
    BY <2>2 DEF FwdtableDfr
  <2>3. \A k \in DOMAIN L : L[k] \subseteq Vertices(N)
    BY <1>1, <1>3, LayersInRange
  <2> HIDE DEF L, dist
  <2>4. ASSUME NEW kept, \A k \in DOMAIN kept : kept[k] \subseteq Vertices(N),
               deps' = deps \cup Dependencies(d, kept)
        PROVE  \A p \in deps' : DepOf(p)
    <3>1. \A p \in deps : DepOf(p)
      BY DEF IInv, DepsFollowGraph
    <3>2. \A p \in Dependencies(d, kept) : DepOf(p)
      BY <1>7, <2>4, DependenciesFollowGraph
    <3> QED BY <2>4, <3>1, <3>2
  <2>5. CASE deps' # deps /\ args.num_trees < 0
    BY <2>2, <2>3, <2>4, <2>5
  <2>6. CASE deps' # deps /\ ~(args.num_trees < 0)
    <3>1. PICK top \in TopTrees(L, N, dist, args.num_trees, MaxL1) :
            deps' = deps \cup Dependencies(d, Kept(L, top, args.type))
      BY <2>2, <2>6
    <3>2. args.num_trees \in Nat \ {0} /\ args.num_trees <= N
      BY <1>3, <2>6, ForestFacts
    <3>3. top \subseteq Vertices(N)
      BY <1>1, <3>2, TopTreesInRange
    <3>4. IsFiniteSet(top) /\ top \subseteq Nat
      <4>1. N - 1 \in Int /\ IsFiniteSet(0..(N - 1)) /\ 0..(N - 1) \subseteq Nat
        BY <1>1, FS_Interval
      <4> QED BY <3>3, <4>1, FS_Subset DEF Vertices
    <3>5. \A k \in DOMAIN Kept(L, top, args.type) : Kept(L, top, args.type)[k] \subseteq Vertices(N)
      BY <3>3, <3>4, KeptInTop
    <3> QED BY <2>4, <3>1, <3>5
  <2> QED BY <2>1, <2>5, <2>6
<1>6. DepsFollowGraph'
  BY <1>1, <1>2, <1>5 DEF DepsFollowGraph, DepOf, Tree
<1> QED BY <1>1, <1>4, <1>6 DEF IInv

(* Once a packet is sent the tables are complete and nothing reads the graph.*)
LEMMA SendInvariant ==
  ASSUME IInv, NEW u \in V, Send(u)
  PROVE  IInv'
<1>1. Chosen' /\ NextEdges' /\ Pending' /\ N' = N
  BY ForestKept DEF Send, SameForest
<1>2. deps' = {} /\ arcs' = {} /\ first' = {} /\ status' = "walking"
  BY DEF Send
<1> QED BY <1>1, <1>2 DEF IInv, GraphInRange, Graphs, RandomGraphs, DepsFollowGraph, GraphRanked, Building

(* The hops of a packet change neither graph nor tables.                   *)
LEMMA HopInvariant ==
  ASSUME IInv, Hop \/ UNCHANGED vars
  PROVE  IInv'
<1>1. /\ SameForest /\ todo' = todo /\ forest' = forest /\ arcs' = arcs /\ first' = first /\ deps' = deps
      /\ status' = status \/ status' \in {"dropped", "delivered"}
  BY DEF Hop, Forward, Drop, Arrive, Walk, SameForest, vars
<1>2. Chosen' /\ NextEdges' /\ Pending' /\ N' = N
  BY <1>1, ForestKept
<1>3. GraphInRange' /\ GraphRanked'
  BY <1>1, <1>2 DEF IInv, GraphInRange, GraphRanked
<1>4. RandomGraphs'
  BY <1>1 DEF IInv, RandomGraphs, Building, SameForest
<1>5. DepsFollowGraph'
  BY <1>1, <1>2 DEF IInv, DepsFollowGraph, DepOf, Tree
<1> QED BY <1>2, <1>3, <1>4, <1>5 DEF IInv

-----------------------------------------------------------------------------
(* No edge waits for itself.                                               *)

(* Every set of edges in use has one that waits for none of them: of those *)
(* in the last trees of the graph, the one with the least on its far side. *)
LEMMA SomeEdgeIsFree ==
  ASSUME IInv, NEW S, S # {}, \A c \in S : \E p \in deps : p[1] = c /\ p[2] \in S
  PROVE  FALSE
<1>1. PICK rank \in [Vertices(N) -> Nat] : RankedBy(arcs, N, rank)
  <2>1. deps # {}
    OBVIOUS
  <2> QED BY <2>1 DEF IInv, GraphRanked, Ranked
<1>2. Chosen /\ arcs \in Graphs(N) /\ \A p \in deps : DepOf(p)
  BY DEF IInv, GraphInRange, DepsFollowGraph
<1>3. /\ N \in Nat
      /\ \A t \in Vertices(N) : SpanningTree(Tree(t)) /\ Tree(t) \subseteq E
      /\ \A t, x \in Vertices(N) : t # x => Tree(t) \cap Tree(x) = {}
  BY <1>2, ForestFacts
<1> DEFINE Waits(c, d, t, x) ==
             /\ t \in Vertices(N) /\ x \in Vertices(N) /\ c \in S /\ d \in S
             /\ c[1] \in Tree(t) /\ d[1] \in Tree(x)
             /\ \/ x = t /\ Cardinality(Side(Tree(t), d[1], d[2])) < Cardinality(Side(Tree(t), c[1], c[2]))
                \/ rank[x] < rank[t]
<1>4. ASSUME NEW c \in S PROVE \E d \in S, t, x \in Vertices(N) : Waits(c, d, t, x)
  <2>1. PICK p \in deps : p[1] = c /\ p[2] \in S
    OBVIOUS
  <2>2. DepOf(p)
    BY <1>2
  <2>3. PICK t \in Vertices(N), x \in Vertices(N), u \in V :
          \E a \in Tree(t) \cap EdgesAt(u), b \in Tree(x) \cap EdgesAt(u) :
            /\ p = << <<a, u>>, <<b, Other(u, b)>> >>
            /\ \/ x = t /\ a # b
               \/ x \in Closure(arcs, N)[t] /\ x # t
    BY <2>2 DEF DepOf
  <2>4. PICK a \in Tree(t) \cap EdgesAt(u), b \in Tree(x) \cap EdgesAt(u) :
            /\ p = << <<a, u>>, <<b, Other(u, b)>> >>
            /\ \/ x = t /\ a # b
               \/ x \in Closure(arcs, N)[t] /\ x # t
    BY <2>3
  <2> DEFINE d == p[2]
  <2>5. c = <<a, u>> /\ d = <<b, Other(u, b)>> /\ d \in S
    BY <2>1, <2>4
  <2>6. c[1] = a /\ c[2] = u /\ d[1] = b /\ d[2] = Other(u, b)
    BY <2>5
  <2> HIDE DEF d
  <2>7. CASE x = t /\ a # b
    <3>1. u \in Ends[a] \cap Ends[b] /\ a \in Tree(t) /\ b \in Tree(t)
      BY <2>4, <2>7 DEF EdgesAt
    <3>2. Cardinality(Side(Tree(t), b, Other(u, b))) < Cardinality(Side(Tree(t), a, u))
      BY <1>3, <2>7, <3>1, SideShrinks
    <3>3. Waits(c, d, t, x)
      BY <2>4, <2>5, <2>6, <2>7, <3>2
    <3> HIDE DEF Waits
    <3> QED BY <2>5, <3>3
  <2>8. CASE x \in Closure(arcs, N)[t] /\ x # t
    <3>1. rank[x] < rank[t]
      BY <1>3, <1>2, <1>1, <2>8, ReachedIsLower
    <3>2. Waits(c, d, t, x)
      BY <2>4, <2>5, <2>6, <3>1
    <3> HIDE DEF Waits
    <3> QED BY <2>5, <3>2
  <2> QED BY <2>4, <2>7, <2>8
<1>5. \E t \in Vertices(N) : \E c \in S : c[1] \in Tree(t)
  BY <1>4
<1> DEFINE ranks == {rank[t] : t \in {t \in Vertices(N) : \E c \in S : c[1] \in Tree(t)}}
<1>6. ranks \in SUBSET Nat /\ ranks # {}
  BY <1>5
<1>7. PICK low \in ranks : \A k \in ranks : low <= k
  <2> HIDE DEF ranks
  <2> QED BY <1>6, LeastNat
<1>8. PICK t \in Vertices(N) : rank[t] = low /\ \E c \in S : c[1] \in Tree(t)
  BY <1>7
<1>9. \A x \in Vertices(N) : (\E c \in S : c[1] \in Tree(x)) => ~(rank[x] < rank[t])
  <2>1. ASSUME NEW x \in Vertices(N), \E c \in S : c[1] \in Tree(x), rank[x] < rank[t]
        PROVE  FALSE
    <3>1. rank[x] \in ranks
      BY <2>1
    <3>2. rank[t] <= rank[x]
      BY <1>7, <1>8, <3>1
    <3>3. rank[t] \in Nat /\ rank[x] \in Nat
      OBVIOUS
    <3> QED BY <2>1, <3>2, <3>3
  <2> QED BY <2>1
<1> DEFINE sides == {Cardinality(Side(Tree(t), c[1], c[2])) : c \in {c \in S : c[1] \in Tree(t)}}
<1>10. \A e, u : Cardinality(Side(Tree(t), e, u)) \in Nat
  <2>1. \A e, u : Side(Tree(t), e, u) \subseteq V
    BY DEF Side
  <2> QED BY <2>1, TopologyAssumption, FS_Subset, FS_CardinalityType
<1>11. sides \in SUBSET Nat /\ sides # {}
  BY <1>8, <1>10
<1>12. PICK least \in sides : \A k \in sides : least <= k
  <2> HIDE DEF sides
  <2> QED BY <1>11, LeastNat
<1>13. PICK c \in S : c[1] \in Tree(t) /\ Cardinality(Side(Tree(t), c[1], c[2])) = least
  BY <1>12
<1>14. PICK d \in S, t2 \in Vertices(N), x \in Vertices(N) : Waits(c, d, t2, x)
  <2> HIDE DEF Waits
  <2> QED BY <1>4
<1>15. t2 = t
  BY <1>3, <1>13, <1>14
<1>16. ~(rank[x] < rank[t])
  BY <1>9, <1>14
<1>17. x = t /\ d[1] \in Tree(t) /\ Cardinality(Side(Tree(t), d[1], d[2])) < least
  BY <1>13, <1>14, <1>15, <1>16
<1>18. least <= Cardinality(Side(Tree(t), d[1], d[2]))
  BY <1>12, <1>17
<1>19. least \in Nat /\ Cardinality(Side(Tree(t), d[1], d[2])) \in Nat
  BY <1>10, <1>11, <1>12
<1> QED BY <1>17, <1>18, <1>19

(* What of a set of waiting edges may still wait after one step.           *)
StillWaiting(S) == {c \in S : \E p \in deps : p[1] = c /\ p[2] \in S}

WaitingOf(X, f) ==
  f = [S \in SUBSET X |-> LET still == StillWaiting(S)
                          IN  IF still = S THEN S ELSE f[still]]

(* So the edges that wait for each other are, step by step, none.          *)
LEMMA NothingKeepsWaiting ==
  ASSUME IInv
  PROVE  DeadlockFree
<1> DEFINE X == {p[1] : p \in deps}
           W == CHOOSE f : WaitingOf(X, f)
<1>1. DeadlockFree <=> W[X] = {}
  BY DEF DeadlockFree, WaitingOf, StillWaiting
<1>2. \A S : S # {} => StillWaiting(S) # S
  <2> SUFFICES ASSUME NEW S, S # {}, StillWaiting(S) = S PROVE FALSE
    OBVIOUS
  <2>1. \A c \in S : \E p \in deps : p[1] = c /\ p[2] \in S
    BY DEF StillWaiting
  <2> QED BY <2>1, SomeEdgeIsFree
<1>3. \A S : StillWaiting(S) \subseteq S
  BY DEF StillWaiting
<1>4. \E f : WaitingOf(X, f)
  <2> DEFINE f == [S \in SUBSET X |-> {}]
  <2> HIDE DEF X
  <2>1. ASSUME NEW S \in SUBSET X
        PROVE  {} = IF StillWaiting(S) = S THEN S ELSE f[StillWaiting(S)]
    <3>1. StillWaiting(S) \in SUBSET X
      BY <1>3
    <3> QED BY <1>2, <3>1
  <2>2. f = [S \in SUBSET X |-> IF StillWaiting(S) = S THEN S ELSE f[StillWaiting(S)]]
    <3> DEFINE g == [S \in SUBSET X |-> IF StillWaiting(S) = S THEN S ELSE f[StillWaiting(S)]]
    <3>1. \A S \in SUBSET X : f[S] = g[S]
      BY <2>1
    <3> QED BY <3>1
  <2> HIDE DEF f
  <2>3. WaitingOf(X, f)
    BY <2>2 DEF WaitingOf
  <2> QED BY <2>3
<1>5. WaitingOf(X, W)
  BY <1>4
<1> HIDE DEF W
<1>6. IsFiniteSet(X)
  <2>1. IsFiniteSet(E \X V)
    BY TopologyAssumption, FS_Product
  <2>2. X \subseteq E \X V
    <3> SUFFICES ASSUME NEW p \in deps PROVE p[1] \in E \X V
      OBVIOUS
    <3>1. DepOf(p)
      BY DEF IInv, DepsFollowGraph
    <3> QED BY <3>1 DEF DepOf, EdgesAt
  <2> QED BY <2>1, <2>2, FS_Subset
<1> HIDE DEF X
<1>7. \A S \in SUBSET X : W[S] = IF StillWaiting(S) = S THEN S ELSE W[StillWaiting(S)]
  <2>1. W = [S \in SUBSET X |-> IF StillWaiting(S) = S THEN S ELSE W[StillWaiting(S)]]
    BY <1>5 DEF WaitingOf
  <2> QED BY <2>1
<1>8. \A S \in SUBSET X : IsFiniteSet(S) /\ Cardinality(S) \in Nat
  BY <1>6, FS_Subset, FS_CardinalityType
<1> DEFINE bad == {Cardinality(S) : S \in {S \in SUBSET X : W[S] # {}}}
<1>9. bad = {}
  <2> SUFFICES ASSUME bad # {} PROVE FALSE
    OBVIOUS
  <2>1. bad \in SUBSET Nat
    BY <1>8
  <2>2. PICK n \in bad : \A m \in bad : n <= m
    <3> HIDE DEF bad
    <3> QED BY <2>1, LeastNat
  <2>3. PICK S \in SUBSET X : W[S] # {} /\ Cardinality(S) = n
    BY <2>2
  <2>4. StillWaiting(S) # S
    BY <1>2, <1>7, <2>3
  <2>5. StillWaiting(S) \in SUBSET X /\ StillWaiting(S) \subseteq S
    BY <1>3
  <2>6. W[StillWaiting(S)] # {}
    BY <1>7, <2>3, <2>4
  <2>7. Cardinality(StillWaiting(S)) \in bad
    BY <2>5, <2>6
  <2>8. n <= Cardinality(StillWaiting(S))
    BY <2>2, <2>7
  <2>9. Cardinality(StillWaiting(S)) <= n /\ Cardinality(StillWaiting(S)) # n
    <3>1. IsFiniteSet(S)
      BY <1>8
    <3> QED BY <2>3, <2>4, <2>5, <3>1, FS_Subset
  <2>10. n \in Nat /\ Cardinality(StillWaiting(S)) \in Nat
    BY <2>1, <2>2, <2>7
  <2> QED BY <2>8, <2>9, <2>10
<1>10. X \in SUBSET X
  OBVIOUS
<1>11. W[X] = {}
  BY <1>9, <1>10
<1> QED BY <1>1, <1>11 DEF X

-----------------------------------------------------------------------------
(* The invariant of the layers and of the packet.                          *)

(* The layers of the graph that tables are written from.                   *)
GraphLayered ==
  status = "tables" =>
    /\ Layers(arcs, N, first) \in Seq(SUBSET Vertices(N))
    /\ \A k \in DOMAIN Layers(arcs, N, first) : Layers(arcs, N, first)[k] # {}
    /\ LaterReached(arcs, N, Layers(arcs, N, first))
    /\ args.type = "line" => InOrder(arcs, N)

(* The layers of dst.                                                      *)
TablesLayered ==
  /\ WellLayered(N, layers)
  /\ status \in Building \cup {"ttg"} => layers = << >>
  /\ status = "tables" => LaterReached(arcs, N, layers)

LayerBroken(j) == \E x \in layers[j] : Tree(x) \cap failedE # {}

(* The layers a packet has left have a broken tree each.                   *)
LeftBroken ==
  layers # << >> =>
    /\ v \in V
    /\ \E i \in DOMAIN layers :
         ctree \in layers[i] /\ \A j \in DOMAIN layers : j < i => LayerBroken(j)

PacketInLayers ==
  /\ dst \in V /\ failedE \subseteq E
  /\ status \in {"walking", "delivered", "dropped"} =>
       /\ \A w \in V \ {dst} : RowWell(layers, rows[w])
       /\ LeftBroken
  /\ status = "dropped" => \A j \in DOMAIN layers : LayerBroken(j)

LInv == GraphLayered /\ TablesLayered /\ PacketInLayers

(* No layers are no layers.                                                *)
LEMMA NoLayers ==
  ASSUME NEW n, NEW g
  PROVE  WellLayered(n, << >>) /\ LaterReached(g, n, << >>)
<1>1. << >> \in Seq(SUBSET Vertices(n)) /\ DOMAIN << >> = {}
  OBVIOUS
<1> QED BY <1>1 DEF WellLayered, LaterReached, LayersDisjoint

(* Initially there are no layers.                                          *)
LEMMA InitLayered ==
  ASSUME Init
  PROVE  LInv
<1>1. status = "ttg" /\ layers = << >> /\ failedE = {} /\ dst \in V
  BY DEF Init
<1> QED BY <1>1, NoLayers DEF LInv, GraphLayered, TablesLayered, PacketInLayers

(* While the graph is built nothing is known of layers or packets.         *)
LEMMA BeforeTables ==
  ASSUME LInv, SameForest, status \in Building \cup {"ttg"},
         layers' = layers, dst' = dst, failedE' = failedE,
         status' \in Building \cup {"ttg", "assert", "tables"}, GraphLayered'
  PROVE  LInv'
<1>1. layers = << >> /\ layers' = << >>
  BY DEF LInv, TablesLayered
<1>2. TablesLayered'
  BY <1>1, NoLayers DEF TablesLayered
<1>3. PacketInLayers'
  BY DEF LInv, PacketInLayers, Building
<1> QED BY <1>2, <1>3 DEF LInv

(* The graphs that need no random choice have layers that follow.          *)
LEMMA BuildTtgLayered ==
  ASSUME IInv, LInv, BuildTtg, IInv'
  PROVE  LInv'
<1>1. SameForest /\ N' = N /\ args' = args
  BY DEF BuildTtg, SameForest, N
<1>2. Chosen /\ arcs' \in Graphs(N) /\ first' \in SUBSET Vertices(N)
  BY <1>1 DEF IInv, GraphInRange
<1>3. N \in Nat \ {0} /\ args.num_trees \in Int /\ args.num_trees # 0 /\ args.num_trees <= N
  BY <1>2, ForestFacts
<1>4. ASSUME NEW w, LayerSteps(arcs', N, first', w) PROVE NextReached(arcs', N, w)
  <2>1. CASE args.type = "line"
    <3>1. arcs' = Line(N) /\ first' = LineFirst(N, args.num_trees)
      BY <2>1 DEF BuildTtg
    <3> QED BY <1>3, <1>4, <3>1, LineNext
  <2>2. CASE args.type = "nores"
    <3>1. arcs' = {} /\ first' = Vertices(N)
      BY <2>2 DEF BuildTtg
    <3> QED BY <1>3, <1>4, <3>1, NoresNext
  <2>3. CASE args.type \in Layered
    <3>1. /\ arcs' = LayeredDag(args.type, N, args.l1width, args.self_layer)
          /\ first' = LayeredFirst(args.type, N, args.l1width)
      BY <2>3 DEF BuildTtg, Layered
    <3>2. args.l1width \in Nat \ {0}
      BY <1>2, <2>3, ForestFacts
    <3> QED BY <1>3, <1>4, <2>3, <3>1, <3>2, LayeredSteps, LayersOfInRange
  <2>4. args.type \notin {"rand", "maxdag"}
    BY DEF BuildTtg
  <2> QED BY <1>2, <2>1, <2>2, <2>3, <2>4, ForestFacts
<1>5. /\ Layers(arcs', N, first') \in Seq(SUBSET Vertices(N))
      /\ \A k \in DOMAIN Layers(arcs', N, first') : Layers(arcs', N, first')[k] # {}
      /\ LaterReached(arcs', N, Layers(arcs', N, first'))
  BY <1>2, <1>3, <1>4, LayersReached
<1>6. args.type = "line" => InOrder(arcs', N)
  <2> SUFFICES ASSUME args.type = "line" PROVE InOrder(Line(N), N)
    BY DEF BuildTtg
  <2>1. \A x, y \in Vertices(N) : x < y => x <= y
    BY DEF Vertices
  <2> QED BY <1>3, <2>1, LineReached DEF InOrder
<1>7. GraphLayered'
  BY <1>1, <1>5, <1>6 DEF GraphLayered
<1>8. /\ status \in Building \cup {"ttg"} /\ status' \in Building \cup {"ttg", "assert", "tables"}
      /\ layers' = layers /\ dst' = dst /\ failedE' = failedE
  BY DEF BuildTtg, Unsearched, packet
<1> QED BY <1>1, <1>7, <1>8, BeforeTables

(* The random graphs have no layers yet.                                   *)
LEMMA RandomLayered ==
  ASSUME IInv, LInv, MaxDag \/ RandDag \/ BreakCycles
  PROVE  LInv'
<1>1. /\ SameForest /\ layers' = layers /\ dst' = dst /\ failedE' = failedE
      /\ status \in Building \cup {"ttg"}
  BY DEF MaxDag, RandDag, BreakCycles, NewSearch, Acyclic, Pop, PopRoot, Searched, Successor,
         SuccessorsDone, Searching, Unsearched, SameForest, Building, packet
<1>2. status' \in Building
  <2>1. CASE MaxDag \/ RandDag
    BY <2>1 DEF MaxDag, RandDag, Building
  <2>2. ASSUME NEW p, Visit(p), status \in Building PROVE status' \in Building
    BY <2>2 DEF Visit, Building
  <2>3. CASE Pop \/ PopRoot
    <3>1. status \in Building
      BY <2>3 DEF Pop, PopRoot, Building
    <3> QED BY <2>2, <2>3, <3>1 DEF Pop, PopRoot
  <2>4. CASE BreakCycles /\ ~(Pop \/ PopRoot)
    BY <2>4 DEF BreakCycles, NewSearch, Acyclic, Searched, Successor, SuccessorsDone, Building
  <2> QED BY <2>1, <2>3, <2>4
<1>3. GraphLayered'
  BY <1>2 DEF GraphLayered, Building
<1> QED BY <1>1, <1>2, <1>3, BeforeTables

(* With the trees for resilience the random graphs have layers that follow.*)
LEMMA LabelLayered ==
  ASSUME IInv, LInv, Label, IInv'
  PROVE  LInv'
<1>1. SameForest /\ N' = N /\ args' = args
  BY DEF Label, SameForest, N
<1>2. /\ Chosen /\ arcs' \in Graphs(N) /\ first' \in SUBSET Vertices(N)
      /\ args.type \in {"rand", "maxdag"}
  BY <1>1 DEF IInv, GraphInRange, RandomGraphs, Label, Building
<1>3. N \in Nat \ {0} /\ args.rand_res \in Int /\ 0 <= args.rand_res /\ args.rand_res < N
  BY <1>2, ForestFacts
<1>4. arcs' = arcs \cup ResilienceArcs(N, args.rand_res) /\ first' = Vertices(N - args.rand_res)
  BY DEF Label, NumL1
<1>5. ASSUME status' = "tables", NEW w, LayerSteps(arcs', N, first', w) PROVE NextReached(arcs', N, w)
  <2>1. arcs \subseteq Complete(N - args.rand_res)
    BY <1>5 DEF Label, NumL1
  <2> QED BY <1>2, <1>3, <1>4, <1>5, <2>1, RandomNext
<1>6. ASSUME status' = "tables"
      PROVE  /\ Layers(arcs', N, first') \in Seq(SUBSET Vertices(N))
             /\ \A k \in DOMAIN Layers(arcs', N, first') : Layers(arcs', N, first')[k] # {}
             /\ LaterReached(arcs', N, Layers(arcs', N, first'))
  BY <1>2, <1>3, <1>5, <1>6, LayersReached
<1>7. GraphLayered'
  BY <1>1, <1>2, <1>6 DEF GraphLayered
<1>8. /\ status \in Building \cup {"ttg"} /\ status' \in Building \cup {"ttg", "assert", "tables"}
      /\ layers' = layers /\ dst' = dst /\ failedE' = failedE
  BY DEF Label, Unsearched, Building, packet
<1> QED BY <1>1, <1>7, <1>8, BeforeTables

(* The tables of a destination keep the layers of the graph.               *)
LEMMA FwdtableLayered ==
  ASSUME IInv, LInv, NEW d \in todo, FwdtableDfr(d)
  PROVE  LInv'
<1>1. /\ SameForest /\ arcs' = arcs /\ first' = first /\ dst' = dst /\ failedE' = failedE
      /\ status = "tables" /\ status' \in {"tables", "assert"} /\ N' = N /\ args' = args
  BY DEF FwdtableDfr, SameForest, N, packet
<1>2. GraphLayered'
  BY <1>1 DEF LInv, GraphLayered
<1>3. PacketInLayers'
  BY <1>1 DEF LInv, PacketInLayers
<1>4. Chosen /\ N \in Nat \ {0} /\ args.num_trees \in Int /\ args.num_trees # 0 /\ args.num_trees <= N
  BY ForestFacts DEF IInv
<1> DEFINE L == Layers(arcs, N, first)
           dist == Distances(d)
<1>5. L \in Seq(SUBSET Vertices(N)) /\ (\A k \in DOMAIN L : L[k] # {}) /\ LaterReached(arcs, N, L)
      /\ (args.type = "line" => InOrder(arcs, N))
  BY <1>1 DEF LInv, GraphLayered
<1>6. layers' # layers =>
        /\ LayersDisjoint(L)
        /\ \E kept \in IF args.num_trees < 0 THEN {L}
                       ELSE {Kept(L, top, args.type) :
                               top \in TopTrees(L, N, dist, args.num_trees, MaxL1)} :
             layers' = kept
  BY DEF FwdtableDfr
<1> HIDE DEF L, dist
<1>7. WellLayered(N, layers') /\ LaterReached(arcs, N, layers')
  <2>1. CASE layers' = layers
    BY <1>1, <2>1 DEF LInv, TablesLayered
  <2>2. CASE layers' # layers
    <3>1. WellLayered(N, L)
      BY <1>5, <1>6, <2>2 DEF WellLayered
    <3>2. CASE args.num_trees < 0
      <4>1. layers' = L
        BY <1>6, <2>2, <3>2
      <4> QED BY <1>5, <3>1, <4>1
    <3>3. CASE ~(args.num_trees < 0)
      <4>1. PICK top \in TopTrees(L, N, dist, args.num_trees, MaxL1) : layers' = Kept(L, top, args.type)
        BY <1>6, <2>2, <3>3
      <4>2. args.num_trees \in Nat \ {0} /\ N \in Nat
        BY <1>4, <3>3
      <4>3. top \in SUBSET Vertices(N)
        BY <1>4, <4>2, TopTreesInRange
      <4> QED BY <1>5, <3>1, <4>1, <4>2, <4>3, KeptLayers
    <3> QED BY <3>2, <3>3
  <2> QED BY <2>1, <2>2
<1>8. TablesLayered'
  BY <1>1, <1>7 DEF TablesLayered, Building
<1> QED BY <1>2, <1>3, <1>8 DEF LInv

(* A packet starts in the first layer, and the rows keep to the layers.    *)
LEMMA SendLayered ==
  ASSUME IInv, LInv, NEW u \in V, Send(u)
  PROVE  LInv'
<1>1. /\ SameForest /\ layers' = layers /\ dst' = dst /\ N' = N /\ forest' = forest
      /\ status = "tables" /\ status' = "walking" /\ v' = u
  BY DEF Send, SameForest, N
<1>2. GraphLayered'
  BY <1>1 DEF GraphLayered
<1>3. TablesLayered'
  BY <1>1 DEF LInv, TablesLayered, Building
<1>4. failedE' \subseteq E
  BY DEF Send
<1>5. N \in Nat /\ WellLayered(N, layers) /\ LaterReached(arcs, N, layers) /\ dst \in V
  BY <1>1, ForestFacts DEF IInv, LInv, TablesLayered, PacketInLayers
<1>6. ASSUME NEW w \in V \ {dst} PROVE RowWell(layers, rows'[w])
  <2> DEFINE rowsOf == [x \in V \ {dst} |-> {RowsOf(s) : s \in SortedBy(x)}]
  <2>1. rows'[w] \in rowsOf[w]
    BY DEF Send
  <2>2. PICK s \in SortedBy(w) : rows'[w] = RowsOf(s)
    BY <2>1
  <2> QED BY <1>5, <2>2, RowsKeepLayers
<1>7. LeftBroken'
  <2> SUFFICES ASSUME layers # << >>
               PROVE  /\ v' \in V
                      /\ \E i \in DOMAIN layers :
                           ctree' \in layers[i] /\ \A j \in DOMAIN layers : j < i => LayerBroken(j)'
    BY <1>1 DEF LeftBroken
  <2>1. ctree' \in layers[1]
    BY DEF Send, TopK
  <2>2. 1 \in DOMAIN layers /\ DOMAIN layers = 1..Len(layers) /\ Len(layers) \in Nat
    BY <1>5 DEF WellLayered
  <2>3. \A j \in DOMAIN layers : ~(j < 1)
    BY <2>2
  <2> QED BY <1>1, <2>1, <2>2, <2>3
<1>8. PacketInLayers'
  BY <1>1, <1>4, <1>5, <1>6, <1>7 DEF PacketInLayers
<1> QED BY <1>2, <1>3, <1>8 DEF LInv

(* What a packet finds at a switch: where the first edge of a tree is down *)
(* the tree is broken.                                                     *)
LEMMA DownIsBroken ==
  ASSUME IInv, dst \in V, v \in V, v # dst, NEW x \in Vertices(N)
  PROVE  /\ ~Up(x) => Tree(x) \cap failedE # {}
         /\ Other(v, Out(x)) \in V
<1>1. Out(x) \in Tree(x) \cap EdgesAt(v)
  BY DEF IInv, NextEdges, Out
<1>2. Out(x) \in E /\ v \in Ends[Out(x)]
  BY <1>1 DEF EdgesAt
<1>3. Other(v, Out(x)) \in V
  BY <1>2, OtherEnd
<1> QED BY <1>1, <1>3 DEF Up

(* A packet changes to a later layer only past broken trees of all layers  *)
(* between.                                                                *)
LEMMA ForwardLayered ==
  ASSUME IInv, LInv, Forward
  PROVE  LInv'
<1>1. /\ layers' = layers /\ dst' = dst /\ failedE' = failedE /\ forest' = forest /\ rows' = rows
      /\ status = "walking" /\ status' = "walking" /\ v # dst /\ N' = N
  BY DEF Forward, Walk, N
<1>2. GraphLayered' /\ TablesLayered'
  BY <1>1 DEF LInv, GraphLayered, TablesLayered, Building
<1>3. /\ dst \in V /\ failedE \subseteq E
      /\ \A w \in V \ {dst} : RowWell(layers, rows[w])
      /\ LeftBroken
  BY <1>1 DEF LInv, PacketInLayers
<1>4. layers \in Seq(SUBSET Vertices(N))
  BY DEF LInv, TablesLayered, WellLayered
<1>5. ASSUME layers # << >>
      PROVE  /\ v' \in V
             /\ \E k \in DOMAIN layers :
                  ctree' \in layers[k] /\ \A j \in DOMAIN layers : j < k => LayerBroken(j)
  <2>1. v \in V
    BY <1>3, <1>5 DEF LeftBroken
  <2>2. PICK i \in DOMAIN layers :
          ctree \in layers[i] /\ \A j \in DOMAIN layers : j < i => LayerBroken(j)
    BY <1>3, <1>5 DEF LeftBroken
  <2>3. PICK x \in DOMAIN Row :
          /\ Up(x)
          /\ \A y \in DOMAIN Row : Row[y] < Row[x] => ~Up(y)
          /\ ctree' = x
          /\ v' = Other(v, Out(x))
    BY DEF Forward
  <2>4. RowWell(layers, rows[v])
    BY <1>1, <1>3, <2>1
  <2>5. /\ ctree \in DOMAIN Row
        /\ \A y \in DOMAIN Row :
             y = ctree \/ (Row[ctree] < Row[y] /\ \E k \in DOMAIN layers : i <= k /\ y \in layers[k])
        /\ \A k \in DOMAIN layers : i < k => layers[k] \subseteq DOMAIN Row
        /\ \A j, k \in DOMAIN layers : i < j /\ j < k => \A y \in layers[j], z \in layers[k] : Row[y] < Row[z]
    BY <2>2, <2>4 DEF RowWell, Row
  <2>6. \A k \in DOMAIN layers : layers[k] \subseteq Vertices(N) /\ layers[k] # {} /\ k \in Int
    BY <1>4 DEF LInv, TablesLayered, WellLayered
  <2>7. CASE x = ctree
    <3>1. ctree \in Vertices(N)
      BY <2>2, <2>6
    <3>2. v' \in V
      BY <1>1, <1>3, <2>1, <2>3, <2>7, <3>1, DownIsBroken
    <3> QED BY <2>2, <2>3, <2>7, <3>2
  <2>8. CASE x # ctree
    <3>1. PICK k \in DOMAIN layers : i <= k /\ x \in layers[k] /\ Row[ctree] < Row[x]
      BY <2>5, <2>8
    <3>2. x \in Vertices(N) /\ ctree \in Vertices(N)
      BY <2>2, <2>6, <3>1
    <3>3. v' \in V
      BY <1>1, <1>3, <2>1, <2>3, <3>2, DownIsBroken
    <3>4. ASSUME NEW j \in DOMAIN layers, j < k PROVE LayerBroken(j)
      <4>1. CASE j < i
        BY <2>2, <4>1
      <4>2. CASE j = i
        <5>1. ~Up(ctree)
          BY <2>3, <2>5, <3>1
        <5>2. Tree(ctree) \cap failedE # {}
          BY <1>1, <1>3, <2>1, <3>2, <5>1, DownIsBroken
        <5> QED BY <2>2, <4>2, <5>2 DEF LayerBroken
      <4>3. CASE i < j
        <5>1. PICK y \in layers[j] : TRUE
          BY <2>6
        <5>2. y \in DOMAIN Row /\ Row[y] < Row[x]
          BY <2>5, <3>1, <3>4, <4>3
        <5>3. ~Up(y) /\ y \in Vertices(N)
          BY <2>3, <2>6, <5>2
        <5>4. Tree(y) \cap failedE # {}
          BY <1>1, <1>3, <2>1, <5>3, DownIsBroken
        <5> QED BY <5>1, <5>4 DEF LayerBroken
      <4>4. i \in Int /\ j \in Int
        BY <2>6
      <4> QED BY <4>1, <4>2, <4>3, <4>4
    <3> QED BY <2>3, <3>1, <3>3, <3>4
  <2> QED BY <2>7, <2>8
<1>6. \A j : LayerBroken(j)' <=> LayerBroken(j)
  BY <1>1 DEF LayerBroken, Tree
<1>7. LeftBroken'
  BY <1>1, <1>5, <1>6 DEF LeftBroken
<1>8. PacketInLayers'
  BY <1>1, <1>3, <1>7 DEF PacketInLayers
<1> QED BY <1>2, <1>8 DEF LInv

(* A packet is dropped only where every layer has a broken tree.           *)
LEMMA DropLayered ==
  ASSUME IInv, LInv, Drop
  PROVE  LInv'
<1>1. /\ layers' = layers /\ dst' = dst /\ failedE' = failedE /\ forest' = forest /\ rows' = rows
      /\ v' = v /\ ctree' = ctree /\ status = "walking" /\ status' = "dropped" /\ v # dst /\ N' = N
  BY DEF Drop, Walk, N
<1>2. GraphLayered' /\ TablesLayered'
  BY <1>1 DEF LInv, GraphLayered, TablesLayered, Building
<1>3. /\ dst \in V /\ failedE \subseteq E
      /\ \A w \in V \ {dst} : RowWell(layers, rows[w])
      /\ LeftBroken
  BY <1>1 DEF LInv, PacketInLayers
<1>4. layers \in Seq(SUBSET Vertices(N))
  BY DEF LInv, TablesLayered, WellLayered
<1>5. ASSUME NEW j \in DOMAIN layers PROVE LayerBroken(j)
  <2>0. layers # << >>
    BY <1>4
  <2>1. v \in V
    BY <1>3, <2>0 DEF LeftBroken
  <2>2. PICK i \in DOMAIN layers :
          ctree \in layers[i] /\ \A k \in DOMAIN layers : k < i => LayerBroken(k)
    BY <1>3, <2>0 DEF LeftBroken
  <2>3. \A x \in DOMAIN Row : ~Up(x)
    BY DEF Drop
  <2>4. RowWell(layers, rows[v])
    BY <1>1, <1>3, <2>1
  <2>5. /\ ctree \in DOMAIN Row
        /\ \A k \in DOMAIN layers : i < k => layers[k] \subseteq DOMAIN Row
    BY <2>2, <2>4 DEF RowWell, Row
  <2>6. \A k \in DOMAIN layers : layers[k] \subseteq Vertices(N) /\ layers[k] # {} /\ k \in Int
    BY <1>4 DEF LInv, TablesLayered, WellLayered
  <2>7. CASE j < i
    BY <2>2, <2>7
  <2>8. CASE ~(j < i)
    <3>1. PICK y \in layers[j] : y \in DOMAIN Row
      <4>1. CASE j = i
        BY <2>2, <2>5, <4>1
      <4>2. CASE i < j
        BY <2>5, <2>6, <4>2
      <4> QED BY <2>6, <2>8, <4>1, <4>2
    <3>2. ~Up(y) /\ y \in Vertices(N)
      BY <2>3, <2>6, <3>1
    <3>3. Tree(y) \cap failedE # {}
      BY <1>1, <1>3, <2>1, <3>2, DownIsBroken
    <3> QED BY <3>1, <3>3 DEF LayerBroken
  <2> QED BY <2>7, <2>8
<1>6. \A j : LayerBroken(j)' <=> LayerBroken(j)
  BY <1>1 DEF LayerBroken, Tree
<1>7. LeftBroken'
  BY <1>1, <1>3, <1>6 DEF LeftBroken
<1>8. PacketInLayers'
  BY <1>1, <1>3, <1>5, <1>6, <1>7 DEF PacketInLayers
<1> QED BY <1>2, <1>8 DEF LInv

(* An arrival, and a step of nothing.                                      *)
LEMMA OthersLayered ==
  ASSUME IInv, LInv, Arrive \/ UNCHANGED vars
  PROVE  LInv'
<1>1. /\ layers' = layers /\ dst' = dst /\ failedE' = failedE /\ forest' = forest /\ rows' = rows
      /\ arcs' = arcs /\ first' = first /\ args' = args
      /\ v' = v /\ ctree' = ctree /\ N' = N
      /\ status' = status \/ (status = "walking" /\ status' = "delivered")
  BY DEF Arrive, Walk, N, vars, packet
<1>2. GraphLayered' /\ TablesLayered'
  BY <1>1 DEF LInv, GraphLayered, TablesLayered, Building
<1>3. \A j : LayerBroken(j)' <=> LayerBroken(j)
  BY <1>1 DEF LayerBroken, Tree
<1>4. LeftBroken' <=> LeftBroken
  BY <1>1, <1>3 DEF LeftBroken
<1>5. PacketInLayers'
  BY <1>1, <1>3, <1>4 DEF LInv, PacketInLayers
<1> QED BY <1>2, <1>5 DEF LInv

(* As many layers with broken trees as there are need as many failures.    *)
LEMMA BrokenLayersCount ==
  ASSUME IInv, LInv, \A j \in DOMAIN layers : LayerBroken(j)
  PROVE  Len(layers) <= Cardinality(failedE)
<1>1. layers \in Seq(SUBSET Vertices(N)) /\ LayersDisjoint(layers) /\ failedE \subseteq E
  BY DEF LInv, TablesLayered, WellLayered, PacketInLayers
<1>2. DOMAIN layers = 1..Len(layers) /\ Len(layers) \in Nat
  BY <1>1
<1> DEFINE tree == [j \in DOMAIN layers |-> CHOOSE x \in layers[j] : Tree(x) \cap failedE # {}]
           cut == [j \in DOMAIN layers |-> CHOOSE e : e \in Tree(tree[j]) \cap failedE]
<1>3. ASSUME NEW j \in DOMAIN layers PROVE tree[j] \in layers[j] /\ cut[j] \in Tree(tree[j]) \cap failedE
  <2>1. tree[j] \in layers[j] /\ Tree(tree[j]) \cap failedE # {}
    BY DEF LayerBroken
  <2> HIDE DEF tree
  <2> QED BY <2>1
<1> HIDE DEF tree
<1>4. cut \in [DOMAIN layers -> failedE]
  <2>1. \A j \in DOMAIN layers : cut[j] \in failedE
    BY <1>3
  <2>2. cut = [j \in DOMAIN layers |-> cut[j]]
    OBVIOUS
  <2> HIDE DEF cut
  <2> QED BY <2>1, <2>2
<1> HIDE DEF cut
<1>5. ASSUME NEW i \in DOMAIN layers, NEW j \in DOMAIN layers, cut[i] = cut[j], i # j PROVE FALSE
  <2>1. tree[i] \in Vertices(N) /\ tree[j] \in Vertices(N)
    BY <1>1, <1>3
  <2>2. cut[i] \in Tree(tree[i]) \cap Tree(tree[j])
    BY <1>3, <1>5
  <2>3. tree[i] = tree[j]
    BY <2>1, <2>2, ForestFacts DEF IInv
  <2>4. i < j \/ j < i
    BY <1>2, <1>5
  <2> QED BY <1>1, <1>3, <2>3, <2>4 DEF LayersDisjoint
<1>6. cut \in Injection(DOMAIN layers, failedE)
  BY <1>4, <1>5 DEF Injection, IsInjective
<1>7. IsFiniteSet(failedE)
  BY <1>1, TopologyAssumption, FS_Subset
<1>8. Cardinality(DOMAIN layers) <= Cardinality(failedE)
  BY <1>6, <1>7, FS_Injection
<1>9. Cardinality(DOMAIN layers) = Len(layers)
  BY <1>2, FS_Interval, SMTT(30)
<1> QED BY <1>8, <1>9

-----------------------------------------------------------------------------
(* What holds of every run.                                                *)

(* The invariant holds: the tables of all destinations so far keep to the  *)
(* trees and to the transition graph, and that is acyclic.                 *)
THEOREM GraphInvariant == Spec => []IInv
<1>1. Init => IInv
  BY InitInvariant
<1>2. IInv /\ [Next]_vars => IInv'
  <2> SUFFICES ASSUME IInv, [Next]_vars PROVE IInv'
    OBVIOUS
  <2>1. CASE BuildTtg
    BY <2>1, BuildTtgInvariant
  <2>2. CASE MaxDag \/ RandDag
    BY <2>2, StartInvariant
  <2>3. CASE BreakCycles
    BY <2>3, BreakCyclesInvariant
  <2>4. CASE Label
    BY <2>4, LabelInvariant
  <2>5. CASE \E d \in todo : FwdtableDfr(d)
    BY <2>5, FwdtableInvariant
  <2>6. CASE \E u \in V : Send(u)
    BY <2>6, SendInvariant
  <2>7. CASE Hop \/ UNCHANGED vars
    BY <2>7, HopInvariant
  <2> QED BY <2>1, <2>2, <2>3, <2>4, <2>5, <2>6, <2>7 DEF Next
<1> QED BY <1>1, <1>2, PTL DEF Spec

(* The tables cannot deadlock, for every network, forest, transition graph *)
(* and choice of trees: every set of edges in use has one that waits for   *)
(* none of them.                                                           *)
THEOREM NoDeadlock == Spec => []DeadlockFree
<1>1. IInv => DeadlockFree
  BY NothingKeepsWaiting
<1> QED BY <1>1, GraphInvariant, PTL

(* The layers of a destination follow each other in the graph, its rows    *)
(* keep to them, and the layers a packet has left have broken trees.       *)
THEOREM LayersInvariant == Spec => []LInv
<1>1. Init => LInv
  BY InitLayered
<1>2. IInv /\ IInv' /\ LInv /\ [Next]_vars => LInv'
  <2> SUFFICES ASSUME IInv, IInv', LInv, [Next]_vars PROVE LInv'
    OBVIOUS
  <2>1. CASE BuildTtg
    BY <2>1, BuildTtgLayered
  <2>2. CASE MaxDag \/ RandDag \/ BreakCycles
    BY <2>2, RandomLayered
  <2>3. CASE Label
    BY <2>3, LabelLayered
  <2>4. CASE \E d \in todo : FwdtableDfr(d)
    BY <2>4, FwdtableLayered
  <2>5. CASE \E u \in V : Send(u)
    BY <2>5, SendLayered
  <2>6. CASE Forward
    BY <2>6, ForwardLayered
  <2>7. CASE Drop
    BY <2>7, DropLayered
  <2>8. CASE Arrive \/ UNCHANGED vars
    BY <2>8, OthersLayered
  <2> QED BY <2>1, <2>2, <2>3, <2>4, <2>5, <2>6, <2>7, <2>8 DEF Next, Hop
<1> QED BY <1>1, <1>2, GraphInvariant, PTL DEF Spec

(* A packet of a destination with k layers of trees survives any k - 1     *)
(* failed edges, for every network, forest, transition graph and choice of *)
(* trees, and for every order of the trees in the tables.                  *)
THEOREM LayeredTablesSurvive == Spec => []LayersResilient
<1>1. IInv /\ LInv => LayersResilient
  <2> SUFFICES ASSUME IInv, LInv, Cardinality(failedE) < Len(layers), status = "dropped" PROVE FALSE
    BY DEF LayersResilient
  <2>1. \A j \in DOMAIN layers : LayerBroken(j)
    BY DEF LInv, PacketInLayers
  <2>2. Len(layers) <= Cardinality(failedE)
    BY <2>1, BrokenLayersCount
  <2>3. Len(layers) \in Nat /\ Cardinality(failedE) \in Nat
    <3>1. layers \in Seq(SUBSET Vertices(N)) /\ failedE \subseteq E
      BY DEF LInv, TablesLayered, WellLayered, PacketInLayers
    <3>2. IsFiniteSet(failedE)
      BY <3>1, TopologyAssumption, FS_Subset
    <3> QED BY <3>1, <3>2, FS_CardinalityType
  <2> QED BY <2>2, <2>3
<1> QED BY <1>1, GraphInvariant, LayersInvariant, PTL

-----------------------------------------------------------------------------
(* No assertion fails: the graph is acyclic.                               *)

(* A graph whose arcs lead down from vertex to vertex is acyclic.          *)
LEMMA RankedIsDag ==
  ASSUME NEW n \in Nat, NEW g \in Graphs(n), Ranked(g, n)
  PROVE  IsDag(g, n)
<1>1. PICK rank : RankedBy(g, n, rank)
  BY DEF Ranked
<1>2. ASSUME NEW a \in g, a[1] \in Closure(g, n)[a[2]] PROVE FALSE
  <2>1. a[1] \in Vertices(n) /\ a[2] \in Vertices(n)
    BY DEF Graphs
  <2>2. a[1] = a[2] \/ rank[a[1]] < rank[a[2]]
    BY <1>1, <1>2, <2>1, ReachedIsLower
  <2>3. rank[a[2]] < rank[a[1]] /\ rank[a[1]] \in Nat /\ rank[a[2]] \in Nat
    BY <1>1, <2>1 DEF RankedBy
  <2> QED BY <2>2, <2>3
<1> QED BY <1>2 DEF IsDag

(* So is one whose arcs lead to later trees.                               *)
LEMMA RisingIsDag ==
  ASSUME NEW n \in Nat, NEW g \in Graphs(n), \A a \in g : a[1] < a[2]
  PROVE  IsDag(g, n)
<1> DEFINE rank == [x \in Vertices(n) |-> n - x]
<1>1. rank \in [Vertices(n) -> Nat]
  BY DEF Vertices
<1>2. ASSUME NEW a \in g PROVE rank[a[2]] < rank[a[1]]
  <2>1. a[1] \in Vertices(n) /\ a[2] \in Vertices(n) /\ a[1] < a[2]
    BY DEF Graphs
  <2> QED BY <2>1 DEF Vertices
<1> HIDE DEF rank
<1>3. RankedBy(g, n, rank)
  BY <1>1, <1>2 DEF RankedBy
<1>4. Ranked(g, n)
  BY <1>1, <1>3 DEF Ranked
<1> QED BY <1>4, RankedIsDag

(* A line leads to later trees.                                            *)
LEMMA LineIsDag ==
  ASSUME NEW n \in Nat
  PROVE  IsDag(Line(n), n)
<1>1. \A a \in Line(n) : a[1] < a[2]
  BY DEF Line
<1> QED BY <1>1, LineInRange, RisingIsDag

(* And so do the layered graphs.                                           *)
LEMMA LayeredIsDag ==
  ASSUME NEW type \in Layered, NEW n \in Nat \ {0}, NEW l1width \in Nat \ {0}, NEW self_layer
  PROVE  IsDag(LayeredDag(type, n, l1width, self_layer), n)
<1> DEFINE L == LayersOf(type, n, l1width)
           g == LayeredDag(type, n, l1width, self_layer)
<1>1. PICK m \in 1..n :
        /\ L \in [1..m -> SUBSET Vertices(n)]
        /\ \A i, j \in 1..m : i < j => \A x \in L[i], y \in L[j] : x < y
  BY LayersOfInRange
<1>2. g = (UNION {L[k] \X L[k + 1] : k \in 1..Len(L) - 1})
            \cup {a \in Line(n) : self_layer /\ \E k \in DOMAIN L : {a[1], a[2]} \subseteq L[k]}
  BY DEF LayeredDag
<1>3. g \in Graphs(n)
  BY LayeredInRange
<1> HIDE DEF L, g
<1>4. Len(L) = m
  BY <1>1, FunctionIsSequence
<1>5. ASSUME NEW a \in g PROVE a[1] < a[2]
  <2>1. CASE \E k \in 1..m - 1 : a \in L[k] \X L[k + 1]
    <3>1. PICK k \in 1..m - 1 : a \in L[k] \X L[k + 1]
      BY <2>1
    <3>2. k \in 1..m /\ k + 1 \in 1..m /\ k < k + 1
      OBVIOUS
    <3> QED BY <1>1, <3>1, <3>2
  <2>2. CASE a \in Line(n)
    BY <2>2 DEF Line
  <2>3. a \in Line(n) \/ \E k \in 1..Len(L) - 1 : a \in L[k] \X L[k + 1]
    BY <1>2
  <2> QED BY <1>4, <2>1, <2>2, <2>3
<1>6. IsDag(g, n)
  BY <1>3, <1>5, RisingIsDag
<1> QED BY <1>6 DEF g

-----------------------------------------------------------------------------
(* No assertion fails: the graph is connected.                             *)

(* What is kept along the steps of a walk is kept along the walk.          *)
LEMMA KeptAlong ==
  ASSUME NEW lo \in Int, NEW hi \in Int, NEW f, NEW Y,
         \A k \in lo..hi - 1 : f[k] \in Y => f[k + 1] \in Y,
         NEW i \in lo..hi, NEW j \in lo..hi, i <= j, f[i] \in Y
  PROVE  f[j] \in Y
<1> DEFINE S == {d \in Nat : i + d <= j => f[i + d] \in Y}
<1>1. 0 \in S
  OBVIOUS
<1>2. ASSUME NEW d \in Nat, d \in S PROVE d + 1 \in S
  <2> SUFFICES ASSUME i + (d + 1) <= j PROVE f[i + (d + 1)] \in Y
    OBVIOUS
  <2>1. i + d \in lo..hi - 1 /\ i + d <= j /\ (i + d) + 1 = i + (d + 1)
    OBVIOUS
  <2>2. f[i + d] \in Y
    BY <1>2, <2>1
  <2> QED BY <2>1, <2>2
<1> HIDE DEF S
<1>3. Nat \subseteq S
  BY <1>1, <1>2, NatSet
<1>4. j - i \in Nat /\ i + (j - i) = j
  OBVIOUS
<1> QED BY <1>3, <1>4 DEF S

(* A cycle that leaves a set comes back to it, or the other way round: it  *)
(* has another arc across the border.                                      *)
LEMMA CycleCrossesAgain ==
  ASSUME NEW W, path \in Seq(W), NEW iw, \E k \in DOMAIN path : path[k] = iw,
         NEW e \in CycleArcs(iw), NEW X, e[1] \in X <=> e[2] \notin X
  PROVE  \E a \in CycleArcs(iw) : a # e /\ (a[1] \in X <=> a[2] \notin X)
<1> DEFINE idx == CHOOSE k \in DOMAIN path : path[k] = iw
           Y == {x \in W : x \in X <=> e[2] \in X}
<1>1. idx \in DOMAIN path /\ path[idx] = iw
  OBVIOUS
<1>2. CycleArcs(iw)
        = {<<path[k], path[k + 1]>> : k \in idx..Len(path) - 1} \cup {<<Last(path), iw>>}
  BY DEF CycleArcs
<1> HIDE DEF idx
<1>3. PICK n \in Nat : n = Len(path) /\ idx \in 1..n /\ \A k \in 1..n : path[k] \in W
  BY <1>1
<1>4. Last(path) = path[n]
  BY <1>3 DEF Last
<1> SUFFICES ASSUME \A a \in CycleArcs(iw) : a = e \/ ~(a[1] \in X <=> a[2] \notin X)
             PROVE  FALSE
  OBVIOUS
<1>5. /\ \A k \in idx..n - 1 : <<path[k], path[k + 1]>> \in CycleArcs(iw)
      /\ <<path[n], path[idx]>> \in CycleArcs(iw)
  BY <1>1, <1>2, <1>3, <1>4
<1>6. ASSUME NEW x \in W, NEW y \in W, <<x, y>> \in CycleArcs(iw), x \in Y PROVE y \in Y
  <2>1. CASE <<x, y>> = e
    BY <2>1
  <2>2. CASE <<x, y>> # e
    BY <1>6, <2>2
  <2> QED BY <2>1, <2>2
<1>7. \A k \in idx..n - 1 : path[k] \in Y => path[k + 1] \in Y
  <2> SUFFICES ASSUME NEW k \in idx..n - 1, path[k] \in Y PROVE path[k + 1] \in Y
    OBVIOUS
  <2>1. k \in 1..n /\ k + 1 \in 1..n
    BY <1>3
  <2> HIDE DEF Y
  <2> QED BY <1>3, <1>5, <1>6, <2>1
<1>8. path[n] \in Y => path[idx] \in Y
  <2>1. n \in 1..n
    BY <1>3
  <2> HIDE DEF Y
  <2> QED BY <1>3, <1>5, <1>6, <2>1
<1>9. \A i, j \in idx..n : i <= j /\ path[i] \in Y => path[j] \in Y
  <2> HIDE DEF Y
  <2>1. idx \in Int /\ n \in Int
    BY <1>3
  <2> QED BY <1>7, <2>1, KeptAlong
<1>10. idx \in idx..n /\ n \in idx..n
  BY <1>3
<1>11. e[1] \notin Y
  OBVIOUS
<1>12. CASE \E k \in idx..n - 1 : e = <<path[k], path[k + 1]>>
  <2>1. PICK k \in idx..n - 1 : e = <<path[k], path[k + 1]>>
    BY <1>12
  <2>2. k \in idx..n /\ k + 1 \in idx..n /\ k + 1 \in 1..n /\ k + 1 <= n /\ idx <= k
    BY <1>3
  <2>3. path[k + 1] \in Y
    BY <1>3, <2>1, <2>2
  <2> HIDE DEF Y
  <2>4. path[n] \in Y
    BY <1>9, <1>10, <2>2, <2>3
  <2>5. path[idx] \in Y
    BY <1>8, <2>4
  <2>6. path[k] \in Y
    BY <1>9, <1>10, <2>2, <2>5
  <2> QED BY <1>11, <2>1, <2>6
<1>13. CASE e = <<path[n], path[idx]>>
  <2>1. path[idx] \in Y
    BY <1>3, <1>13
  <2> HIDE DEF Y
  <2>2. path[n] \in Y
    BY <1>3, <1>9, <1>10, <2>1
  <2> QED BY <1>11, <1>13, <2>2
<1> QED BY <1>1, <1>2, <1>3, <1>4, <1>12, <1>13

(* So a graph from which an arc of a cycle is taken stays connected.       *)
LEMMA BreakKeepsConnected ==
  ASSUME NEW W, NEW T, path \in Seq(T), NEW iw, \E k \in DOMAIN path : path[k] = iw,
         \A a \in arcs : {a[1], a[2]} \subseteq W, WeaklyConnected(arcs, W),
         CycleArcs(iw) \subseteq arcs, NEW e \in CycleArcs(iw)
  PROVE  WeaklyConnected(arcs \ {e}, W)
<1> SUFFICES ASSUME NEW X \in SUBSET W, X # {}, X # W
             PROVE  \E a \in arcs \ {e} : {a[1], a[2]} \subseteq W /\ (a[1] \in X) # (a[2] \in X)
  BY DEF WeaklyConnected
<1>1. PICK a \in arcs : {a[1], a[2]} \subseteq W /\ (a[1] \in X) # (a[2] \in X)
  BY DEF WeaklyConnected
<1>2. a[1] \in X <=> a[2] \notin X
  BY <1>1
<1>3. CASE a # e
  BY <1>1, <1>3
<1>4. CASE a = e
  <2>1. PICK b \in CycleArcs(iw) : b # e /\ (b[1] \in X <=> b[2] \notin X)
    BY <1>2, <1>4, CycleCrossesAgain
  <2>2. b \in arcs \ {e} /\ {b[1], b[2]} \subseteq W
    BY <2>1
  <2>3. (b[1] \in X) # (b[2] \in X)
    BY <2>1
  <2> QED BY <2>2, <2>3
<1> QED BY <1>3, <1>4

(* A graph with an arc between any two vertices is connected.              *)
LEMMA TournamentConnected ==
  ASSUME NEW W, NEW g, \A x, y \in W : x # y => <<x, y>> \in g \/ <<y, x>> \in g
  PROVE  WeaklyConnected(g, W)
<1> SUFFICES ASSUME NEW X \in SUBSET W, X # {}, X # W
             PROVE  \E a \in g : {a[1], a[2]} \subseteq W /\ (a[1] \in X) # (a[2] \in X)
  BY DEF WeaklyConnected
<1>1. PICK x \in X, y \in W \ X : TRUE
  OBVIOUS
<1>2. PICK a \in g : a = <<x, y>> \/ a = <<y, x>>
  BY <1>1
<1>3. {a[1], a[2]} \subseteq W /\ (a[1] \in X <=> a[2] \notin X)
  BY <1>1, <1>2
<1>4. (a[1] \in X) # (a[2] \in X)
  BY <1>3
<1> QED BY <1>3, <1>4

-----------------------------------------------------------------------------
(* No assertion fails: the layers hold every tree once.                    *)

(* The number of trees in layers that have none in common.                 *)
LEMMA SizeCounts ==
  ASSUME NEW n \in Nat, NEW L, WellLayered(n, L),
         \A x \in Vertices(n) : \E k \in DOMAIN L : x \in L[k]
  PROVE  Size(L) = n
<1> DEFINE c == Len(L)
           step == [p \in Int \X Nat |->
                      IF p[1] \in 1..c THEN p[2] + Cardinality(L[p[1]]) ELSE 0]
           Steps(u) == u = [k \in 0..c |-> IF k = 0 THEN 0 ELSE u[k - 1] + Cardinality(L[k])]
           Below(k) == {x \in Vertices(n) : \E j \in 1..k : x \in L[j]}
<1>1. L \in Seq(SUBSET Vertices(n)) /\ LayersDisjoint(L)
  BY DEF WellLayered
<1>2. c \in Nat /\ DOMAIN L = 1..c /\ \A k \in 1..c : L[k] \subseteq Vertices(n)
  BY <1>1
<1>3. IsFiniteSet(Vertices(n)) /\ Cardinality(Vertices(n)) = n
  <2>1. IsFiniteSet(0..n - 1) /\ Cardinality(0..n - 1) = n
    BY FS_Interval
  <2> QED BY <2>1 DEF Vertices
<1> HIDE DEF c
<1>4. \A k \in 1..c : IsFiniteSet(L[k]) /\ Cardinality(L[k]) \in Nat
  BY <1>2, <1>3, FS_Subset, FS_CardinalityType
<1>5. step \in [Int \X Nat -> Nat]
  <2>1. \A p \in Int \X Nat : p[1] \in 1..c => p[2] + Cardinality(L[p[1]]) \in Nat
    BY <1>4
  <2> QED BY <2>1
<1>6. \E u : Steps(u)
  <2> HIDE DEF step
  <2>1. PICK f \in [0..c -> Nat] : Repeats(f, 0, c, 0, step)
    <3>1. 0 \in Int /\ c \in Int /\ 0 <= c /\ 0 \in Nat
      BY <1>2
    <3> QED BY <1>5, <3>1, RepetitionExists, Zenon
  <2>2. ASSUME NEW k \in 0..c
        PROVE  f[k] = IF k = 0 THEN 0 ELSE f[k - 1] + Cardinality(L[k])
    <3>1. f[k] = IF k = 0 THEN 0 ELSE step[<<k, f[k - 1]>>]
      BY <2>1 DEF Repeats
    <3>2. CASE k # 0
      <4>1. k - 1 \in 0..c /\ k \in 1..c
        BY <1>2, <3>2
      <4>2. <<k, f[k - 1]>> \in Int \X Nat
        BY <2>1, <4>1
      <4>3. step[<<k, f[k - 1]>>] = f[k - 1] + Cardinality(L[k])
        BY <4>1, <4>2 DEF step
      <4> QED BY <3>1, <3>2, <4>3
    <3> QED BY <3>1, <3>2
  <2>3. f = [k \in 0..c |-> f[k]]
    BY <2>1
  <2>4. [k \in 0..c |-> f[k]] = [k \in 0..c |-> IF k = 0 THEN 0 ELSE f[k - 1] + Cardinality(L[k])]
    BY <2>2
  <2> QED BY <2>3, <2>4
<1> DEFINE u == CHOOSE u : Steps(u)
<1>7. Steps(u) /\ Size(L) = u[c]
  <2>1. Size(L) = u[c]
    BY DEF Size, c
  <2> QED BY <1>6, <2>1
<1> HIDE DEF u
<1>8. u[0] = 0 /\ \A k \in 0..c : k + 1 \in 0..c => u[k + 1] = u[k] + Cardinality(L[k + 1])
  <2>1. 0 \in 0..c
    BY <1>2
  <2>2. ASSUME NEW k \in 0..c, k + 1 \in 0..c PROVE u[k + 1] = u[k] + Cardinality(L[k + 1])
    <3>1. k + 1 # 0 /\ (k + 1) - 1 = k
      OBVIOUS
    <3> QED BY <1>7, <2>2, <3>1
  <2> QED BY <1>7, <2>1, <2>2
<1> DEFINE S == {k \in Nat : k <= c => u[k] = Cardinality(Below(k))}
<1>9. \A k : Below(k) \subseteq Vertices(n) /\ IsFiniteSet(Below(k)) /\ Cardinality(Below(k)) \in Nat
  <2>1. \A k : Below(k) \subseteq Vertices(n)
    OBVIOUS
  <2> HIDE DEF Below
  <2> QED BY <1>3, <2>1, FS_Subset, FS_CardinalityType
<1>10. 0 \in S
  <2>1. Below(0) = {}
    OBVIOUS
  <2> HIDE DEF Below
  <2> QED BY <1>8, <2>1, FS_EmptySet
<1>11. ASSUME NEW k \in Nat, k \in S PROVE k + 1 \in S
  <2> SUFFICES ASSUME k + 1 <= c PROVE u[k + 1] = Cardinality(Below(k + 1))
    OBVIOUS
  <2>1. k \in 0..c /\ k + 1 \in 0..c /\ k + 1 \in 1..c /\ k <= c
    BY <1>2
  <2>2. u[k + 1] = Cardinality(Below(k)) + Cardinality(L[k + 1])
    BY <1>8, <1>11, <2>1
  <2>3. Below(k + 1) = Below(k) \cup L[k + 1]
    <3>1. \A j \in 1..k + 1 : j \in 1..k \/ j = k + 1
      BY <2>1
    <3>2. 1..k \subseteq 1..k + 1 /\ k + 1 \in 1..k + 1
      BY <2>1
    <3>3. L[k + 1] \subseteq Vertices(n)
      BY <1>2, <2>1
    <3> QED BY <3>1, <3>2, <3>3
  <2>4. Below(k) \cap L[k + 1] = {}
    <3> SUFFICES ASSUME NEW x \in Below(k), x \in L[k + 1] PROVE FALSE
      OBVIOUS
    <3>1. PICK j \in 1..k : x \in L[j]
      OBVIOUS
    <3>2. j \in DOMAIN L /\ k + 1 \in DOMAIN L /\ j < k + 1
      BY <1>2, <2>1
    <3> QED BY <1>1, <3>1, <3>2 DEF LayersDisjoint
  <2> HIDE DEF Below
  <2>5. Cardinality({}) = 0
    BY FS_EmptySet
  <2>6. PICK p, q \in Nat : p = Cardinality(Below(k)) /\ q = Cardinality(L[k + 1])
    BY <1>4, <1>9, <2>1
  <2>7. Cardinality(Below(k + 1)) = p + q - Cardinality({})
    BY <1>4, <1>9, <2>1, <2>3, <2>4, <2>6, FS_Union
  <2> QED BY <2>2, <2>5, <2>6, <2>7
<1> HIDE DEF S
<1>12. u[c] = Cardinality(Below(c))
  <2>1. c \in S /\ c <= c
    BY <1>2, <1>10, <1>11, NatSet
  <2> QED BY <2>1 DEF S
<1>13. Below(c) = Vertices(n)
  BY <1>2
<1> HIDE DEF Below
<1> QED BY <1>3, <1>7, <1>12, <1>13

(* The layers of a line and of the random graphs: trees that may be left   *)
(* out, and after them one tree a layer.                                   *)
ChainOf(n, m) == [k \in 1..n - m + 1 |-> IF k = 1 THEN Vertices(m) ELSE {m + k - 2}]

(* They are well-formed, and hold every tree.                              *)
LEMMA ChainIsLayered ==
  ASSUME NEW n \in Nat, NEW m \in 1..n
  PROVE  /\ WellLayered(n, ChainOf(n, m))
         /\ \A x \in Vertices(n) : \E k \in DOMAIN ChainOf(n, m) : x \in ChainOf(n, m)[k]
         /\ Len(ChainOf(n, m)) = n - m + 1
<1> DEFINE L == ChainOf(n, m)
           c == n - m + 1
<1>1. c \in Nat /\ 1 \in 1..c
  OBVIOUS
<1>2. \A k \in 1..c : L[k] = IF k = 1 THEN Vertices(m) ELSE {m + k - 2}
  BY DEF ChainOf
<1>3. \A k \in 1..c : k # 1 => m + k - 2 \in Vertices(n) /\ m + k - 2 >= m
  BY DEF Vertices
<1>4. L \in [1..c -> SUBSET Vertices(n)]
  <2>1. Vertices(m) \subseteq Vertices(n)
    BY DEF Vertices
  <2>2. L = [k \in 1..c |-> IF k = 1 THEN Vertices(m) ELSE {m + k - 2}]
    BY DEF ChainOf
  <2>3. \A k \in 1..c : (IF k = 1 THEN Vertices(m) ELSE {m + k - 2}) \in SUBSET Vertices(n)
    BY <1>3, <2>1
  <2> HIDE DEF L, c
  <2> QED BY <2>2, <2>3
<1> HIDE DEF L
<1>5. L \in Seq(SUBSET Vertices(n)) /\ Len(L) = c /\ DOMAIN L = 1..c
  <2> HIDE DEF c
  <2> QED BY <1>1, <1>4, FunctionIsSequence
<1>6. \A k \in DOMAIN L : L[k] # {}
  <2>1. 0 \in Vertices(m)
    BY DEF Vertices
  <2> QED BY <1>2, <1>5, <2>1
<1>7. ASSUME NEW i \in 1..c, NEW j \in 1..c, i < j PROVE L[i] \cap L[j] = {}
  <2>0. j # 1 /\ i \in Int /\ j \in Int
    BY <1>7
  <2>1. L[j] = {m + j - 2} /\ m + j - 2 >= m
    <3> HIDE DEF c
    <3> QED BY <1>2, <1>3, <2>0
  <2>2. CASE i = 1
    <3>1. m + j - 2 \notin Vertices(m)
      BY <2>0, <2>1 DEF Vertices
    <3>2. L[i] = Vertices(m)
      <4> HIDE DEF c
      <4> QED BY <1>2, <2>2
    <3> QED BY <2>1, <3>1, <3>2
  <2>3. CASE i # 1
    <3>1. m + i - 2 # m + j - 2
      BY <1>7, <2>0
    <3>2. L[i] = {m + i - 2}
      <4> HIDE DEF c
      <4> QED BY <1>2, <2>3
    <3> QED BY <2>1, <3>1, <3>2
  <2> QED BY <2>2, <2>3
<1>8. WellLayered(n, L)
  BY <1>5, <1>6, <1>7 DEF WellLayered, LayersDisjoint
<1>9. ASSUME NEW x \in Vertices(n) PROVE \E k \in DOMAIN L : x \in L[k]
  <2>1. CASE x < m
    <3>0. x \in Vertices(m)
      BY <2>1 DEF Vertices
    <3>1. x \in L[1]
      <4> HIDE DEF c
      <4> QED BY <1>1, <1>2, <3>0
    <3> QED BY <1>1, <1>5, <3>1
  <2>2. CASE ~(x < m)
    <3>1. x - m + 2 \in 1..c /\ x - m + 2 # 1 /\ m + (x - m + 2) - 2 = x
      BY <2>2 DEF Vertices
    <3>2. x \in L[x - m + 2]
      BY <1>2, <3>1
    <3> QED BY <1>5, <3>1, <3>2
  <2> QED BY <2>1, <2>2
<1> QED BY <1>5, <1>8, <1>9 DEF L

(* A graph in which the trees that may be left out lead to the next tree   *)
(* and that to the next has these layers.                                  *)
LEMMA ChainLayers ==
  ASSUME NEW n \in Nat, NEW g \in Graphs(n), NEW m \in 1..n,
         \A y, x : <<y, x>> \in g /\ y \in Vertices(m) /\ x \notin Vertices(m) => x = m,
         \A y, x : <<y, x>> \in g /\ y >= m => x = y + 1,
         \A x \in m - 1..n - 2 : <<x, x + 1>> \in g
  PROVE  Layers(g, n, Vertices(m)) = ChainOf(n, m)
<1>0. Vertices(m) \in SUBSET Vertices(n)
  BY DEF Vertices
<1>1. PICK w : /\ LayerSteps(g, n, Vertices(m), w)
               /\ Layers(g, n, Vertices(m))
                    = [k \in 1..Cardinality({i \in 0..n : w[i] # {}}) |-> w[k - 1]]
  BY <1>0, LayersBySteps
<1>2. /\ w[0] = Vertices(m)
      /\ \A k \in 0..n : w[k] \subseteq Vertices(n)
      /\ \A k \in 0..(n - 1) : \A x :
           x \in w[k + 1] <=> x \notin w[k] /\ \E y \in w[k] : <<y, x>> \in g
  BY <1>0, <1>1, LayerIs
<1> DEFINE Is(k) == w[k] = IF m + k - 1 < n THEN {m + k - 1} ELSE {}
           S == {k \in Nat : k + 1 <= n => Is(k + 1)}
<1>3. ASSUME NEW k \in 0..(n - 1), k = 0 \/ (k > 0 /\ Is(k)) PROVE Is(k + 1)
  <2>0. m + (k + 1) - 1 = m + k /\ k + 1 \in 0..n
    OBVIOUS
  <2>1. ASSUME NEW x \in w[k + 1] PROVE x = m + k /\ m + k < n
    <3>1. PICK y \in w[k] : <<y, x>> \in g /\ x \notin w[k]
      BY <1>2
    <3>2. x \in Vertices(n)
      BY <1>2, <2>0
    <3>3. CASE k = 0
      <4>1. y \in Vertices(m) /\ x \notin Vertices(m)
        BY <1>2, <3>1, <3>3
      <4>2. x = m
        BY <3>1, <4>1
      <4> QED BY <3>2, <3>3, <4>2 DEF Vertices
    <3>4. CASE k > 0 /\ Is(k)
      <4>1. y = m + k - 1 /\ y >= m
        BY <3>1, <3>4
      <4>2. x = m + k
        BY <3>1, <4>1
      <4> QED BY <3>2, <4>2 DEF Vertices
    <3> QED BY <1>3, <3>3, <3>4
  <2>2. ASSUME m + k < n PROVE m + k \in w[k + 1]
    <3>1. m + k - 1 \in m - 1..n - 2 /\ (m + k - 1) + 1 = m + k
      BY <2>2
    <3>2. <<m + k - 1, m + k>> \in g
      BY <3>1
    <3>3. CASE k = 0
      <4>1. m + k - 1 \in w[k] /\ m + k \notin w[k]
        BY <1>2, <3>3 DEF Vertices
      <4> QED BY <1>2, <3>2, <4>1
    <3>4. CASE k > 0 /\ Is(k)
      <4>1. w[k] = {m + k - 1}
        BY <2>2, <3>4
      <4>2. m + k - 1 \in w[k] /\ m + k \notin w[k]
        BY <4>1
      <4> QED BY <1>2, <3>2, <4>2
    <3> QED BY <1>3, <3>3, <3>4
  <2>3. CASE m + k < n
    <3>1. w[k + 1] = {m + k}
      BY <2>1, <2>2, <2>3
    <3> QED BY <2>0, <2>3, <3>1
  <2>4. CASE ~(m + k < n)
    <3>1. w[k + 1] = {}
      BY <2>1, <2>4
    <3> QED BY <2>0, <2>4, <3>1
  <2> QED BY <2>3, <2>4
<1>4. 0 \in S
  <2> SUFFICES ASSUME 0 + 1 <= n PROVE Is(0 + 1)
    OBVIOUS
  <2>1. 0 \in 0..(n - 1)
    OBVIOUS
  <2> HIDE DEF Is
  <2> QED BY <1>3, <2>1
<1>5. ASSUME NEW k \in Nat, k \in S PROVE k + 1 \in S
  <2> SUFFICES ASSUME (k + 1) + 1 <= n PROVE Is((k + 1) + 1)
    OBVIOUS
  <2>1. k + 1 \in 0..(n - 1) /\ k + 1 > 0 /\ k + 1 <= n
    OBVIOUS
  <2>2. Is(k + 1)
    BY <1>5, <2>1
  <2> HIDE DEF Is
  <2> QED BY <1>3, <2>1, <2>2
<1>6. \A k \in 1..n : Is(k)
  <2> HIDE DEF Is
  <2>1. Nat \subseteq S
    <3> HIDE DEF S
    <3> QED BY <1>4, <1>5, NatSet
  <2> SUFFICES ASSUME NEW k \in 1..n PROVE Is(k)
    OBVIOUS
  <2>2. k - 1 \in Nat /\ (k - 1) + 1 = k /\ k <= n
    OBVIOUS
  <2>3. k - 1 \in S
    BY <2>1, <2>2
  <2> QED BY <2>2, <2>3
<1>7. {i \in 0..n : w[i] # {}} = 0..n - m
  <2>1. ASSUME NEW i \in 0..n PROVE w[i] # {} <=> i <= n - m
    <3>1. CASE i = 0
      <4>1. 0 \in w[0]
        BY <1>2 DEF Vertices
      <4> QED BY <3>1, <4>1
    <3>2. CASE i # 0
      <4>1. i \in 1..n /\ (m + i - 1 < n <=> i <= n - m)
        BY <3>2
      <4>2. w[i] = IF m + i - 1 < n THEN {m + i - 1} ELSE {}
        BY <1>6, <4>1
      <4> QED BY <4>1, <4>2
    <3> QED BY <3>1, <3>2
  <2> QED BY <2>1
<1>8. Cardinality(0..n - m) = n - m + 1
  BY FS_Interval
<1>9. ASSUME NEW k \in 1..n - m + 1
      PROVE  w[k - 1] = IF k = 1 THEN Vertices(m) ELSE {m + k - 2}
  <2>1. CASE k = 1
    BY <1>2, <2>1
  <2>2. CASE k # 1
    <3>1. k - 1 \in 1..n /\ m + (k - 1) - 1 = m + k - 2 /\ m + k - 2 < n
      BY <2>2
    <3> QED BY <1>6, <2>2, <3>1
  <2> QED BY <2>1, <2>2
<1>10. Layers(g, n, Vertices(m)) = [k \in 1..n - m + 1 |-> w[k - 1]]
  BY <1>1, <1>7, <1>8
<1>11. [k \in 1..n - m + 1 |-> w[k - 1]]
         = [k \in 1..n - m + 1 |-> IF k = 1 THEN Vertices(m) ELSE {m + k - 2}]
  <2> HIDE DEF Is, S
  <2> QED BY <1>9
<1> QED BY <1>10, <1>11 DEF ChainOf

-----------------------------------------------------------------------------
(* No assertion fails: the layers hold every tree once.                    *)

HoldsAll(n, L) == \A x \in Vertices(n) : \E k \in DOMAIN L : x \in L[k]

(* The layers of a layered graph are those that its trees were put in.     *)
LEMMA LayeredLayers ==
  ASSUME NEW type \in Layered, NEW n \in Nat \ {0}, NEW l1width \in Nat \ {0}, NEW self_layer
  PROVE  LET L == Layers(LayeredDag(type, n, l1width, self_layer), n, LayeredFirst(type, n, l1width))
         IN  WellLayered(n, L) /\ HoldsAll(n, L)
<1> DEFINE g == LayeredDag(type, n, l1width, self_layer)
           top == LayeredFirst(type, n, l1width)
           M == LayersOf(type, n, l1width)
           L == Layers(g, n, top)
<1>1. g \in Graphs(n) /\ top \in SUBSET Vertices(n) /\ n \in Nat
  BY LayeredInRange
<1>2. PICK m \in 1..n :
        /\ M \in [1..m -> SUBSET Vertices(n)]
        /\ \A x \in Vertices(n) : \E k \in 1..m : x \in M[k]
        /\ \A k \in 1..m : M[k] # {}
        /\ \A i, j \in 1..m : i < j => M[i] \cap M[j] = {}
  BY LayersOfInRange
<1>3. PICK w : /\ LayerSteps(g, n, top, w)
               /\ L = [k \in 1..Cardinality({i \in 0..n : w[i] # {}}) |-> w[k - 1]]
  <2> HIDE DEF g, top
  <2> QED BY <1>1, LayersBySteps, ZenonT(30)
<1>4. \A k \in 0..n : w[k] = IF k < m THEN M[k + 1] ELSE {}
  BY <1>2, <1>3, LayeredSteps
<1> HIDE DEF g, top, M, L
<1>5. {i \in 0..n : w[i] # {}} = 0..(m - 1)
  <2>1. ASSUME NEW k \in 0..n, k < m PROVE w[k] # {}
    <3>1. k + 1 \in 1..m
      BY <2>1
    <3> QED BY <1>2, <1>4, <2>1, <3>1
  <2>2. ASSUME NEW k \in 0..n, ~(k < m) PROVE w[k] = {}
    BY <1>4, <2>2
  <2>3. 0..(m - 1) \subseteq 0..n
    OBVIOUS
  <2>4. \A k \in 0..n : k < m <=> k \in 0..(m - 1)
    OBVIOUS
  <2> QED BY <2>1, <2>2, <2>3, <2>4
<1>6. Cardinality(0..(m - 1)) = m
  BY FS_Interval
<1>7. L = [k \in 1..m |-> w[k - 1]]
  BY <1>3, <1>5, <1>6
<1>8. \A k \in 1..m : w[k - 1] = M[k]
  <2> SUFFICES ASSUME NEW k \in 1..m PROVE w[k - 1] = M[k]
    OBVIOUS
  <2>1. k - 1 \in 0..n /\ k - 1 < m /\ (k - 1) + 1 = k
    OBVIOUS
  <2> QED BY <1>4, <2>1
<1>9. L \in [1..m -> SUBSET Vertices(n)] /\ \A k \in 1..m : L[k] = M[k]
  BY <1>2, <1>7, <1>8
<1>10. DOMAIN L = 1..m /\ L \in Seq(SUBSET Vertices(n))
  BY <1>9, FunctionIsSequence
<1>11. WellLayered(n, L)
  BY <1>2, <1>9, <1>10 DEF WellLayered, LayersDisjoint
<1>12. HoldsAll(n, L)
  BY <1>2, <1>9, <1>10 DEF HoldsAll
<1> QED BY <1>11, <1>12 DEF L, g, top

(* The layers of a line: the trees it begins with, and then one a layer.   *)
LEMMA LineLayers ==
  ASSUME NEW n \in Nat \ {0}, NEW m \in 1..n
  PROVE  Layers(Line(n), n, Vertices(m)) = ChainOf(n, m)
<1>1. \A y, x : <<y, x>> \in Line(n) => y \in Int /\ x = y + 1
  BY DEF Line
<1>2. \A y, x : <<y, x>> \in Line(n) /\ y \in Vertices(m) /\ x \notin Vertices(m) => x = m
  BY <1>1 DEF Vertices
<1>3. \A x \in m - 1..n - 2 : <<x, x + 1>> \in Line(n)
  <2>1. \A x \in m - 1..n - 2 : x \in 0..n - 2
    OBVIOUS
  <2> QED BY <2>1 DEF Line
<1>4. \A y, x : <<y, x>> \in Line(n) /\ y >= m => x = y + 1
  BY <1>1
<1> QED BY <1>2, <1>3, <1>4, LineInRange, ChainLayers

(* Without arcs there is one layer.                                        *)
LEMMA NoresLayers ==
  ASSUME NEW n \in Nat \ {0}
  PROVE  Layers({}, n, Vertices(n)) = ChainOf(n, n)
<1>1. n \in 1..n /\ {} \in Graphs(n) /\ n - 1..n - 2 = {}
  BY DEF Graphs
<1> QED BY <1>1, ChainLayers

(* Those of the random graphs: the trees that are connected at random, and *)
(* then one a layer.                                                       *)
LEMMA RandomLayers ==
  ASSUME NEW n \in Nat, NEW r \in Int, 0 <= r, r < n, NEW h \in SUBSET Complete(n - r),
         h \cup ResilienceArcs(n, r) \in Graphs(n)
  PROVE  Layers(h \cup ResilienceArcs(n, r), n, Vertices(n - r)) = ChainOf(n, n - r)
<1> DEFINE m == n - r
           g == h \cup ResilienceArcs(n, r)
<1>1. m \in 1..n /\ g \in Graphs(n) /\ n - r = m
  OBVIOUS
<1>2. \A y, x : <<y, x>> \in h => y \in Vertices(m) /\ x \in Vertices(m)
  BY DEF Complete
<1>3. \A y, x : <<y, x>> \in ResilienceArcs(n, r) =>
        y \in Int /\ ((y < m /\ x = m) \/ (y >= m /\ x = y + 1))
  <2> SUFFICES ASSUME NEW y, NEW x, <<y, x>> \in ResilienceArcs(n, r)
               PROVE  y \in Int /\ ((y < m /\ x = m) \/ (y >= m /\ x = y + 1))
    OBVIOUS
  <2>2. \/ \E i \in 0..n - r - 1 : <<y, x>> = <<i, n - r>>
        \/ \E i \in n - r..n - 2 : <<y, x>> = <<i, i + 1>>
    BY DEF ResilienceArcs
  <2>3. CASE \E i \in 0..n - r - 1 : <<y, x>> = <<i, n - r>>
    <3>1. PICK i \in 0..n - r - 1 : y = i /\ x = n - r
      BY <2>3
    <3>2. i < n - r
      OBVIOUS
    <3> QED BY <3>1, <3>2
  <2>4. CASE \E i \in n - r..n - 2 : <<y, x>> = <<i, i + 1>>
    <3>1. PICK i \in n - r..n - 2 : y = i /\ x = i + 1
      BY <2>4
    <3> QED BY <1>1, <3>1
  <2> QED BY <2>2, <2>3, <2>4
<1>4. \A x \in m - 1..n - 2 : <<x, x + 1>> \in ResilienceArcs(n, r)
  <2> SUFFICES ASSUME NEW x \in m - 1..n - 2 PROVE <<x, x + 1>> \in ResilienceArcs(n, r)
    OBVIOUS
  <2>1. r # 0
    OBVIOUS
  <2>2. CASE x = m - 1
    <3>1. x \in 0..n - r - 1 /\ x + 1 = n - r
      BY <2>2
    <3> QED BY <2>1, <3>1 DEF ResilienceArcs
  <2>3. CASE x # m - 1
    <3>1. x \in n - r..n - 2
      BY <2>3
    <3> QED BY <2>1, <3>1 DEF ResilienceArcs
  <2> QED BY <2>2, <2>3
<1> HIDE DEF m
<1>5. \A y, x : <<y, x>> \in g /\ y \in Vertices(m) /\ x \notin Vertices(m) => x = m
  BY <1>1, <1>2, <1>3 DEF Vertices
<1>6. \A y, x : <<y, x>> \in g /\ y >= m => x = y + 1
  <2> SUFFICES ASSUME NEW y, NEW x, <<y, x>> \in g, y >= m PROVE x = y + 1
    OBVIOUS
  <2>1. y \notin Vertices(m)
    BY <1>1 DEF Vertices
  <2>2. <<y, x>> \in ResilienceArcs(n, r)
    BY <1>2, <2>1
  <2> QED BY <1>1, <1>3, <2>2
<1>7. \A x \in m - 1..n - 2 : <<x, x + 1>> \in g
  BY <1>4
<1> HIDE DEF g
<1>8. Layers(g, n, Vertices(m)) = ChainOf(n, m)
  BY <1>1, <1>5, <1>6, <1>7, ChainLayers
<1> QED BY <1>1, <1>8 DEF g

-----------------------------------------------------------------------------
(* No assertion fails: the trees that are kept.                            *)

(* The first k trees of an order are k.                                    *)
LEMMA FirstTrees ==
  ASSUME NEW n \in Nat, NEW s \in [1..n -> Vertices(n)],
         \A i, j \in 1..n : i < j => s[i] # s[j],
         NEW k \in 0..n
  PROVE  IsFiniteSet({s[i] : i \in 1..k}) /\ Cardinality({s[i] : i \in 1..k}) = k
<1> DEFINE To(m) == {s[i] : i \in 1..m}
           S == {m \in Nat : m <= n => IsFiniteSet(To(m)) /\ Cardinality(To(m)) = m}
<1>1. 0 \in S
  <2>1. To(0) = {}
    OBVIOUS
  <2> HIDE DEF To
  <2> QED BY <2>1, FS_EmptySet
<1>2. ASSUME NEW m \in Nat, m \in S PROVE m + 1 \in S
  <2> SUFFICES ASSUME m + 1 <= n PROVE IsFiniteSet(To(m + 1)) /\ Cardinality(To(m + 1)) = m + 1
    OBVIOUS
  <2>1. To(m + 1) = To(m) \cup {s[m + 1]}
    <3>1. 1..m + 1 = (1..m) \cup {m + 1}
      OBVIOUS
    <3> QED BY <3>1
  <2>2. s[m + 1] \notin To(m)
    <3>1. \A i \in 1..m : i \in 1..n /\ m + 1 \in 1..n /\ i < m + 1
      OBVIOUS
    <3> QED BY <3>1
  <2>3. IsFiniteSet(To(m)) /\ Cardinality(To(m)) = m
    BY <1>2
  <2> HIDE DEF To
  <2> QED BY <2>1, <2>2, <2>3, FS_AddElement
<1> HIDE DEF S
<1>3. k \in S
  BY <1>1, <1>2, NatSet
<1> QED BY <1>3 DEF S

(* So an order of all trees has every tree.                                *)
LEMMA EveryTreeOrdered ==
  ASSUME NEW n \in Nat, NEW s \in [1..n -> Vertices(n)],
         \A i, j \in 1..n : i < j => s[i] # s[j]
  PROVE  {s[i] : i \in 1..n} = Vertices(n)
<1>1. IsFiniteSet(0..n - 1) /\ Cardinality(0..n - 1) = n
  BY FS_Interval
<1>2. {s[i] : i \in 1..n} \in SUBSET Vertices(n)
  OBVIOUS
<1>3. Cardinality({s[i] : i \in 1..n}) = n
  <2>1. n \in 0..n
    OBVIOUS
  <2> QED BY <2>1, FirstTrees
<1> QED BY <1>1, <1>2, <1>3, FS_Subset DEF Vertices

(* What an exchange keeps: all the trees so far that are not in the first  *)
(* layer are kept, unless so few of that layer are.                        *)
TopHas(L1, num_trees, maxl1, s, k, top) ==
  /\ top \subseteq {s[i] : i \in 1..k}
  /\ IsFiniteSet(top) /\ Cardinality(top) = num_trees
  /\ \/ ~(Cardinality(top \cap L1) > maxl1)
     \/ \A i \in 1..k : s[i] \notin L1 => s[i] \in top

(* It is kept.                                                             *)
LEMMA SwappedHas ==
  ASSUME NEW n \in Nat, NEW s \in [1..n -> Vertices(n)],
         \A i, j \in 1..n : i < j => s[i] # s[j],
         NEW L, NEW dist, NEW num_trees \in Nat, NEW maxl1, NEW k \in 1..n,
         NEW top, TopHas(L[1], num_trees, maxl1, s, k - 1, top),
         NEW next \in SwappedFor(L, dist, maxl1, top, s[k])
  PROVE  TopHas(L[1], num_trees, maxl1, s, k, next)
<1> DEFINE L1 == L[1]
<1>1. 1..k = (1..k - 1) \cup {k}
  OBVIOUS
<1>2. /\ top \subseteq {s[i] : i \in 1..k - 1}
      /\ IsFiniteSet(top) /\ Cardinality(top) = num_trees
      /\ \/ ~(Cardinality(top \cap L1) > maxl1)
         \/ \A i \in 1..k - 1 : s[i] \notin L1 => s[i] \in top
  BY DEF TopHas
<1>3. s[k] \notin top
  <2>1. \A i \in 1..k - 1 : i \in 1..n /\ i < k
    OBVIOUS
  <2> QED BY <1>2, <2>1
<1>4. CASE Cardinality(top \cap L1) > maxl1 /\ s[k] \notin L1
  <2>1. PICK bad \in top \cap L1 : next = (top \ {bad}) \cup {s[k]}
    BY <1>4 DEF SwappedFor
  <2>2. IsFiniteSet(top \ {bad}) /\ Cardinality(top \ {bad}) = num_trees - 1
    BY <1>2, FS_RemoveElement
  <2>3. IsFiniteSet(next) /\ Cardinality(next) = num_trees
    <3> DEFINE less == top \ {bad}
    <3>1. s[k] \notin less /\ next = less \cup {s[k]}
      BY <1>3, <2>1
    <3>2. IsFiniteSet(less) /\ Cardinality(less) = num_trees - 1
      BY <2>2
    <3> HIDE DEF less
    <3>3. IsFiniteSet(next) /\ Cardinality(next) = Cardinality(less) + 1
      BY <3>1, <3>2, FS_AddElement
    <3> QED BY <3>2, <3>3
  <2>4. next \subseteq {s[i] : i \in 1..k}
    BY <1>1, <1>2, <2>1
  <2>5. \A i \in 1..k : s[i] \notin L1 => s[i] \in next
    BY <1>1, <1>2, <1>4, <2>1
  <2> QED BY <2>3, <2>4, <2>5 DEF TopHas
<1>5. CASE ~(Cardinality(top \cap L1) > maxl1 /\ s[k] \notin L1)
  <2>1. next = top
    BY <1>5 DEF SwappedFor
  <2>2. top \subseteq {s[i] : i \in 1..k}
    BY <1>1, <1>2
  <2>3. \/ ~(Cardinality(top \cap L1) > maxl1)
        \/ \A i \in 1..k : s[i] \notin L1 => s[i] \in top
    BY <1>1, <1>2, <1>5
  <2> QED BY <1>2, <2>1, <2>2, <2>3 DEF TopHas
<1> QED BY <1>4, <1>5

(* As many trees are kept as are asked for, and not too many of the first  *)
(* layer while others are left.                                            *)
LEMMA TopTreesHave ==
  ASSUME NEW n \in Nat, NEW num_trees \in Nat \ {0}, num_trees <= n,
         NEW L, NEW dist, NEW maxl1,
         NEW top \in TopTrees(L, n, dist, num_trees, maxl1)
  PROVE  /\ top \subseteq Vertices(n) /\ IsFiniteSet(top) /\ Cardinality(top) = num_trees
         /\ \/ ~(Cardinality(top \cap L[1]) > maxl1)
            \/ \A x \in Vertices(n) : x \notin L[1] => x \in top
<1>7. PICK s \in ByDistance(L, n, dist) :
         \E w : TopsSteps(L, n, dist, num_trees, maxl1, s, w) /\ top \in w[n]
  BY TopTreesFromSteps
<1>8. PICK w : TopsSteps(L, n, dist, num_trees, maxl1, s, w) /\ top \in w[n]
  BY <1>7
<1>2. s \in [1..n -> Vertices(n)] /\ \A i, j \in 1..n : i < j => s[i] # s[j]
  BY DEF ByDistance
<1>9. w = [k \in num_trees..n |->
            IF k = num_trees THEN {{s[i] : i \in 1..k}}
            ELSE UNION {SwappedFor(L, dist, maxl1, x, s[k]) : x \in w[k - 1]}]
  BY <1>8 DEF TopsSteps
<1> DEFINE Has(k) == \A x \in w[k] : TopHas(L[1], num_trees, maxl1, s, k, x)
           S == {m \in Nat : num_trees + m <= n => Has(num_trees + m)}
<1>10. 0 \in S
  <2>1. num_trees \in num_trees..n /\ num_trees + 0 = num_trees /\ num_trees \in 0..n
    OBVIOUS
  <2>2. w[num_trees] = {{s[i] : i \in 1..num_trees}}
    BY <1>9, <2>1
  <2>3. /\ IsFiniteSet({s[i] : i \in 1..num_trees})
        /\ Cardinality({s[i] : i \in 1..num_trees}) = num_trees
    BY <1>2, <2>1, FirstTrees, ZenonT(30)
  <2>4. TopHas(L[1], num_trees, maxl1, s, num_trees, {s[i] : i \in 1..num_trees})
    BY <2>3 DEF TopHas
  <2>5. Has(num_trees)
    BY <2>2, <2>4
  <2> HIDE DEF Has
  <2> QED BY <2>1, <2>5
<1>11. ASSUME NEW m \in Nat, m \in S PROVE m + 1 \in S
  <2> SUFFICES ASSUME num_trees + (m + 1) <= n PROVE Has(num_trees + (m + 1))
    OBVIOUS
  <2> DEFINE k == num_trees + (m + 1)
  <2>1. k \in num_trees..n /\ k # num_trees /\ k - 1 = num_trees + m /\ num_trees + m <= n /\ k \in 1..n
    OBVIOUS
  <2>0. Has(num_trees + m)
    BY <1>11, <2>1
  <2> HIDE DEF k
  <2>2. w[k] = UNION {SwappedFor(L, dist, maxl1, x, s[k]) : x \in w[k - 1]}
    BY <1>9, <2>1
  <2>3. \A x \in w[k - 1] : TopHas(L[1], num_trees, maxl1, s, k - 1, x)
    BY <2>0, <2>1
  <2>4. ASSUME NEW next \in w[k] PROVE TopHas(L[1], num_trees, maxl1, s, k, next)
    <3>1. PICK x \in w[k - 1] : next \in SwappedFor(L, dist, maxl1, x, s[k])
      BY <2>2
    <3>2. TopHas(L[1], num_trees, maxl1, s, k - 1, x)
      BY <2>3
    <3> QED BY <1>2, <2>1, <3>1, <3>2, SwappedHas
  <2> QED BY <2>4 DEF k
<1> HIDE DEF S
<1>12. n - num_trees \in Nat /\ num_trees + (n - num_trees) = n
  OBVIOUS
<1>13. n - num_trees \in S
  BY <1>10, <1>11, <1>12, NatSet
<1>14. Has(n)
  <2> HIDE DEF Has
  <2> QED BY <1>12, <1>13 DEF S
<1>15. TopHas(L[1], num_trees, maxl1, s, n, top)
  BY <1>8, <1>14
<1>16. {s[i] : i \in 1..n} = Vertices(n)
  BY <1>2, EveryTreeOrdered
<1>17. \A x \in Vertices(n) : \E i \in 1..n : x = s[i]
  BY <1>16
<1> QED BY <1>15, <1>16, <1>17 DEF TopHas

(* For the random graphs these are all the trees that the resilience rests *)
(* on, and as many of the others as that leaves.                           *)
LEMMA RandomTopTrees ==
  ASSUME NEW n \in Nat, NEW m \in 1..n, NEW num_trees \in Nat \ {0}, num_trees <= n,
         NEW L, L[1] = Vertices(m), NEW dist,
         NEW top \in TopTrees(L, n, dist, num_trees, num_trees - (n - m))
  PROVE  /\ \A x \in m..n - 1 : x \in top
         /\ Cardinality(Vertices(m) \cap top) = num_trees - (n - m)
<1> DEFINE rest == m..n - 1
           a == top \cap Vertices(m)
           b == top \cap rest
<1>1. /\ top \subseteq Vertices(n) /\ IsFiniteSet(top) /\ Cardinality(top) = num_trees
      /\ \/ ~(Cardinality(a) > num_trees - (n - m))
         \/ \A x \in Vertices(n) : x \notin Vertices(m) => x \in top
  <2> DEFINE maxl1 == num_trees - (n - m)
  <2>1. top \in TopTrees(L, n, dist, num_trees, maxl1)
    OBVIOUS
  <2> HIDE DEF maxl1
  <2>2. /\ top \subseteq Vertices(n) /\ IsFiniteSet(top) /\ Cardinality(top) = num_trees
        /\ \/ ~(Cardinality(top \cap L[1]) > maxl1)
           \/ \A x \in Vertices(n) : x \notin L[1] => x \in top
    BY <2>1, TopTreesHave
  <2> QED BY <2>2 DEF maxl1
<1>2. IsFiniteSet(rest) /\ Cardinality(rest) = n - m
  <2>1. m \in Int /\ n - 1 \in Int
    OBVIOUS
  <2>2. IsFiniteSet(rest) /\ Cardinality(rest) = IF m > n - 1 THEN 0 ELSE (n - 1) - m + 1
    BY <2>1, FS_Interval
  <2> QED BY <2>2
<1>3. Vertices(n) = Vertices(m) \cup rest /\ Vertices(m) \cap rest = {} /\ rest \subseteq Vertices(n)
  BY DEF Vertices
<1> HIDE DEF rest
<1>4. top = a \cup b /\ a \cap b = {} /\ a \in SUBSET top /\ b \in SUBSET top /\ b \in SUBSET rest
  BY <1>1, <1>3
<1> HIDE DEF a, b
<1>5. /\ IsFiniteSet(a) /\ IsFiniteSet(b)
      /\ Cardinality(a) \in Nat /\ Cardinality(b) \in Nat
      /\ Cardinality(b) <= Cardinality(rest) /\ (Cardinality(rest) = Cardinality(b) => rest = b)
  BY <1>1, <1>2, <1>4, FS_Subset, FS_CardinalityType
<1>6. num_trees = Cardinality(a) + Cardinality(b)
  <2>1. Cardinality({}) = 0
    BY FS_EmptySet
  <2>2. Cardinality(a \cup b) = Cardinality(a) + Cardinality(b) - Cardinality(a \cap b)
    BY <1>5, FS_Union
  <2> QED BY <1>1, <1>4, <1>5, <2>1, <2>2
<1>7. rest = b
  <2>1. CASE ~(Cardinality(a) > num_trees - (n - m))
    <3>1. Cardinality(b) = n - m
      BY <1>2, <1>5, <1>6, <2>1
    <3> QED BY <1>2, <1>5, <3>1
  <2>2. CASE \A x \in Vertices(n) : x \notin Vertices(m) => x \in top
    <3>1. rest \subseteq top
      BY <1>3, <2>2
    <3> QED BY <1>4, <3>1 DEF b
  <2> QED BY <1>1, <2>1, <2>2
<1>8. Cardinality(a) = num_trees - (n - m)
  BY <1>2, <1>5, <1>6, <1>7
<1>9. Vertices(m) \cap top = a
  BY DEF a
<1>10. rest \subseteq top
  BY <1>4, <1>7
<1> QED BY <1>8, <1>9, <1>10 DEF rest

-----------------------------------------------------------------------------
(* No assertion fails: the layers that are left.                           *)

(* The k-th of the first numbers is k.                                     *)
LEMMA NthOfFirst ==
  ASSUME NEW c \in Nat, NEW k \in 1..c
  PROVE  Nth(1..c, k) = k
<1> DEFINE S == 1..c
           x == Nth(S, k)
<1>1. S \in SUBSET Nat /\ IsFiniteSet(S) /\ Cardinality(S) = c
  BY FS_Interval
<1>2. x \in S /\ Cardinality({y \in S : y <= x}) = k
  <2> HIDE DEF S
  <2> QED BY <1>1, NthIsOne
<1> HIDE DEF x
<1>3. x \in 1..c /\ x \in Nat
  BY <1>2
<1>4. {y \in S : y <= x} = 1..x
  BY <1>3
<1>5. Cardinality(1..x) = x
  BY <1>3, FS_Interval
<1> QED BY <1>2, <1>4, <1>5 DEF x

(* The layers with a tree that is kept are some of the layers.             *)
LEMMA SomeLayers ==
  ASSUME NEW S, NEW L \in Seq(S), NEW top
  PROVE  LET some == {k \in DOMAIN L : L[k] \cap top # {}}
         IN  some \in SUBSET Nat /\ some \subseteq 1..Len(L) /\ IsFiniteSet(some) /\ Cardinality(some) \in Nat
<1> DEFINE some == {k \in DOMAIN L : L[k] \cap top # {}}
<1>1. DOMAIN L = 1..Len(L) /\ Len(L) \in Nat
  OBVIOUS
<1>2. some \in SUBSET (1..Len(L)) /\ 1..Len(L) \subseteq Nat
  BY <1>1
<1>3. IsFiniteSet(1..Len(L))
  BY <1>1, FS_Interval
<1> HIDE DEF some
<1>4. IsFiniteSet(some)
  BY <1>2, <1>3, FS_Subset
<1>5. Cardinality(some) \in Nat
  BY <1>4, FS_CardinalityType
<1>6. some \in SUBSET Nat /\ some \subseteq 1..Len(L) /\ IsFiniteSet(some) /\ Cardinality(some) \in Nat
  BY <1>2, <1>4, <1>5
<1> QED BY <1>6 DEF some

(* Some layers are left when some trees are.                               *)
LEMMA SomeAreKept ==
  ASSUME NEW n \in Nat, NEW L, NEW type, WellLayered(n, L), HoldsAll(n, L),
         NEW top \in SUBSET Vertices(n), IsFiniteSet(top), top # {}
  PROVE  Kept(L, top, type) # << >>
<1> DEFINE some == {k \in DOMAIN L : L[k] \cap top # {}}
           c == Cardinality(some)
           m == Cardinality(top)
           nlayers == [k \in 1..c |-> L[Nth(some, k)] \cap top]
           byIndex == [k \in 1..m |-> {Nth(top, k)}]
<1>1. Kept(L, top, type) = IF type = "line" /\ Cardinality(nlayers[1]) > 1 THEN byIndex ELSE nlayers
  BY DEF Kept
<1>2. some # {}
  <2>1. PICK x \in top : x \in Vertices(n)
    OBVIOUS
  <2>2. PICK k \in DOMAIN L : x \in L[k]
    BY <2>1 DEF HoldsAll
  <2> QED BY <2>1, <2>2
<1>3. IsFiniteSet(some) /\ c \in Nat
  <2> DEFINE S == SUBSET Vertices(n)
  <2>1. L \in Seq(S)
    BY DEF WellLayered
  <2> HIDE DEF S
  <2>2. IsFiniteSet({k \in DOMAIN L : L[k] \cap top # {}})
          /\ Cardinality({k \in DOMAIN L : L[k] \cap top # {}}) \in Nat
    BY ONLY <2>1, SomeLayers, SMTT(30)
  <2> QED BY <2>2
<1> HIDE DEF some
<1>4. c # 0 /\ m # 0 /\ m \in Nat
  BY <1>2, <1>3, FS_EmptySet, FS_CardinalityType
<1> HIDE DEF c, m
<1>5. 1 \in DOMAIN nlayers /\ 1 \in DOMAIN byIndex
  BY <1>3, <1>4
<1> HIDE DEF nlayers, byIndex
<1>6. DOMAIN << >> = {}
  OBVIOUS
<1>7. 1 \in DOMAIN Kept(L, top, type)
  BY <1>1, <1>5
<1> QED BY <1>6, <1>7

(* What is left of a chain: what top holds of the first layer, and all the *)
(* others.                                                                 *)
ChainKept(n, m, top, K) ==
  /\ Len(K) = n - m + 1
  /\ K[1] = Vertices(m) \cap top
  /\ \A k \in 2..Len(K) : K[k] = {m + k - 2}

(* With all the trees that the resilience rests on, and some of the others,*)
(* the random graphs keep all their layers.                                *)
LEMMA RandomKept ==
  ASSUME NEW n \in Nat, NEW m \in 1..n, NEW top \in SUBSET Vertices(n),
         \A x \in m..n - 1 : x \in top, Vertices(m) \cap top # {},
         NEW type \in {"rand", "maxdag"}, NEW K, K = Kept(ChainOf(n, m), top, type)
  PROVE  ChainKept(n, m, top, K)
<1> DEFINE L == ChainOf(n, m)
           c == n - m + 1
           some == {k \in DOMAIN L : L[k] \cap top # {}}
<1>1. c \in Nat /\ c >= 1
  OBVIOUS
<1>2. DOMAIN L = 1..c /\ L[1] = Vertices(m) /\ \A k \in 2..c : L[k] = {m + k - 2}
  BY DEF ChainOf
<1>3. K = [k \in 1..Cardinality(some) |-> L[Nth(some, k)] \cap top]
  BY DEF Kept
<1> HIDE DEF L
<1>4. some = 1..c
  <2>1. ASSUME NEW k \in 1..c PROVE L[k] \cap top # {}
    <3>1. CASE k = 1
      BY <1>2, <3>1
    <3>2. CASE k # 1
      <4>1. k \in 2..c /\ m + k - 2 \in m..n - 1
        BY <3>2
      <4>2. m + k - 2 \in top /\ L[k] = {m + k - 2}
        BY <1>2, <4>1
      <4> QED BY <4>2
    <3> QED BY <3>1, <3>2
  <2> QED BY <1>2, <2>1
<1>5. Cardinality(1..c) = c
  BY <1>1, FS_Interval
<1>6. K = [k \in 1..c |-> L[Nth(1..c, k)] \cap top]
  BY <1>3, <1>4, <1>5
<1>7. ASSUME NEW k \in 1..c PROVE K[k] = L[k] \cap top
  BY <1>1, <1>6, <1>7, NthOfFirst
<1>8. K \in [1..c -> SUBSET top]
  BY <1>6
<1>9. Len(K) = c
  BY <1>1, <1>8, FunctionIsSequence
<1>10. K[1] = Vertices(m) \cap top
  BY <1>1, <1>2, <1>7
<1>11. ASSUME NEW k \in 2..c PROVE K[k] = {m + k - 2}
  <2>1. k \in 1..c /\ m + k - 2 \in m..n - 1
    BY <1>11
  <2>2. m + k - 2 \in top /\ L[k] = {m + k - 2}
    BY <1>2, <1>11, <2>1
  <2> QED BY <1>7, <2>1, <2>2
<1> QED BY <1>9, <1>10, <1>11 DEF ChainKept

(* A line keeps one tree a layer.                                          *)
LEMMA LineKept ==
  ASSUME NEW n \in Nat, NEW m \in 1..n, NEW top \in SUBSET Vertices(n), IsFiniteSet(top)
  PROVE  \A k \in DOMAIN Kept(ChainOf(n, m), top, "line") :
           Cardinality(Kept(ChainOf(n, m), top, "line")[k]) = 1
<1> DEFINE L == ChainOf(n, m)
           c == n - m + 1
           K == Kept(L, top, "line")
           some == {k \in DOMAIN L : L[k] \cap top # {}}
           d == Cardinality(some)
           nlayers == [k \in 1..d |-> L[Nth(some, k)] \cap top]
           byIndex == [k \in 1..Cardinality(top) |-> {Nth(top, k)}]
<1>1. DOMAIN L = 1..c /\ \A k \in 2..c : L[k] = {m + k - 2}
  BY DEF ChainOf
<1>2. K = IF Cardinality(nlayers[1]) > 1 THEN byIndex ELSE nlayers
  BY DEF Kept
<1>3. some \in SUBSET Nat /\ some \subseteq 1..c /\ IsFiniteSet(some) /\ d \in Nat
  <2>1. L \in Seq(SUBSET Vertices(n)) /\ Len(L) = c
    BY ChainIsLayered DEF WellLayered
  <2> HIDE DEF L
  <2> QED BY <2>1, SomeLayers
<1>4. \A k \in some : L[k] \cap top # {}
  OBVIOUS
<1> HIDE DEF L, some, d, K
<1>5. CASE Cardinality(nlayers[1]) > 1
  <2>1. \A k \in DOMAIN byIndex : \E x : byIndex[k] = {x}
    OBVIOUS
  <2> HIDE DEF byIndex
  <2>2. \A k \in DOMAIN byIndex : Cardinality(byIndex[k]) = 1
    BY <2>1, FS_Singleton
  <2>3. K = byIndex
    BY <1>2, <1>5
  <2> QED BY <2>2, <2>3 DEF K, L
<1>6. CASE ~(Cardinality(nlayers[1]) > 1)
  <2>1. ASSUME NEW k \in 1..d PROVE Cardinality(nlayers[k]) = 1
    <3>1. Nth(some, k) \in some
      BY <1>3, <2>1, NthIsOne DEF d
    <3>2. nlayers[k] = L[Nth(some, k)] \cap top /\ nlayers[k] # {} /\ nlayers[k] \in SUBSET top
      BY <1>4, <2>1, <3>1
    <3>3. IsFiniteSet(nlayers[k])
      <4> HIDE DEF nlayers
      <4> QED BY <3>2, FS_Subset
    <3>4. CASE k = 1
      <4>1. Cardinality(nlayers[1]) \in Nat /\ Cardinality(nlayers[1]) # 0
        <5> HIDE DEF nlayers
        <5> QED BY <3>2, <3>3, <3>4, FS_EmptySet, FS_CardinalityType
      <4> HIDE DEF nlayers
      <4> QED BY <1>6, <3>4, <4>1
    <3>5. CASE k # 1
      <4>1. 1 \in 1..d /\ 1 < k
        BY <1>3, <2>1, <3>5
      <4>2. Nth(some, 1) \in some /\ Nth(some, 1) < Nth(some, k)
        BY <1>3, <2>1, <4>1, NthRises DEF d
      <4> DEFINE x == Nth(some, k)
                 y == Nth(some, 1)
      <4>3. x \in 1..c /\ y \in 1..c /\ y < x
        BY <1>3, <3>1, <4>2
      <4> HIDE DEF x, y
      <4>4. x \in 2..c
        BY <4>3
      <4>5. L[x] = {m + x - 2}
        BY <1>1, <4>4
      <4>6. nlayers[k] = {m + x - 2}
        BY <3>2, <4>5 DEF x
      <4> HIDE DEF nlayers
      <4> QED BY <4>6, FS_Singleton
    <3> QED BY <3>4, <3>5
  <2>2. DOMAIN nlayers = 1..d
    OBVIOUS
  <2> HIDE DEF nlayers
  <2> QED BY <1>2, <1>6, <2>1, <2>2 DEF K, L
<1> QED BY <1>5, <1>6

-----------------------------------------------------------------------------
(* No assertion fails: the invariant.                                      *)

(* What the search for cycles has in hand are vertices of the graph.       *)
SearchInRange ==
  /\ path \in Seq(Vertices(N)) /\ stack \in Seq(Seq(Vertices(N)))
  /\ roots \subseteq Vertices(N) /\ succ \subseteq Vertices(N)

(* While cycles are broken the graph stays connected, and in the end it    *)
(* is acyclic.                                                             *)
StaysConnected ==
  /\ status \in Building => arcs \subseteq Complete(NumL1) /\ WeaklyConnected(arcs, Vertices(NumL1))
  /\ status = "label" => IsDag(arcs, N)

(* The layers that tables are written from: every tree is in one, and they *)
(* are those of the random graphs or of a line.                            *)
ReadyLayers(L) ==
  /\ WellLayered(N, L) /\ HoldsAll(N, L)
  /\ args.type \in {"rand", "maxdag"} => L = ChainOf(N, NumL1)
  /\ args.type = "line" => \E m \in 1..N : L = ChainOf(N, m)

LayersReady == status = "tables" => ReadyLayers(Layers(arcs, N, first))

AInv == AssertsHold /\ SearchInRange /\ StaysConnected /\ LayersReady

(* Initially no graph is built.                                            *)
LEMMA InitAsserts ==
  ASSUME Init
  PROVE  AInv
<1>1. SearchInRange
  BY DEF Init, SearchInRange
<1> QED BY <1>1 DEF Init, AInv, AssertsHold, StaysConnected, LayersReady, Building

(* The trees left over after any order and any exchanges are as wanted.    *)
LEMMA KeptIsAsWanted ==
  ASSUME Chosen, NEW L, ReadyLayers(L), args.num_trees > 0,
         NEW dist, NEW top \in TopTrees(L, N, dist, args.num_trees, MaxL1)
  PROVE  KeptAsWanted(Kept(L, top, args.type))
<1>1. /\ N \in Nat \ {0} /\ args.num_trees \in Nat \ {0} /\ args.num_trees <= N
      /\ args.rand_res \in Int
      /\ args.type \in {"rand", "maxdag"} => 0 <= args.rand_res /\ args.rand_res < N
  BY ForestFacts
<1>2. args.type \in {"rand", "maxdag"} => args.num_trees > args.rand_res
  BY DfrArguments DEF Chosen
<1>3. top \subseteq Vertices(N) /\ IsFiniteSet(top) /\ Cardinality(top) = args.num_trees
  <2> DEFINE n == N  num_trees == args.num_trees  maxl1 == MaxL1
  <2>1. /\ n \in Nat /\ num_trees \in Nat \ {0} /\ num_trees <= n
        /\ top \in TopTrees(L, n, dist, num_trees, maxl1)
    BY <1>1
  <2> HIDE DEF n, num_trees, maxl1
  <2>2. top \subseteq Vertices(n) /\ IsFiniteSet(top) /\ Cardinality(top) = num_trees
    BY <2>1, TopTreesHave
  <2> QED BY <2>2 DEF n, num_trees
<1>4. Kept(L, top, args.type) # << >>
  <2>1. top # {}
    BY <1>1, <1>3, FS_EmptySet
  <2> QED BY <1>1, <1>3, <2>1, SomeAreKept DEF ReadyLayers
<1>5. ASSUME args.type \in {"rand", "maxdag"}
      PROVE  LET K == Kept(L, top, args.type)
             IN  /\ Len(K) = args.rand_res + 1
                 /\ K[1] \subseteq Vertices(NumL1)
                 /\ Cardinality(K[1]) = args.num_trees - args.rand_res
                 /\ \A k \in 2..Len(K) : K[k] = {NumL1 + k - 2}
  <2> DEFINE K == Kept(L, top, args.type)
  <2>1. NumL1 \in 1..N /\ N - NumL1 = args.rand_res /\ N - NumL1 + 1 = args.rand_res + 1
    BY <1>1, <1>5 DEF NumL1
  <2>2. L = ChainOf(N, NumL1)
    BY <1>5 DEF ReadyLayers
  <2>3. L[1] = Vertices(NumL1)
    <3>1. 1 \in 1..N - NumL1 + 1
      BY <1>1, <1>5, <2>1
    <3> QED BY <2>2, <3>1 DEF ChainOf
  <2>4. MaxL1 = args.num_trees - (N - NumL1)
    BY <1>5, <2>1 DEF MaxL1
  <2>5. /\ \A x \in NumL1..N - 1 : x \in top
        /\ Cardinality(Vertices(NumL1) \cap top) = args.num_trees - (N - NumL1)
    BY <1>1, <2>1, <2>3, <2>4, RandomTopTrees
  <2>6. Cardinality(Vertices(NumL1) \cap top) > 0
    BY <1>1, <1>2, <1>5, <2>1, <2>5
  <2>7. Vertices(NumL1) \cap top # {}
    BY <2>6, FS_EmptySet
  <2>8. /\ Len(K) = N - NumL1 + 1
        /\ K[1] = Vertices(NumL1) \cap top
        /\ \A k \in 2..Len(K) : K[k] = {NumL1 + k - 2}
    <3>1. PICK n \in Nat : n = N
      BY <1>1
    <3>2. PICK m \in 1..n : m = NumL1
      BY <2>1, <3>1
    <3>3. PICK type \in {"rand", "maxdag"} : type = args.type
      BY <1>5
    <3>4. top \in SUBSET Vertices(n) /\ (\A x \in m..n - 1 : x \in top) /\ Vertices(m) \cap top # {}
      BY <1>3, <2>5, <2>7, <3>1, <3>2
    <3>5. K = Kept(ChainOf(n, m), top, type)
      BY <2>2, <3>1, <3>2, <3>3, Zenon
    <3> HIDE DEF K
    <3>6. ChainKept(n, m, top, K)
      BY <3>4, <3>5, RandomKept, Zenon
    <3> QED BY <3>1, <3>2, <3>6 DEF ChainKept
  <2> HIDE DEF K
  <2> QED BY <2>1, <2>5, <2>8 DEF K
<1>6. ASSUME args.type = "line"
      PROVE  \A k \in DOMAIN Kept(L, top, args.type) : Cardinality(Kept(L, top, args.type)[k]) = 1
  <2>1. PICK m \in 1..N : L = ChainOf(N, m)
    BY <1>6 DEF ReadyLayers
  <2> QED BY <1>1, <1>3, <1>6, <2>1, LineKept
<1> QED BY <1>4, <1>5, <1>6 DEF KeptAsWanted

(* So no assertion fails when the tables of a destination are written.     *)
LEMMA FwdtableAsserts ==
  ASSUME IInv, AInv, NEW d \in todo, FwdtableDfr(d)
  PROVE  AInv'
<1> DEFINE L == Layers(arcs, N, first)
           dist == Distances(d)
<1>1. Chosen /\ status = "tables" /\ ReadyLayers(L)
  BY DEF IInv, AInv, LayersReady, FwdtableDfr
<1>2. N \in Nat \ {0} /\ args.num_trees \in Int /\ args.num_trees # 0
  BY <1>1, ForestFacts
<1>3. LayersDisjoint(L) /\ Size(L) = N
  <2> HIDE DEF L
  <2> QED BY <1>1, <1>2, SizeCounts DEF ReadyLayers, WellLayered, HoldsAll
<1>4. PICK kept \in IF args.num_trees < 0 THEN {L}
                    ELSE {Kept(L, top, args.type) : top \in TopTrees(L, N, dist, args.num_trees, MaxL1)} :
        status' = IF args.num_trees < 0 \/ KeptAsWanted(kept) THEN "tables" ELSE "assert"
  BY <1>3 DEF FwdtableDfr
<1>5. status' = "tables"
  <2> HIDE DEF L, dist
  <2>1. CASE args.num_trees < 0
    BY <1>4, <2>1
  <2>2. CASE ~(args.num_trees < 0)
    <3>1. PICK top \in TopTrees(L, N, dist, args.num_trees, MaxL1) : kept = Kept(L, top, args.type)
      BY <1>4, <2>2
    <3>2. KeptAsWanted(kept)
      BY <1>1, <1>2, <2>2, <3>1, KeptIsAsWanted
    <3> QED BY <1>4, <3>2
  <2> QED BY <2>1, <2>2
<1>6. UNCHANGED <<forest, args, arcs, search, first>> /\ N' = N /\ NumL1' = NumL1
  BY DEF FwdtableDfr, N, NumL1
<1>7. AssertsHold' /\ SearchInRange'
  BY <1>5, <1>6 DEF AInv, AssertsHold, SearchInRange, search
<1>8. StaysConnected'
  BY <1>5 DEF StaysConnected, Building
<1>9. LayersReady'
  BY <1>1, <1>6 DEF LayersReady, ReadyLayers
<1> QED BY <1>7, <1>8, <1>9 DEF AInv

(* The graphs that need no random choice are acyclic, and their layers     *)
(* hold every tree.                                                        *)
LEMMA BuildTtgAsserts ==
  ASSUME IInv, AInv, BuildTtg
  PROVE  AInv'
<1>1. UNCHANGED <<forest, args, search>> /\ N' = N
  BY DEF BuildTtg, Unsearched, N
<1>2. /\ N \in Nat \ {0} /\ args.num_trees \in Int /\ args.num_trees # 0 /\ args.num_trees <= N
      /\ args.type \in {"line", "nores"} \cup Layered
      /\ args.type \in Layered => args.l1width \in Nat \ {0}
  BY ForestFacts DEF IInv, BuildTtg
<1> DEFINE L == Layers(arcs', N, first')
<1>3. ASSUME args.type = "line" PROVE IsDag(arcs', N) /\ ReadyLayers(L)
  <2>1. arcs' = Line(N) /\ first' = LineFirst(N, args.num_trees)
    BY <1>3 DEF BuildTtg
  <2>2. PICK m \in 1..N : first' = Vertices(m)
    <3>1. CASE args.num_trees < 0
      <4>1. 1 \in 1..N /\ Vertices(1) = {0}
        BY <1>2 DEF Vertices
      <4> QED BY <2>1, <3>1, <4>1 DEF LineFirst
    <3>2. CASE ~(args.num_trees < 0)
      <4>1. N - args.num_trees + 1 \in 1..N /\ (N - args.num_trees + 1) - 1 = N - args.num_trees
        BY <1>2, <3>2
      <4>2. Vertices(N - args.num_trees + 1) = 0..N - args.num_trees
        BY <4>1 DEF Vertices
      <4> QED BY <2>1, <3>2, <4>1, <4>2 DEF LineFirst
    <3> QED BY <3>1, <3>2
  <2>3. IsDag(arcs', N)
    BY <1>2, <2>1, LineIsDag
  <2>4. L = ChainOf(N, m)
    BY <1>2, <2>1, <2>2, LineLayers
  <2>5. WellLayered(N, L) /\ HoldsAll(N, L)
    BY <1>2, <2>4, ChainIsLayered DEF HoldsAll
  <2>6. ReadyLayers(L)
    BY <1>3, <2>4, <2>5 DEF ReadyLayers
  <2> QED BY <2>3, <2>6
<1>4. ASSUME args.type = "nores" PROVE IsDag(arcs', N) /\ ReadyLayers(L)
  <2>1. arcs' = {} /\ first' = Vertices(N)
    BY <1>4 DEF BuildTtg
  <2>2. IsDag(arcs', N)
    BY <2>1 DEF IsDag
  <2>3. L = ChainOf(N, N) /\ N \in Nat /\ N \in 1..N
    BY <1>2, <2>1, NoresLayers
  <2>4. WellLayered(N, L) /\ HoldsAll(N, L)
    BY <2>3, ChainIsLayered DEF HoldsAll
  <2>5. ReadyLayers(L)
    BY <1>4, <2>4 DEF ReadyLayers
  <2> QED BY <2>2, <2>5
<1>5. ASSUME args.type \in Layered PROVE IsDag(arcs', N) /\ ReadyLayers(L)
  <2>1. /\ arcs' = LayeredDag(args.type, N, args.l1width, args.self_layer)
        /\ first' = LayeredFirst(args.type, N, args.l1width)
    BY <1>5 DEF BuildTtg, Layered
  <2>2. IsDag(arcs', N)
    BY <1>2, <1>5, <2>1, LayeredIsDag
  <2>3. WellLayered(N, L) /\ HoldsAll(N, L)
    BY <1>2, <1>5, <2>1, LayeredLayers
  <2>4. ReadyLayers(L)
    BY <1>5, <2>3 DEF ReadyLayers, Layered
  <2> QED BY <2>2, <2>4
<1>6. IsDag(arcs', N) /\ ReadyLayers(L)
  BY <1>2, <1>3, <1>4, <1>5
<1>7. status' = "tables"
  BY <1>6 DEF BuildTtg
<1>8. AssertsHold' /\ SearchInRange' /\ StaysConnected'
  BY <1>1, <1>7 DEF AInv, AssertsHold, SearchInRange, StaysConnected, Building, search
<1>9. LayersReady'
  BY <1>1, <1>6 DEF LayersReady, ReadyLayers, NumL1
<1> QED BY <1>8, <1>9 DEF AInv

(* An order of the trees has no cycles and is connected.                   *)
LEMMA OrderIsDag ==
  ASSUME NEW n \in Nat, NEW m \in 1..n, NEW g \in Orders(m)
  PROVE  IsDag(g, n) /\ WeaklyConnected(g, Vertices(m))
<1>1. PICK rank \in [Vertices(m) -> 1..m] :
        /\ \A x, y \in Vertices(m) : x # y => rank[x] # rank[y]
        /\ g = {a \in Complete(m) : rank[a[1]] < rank[a[2]]}
  BY DEF Orders
<1>2. Vertices(m) \subseteq Vertices(n)
  BY DEF Vertices
<1>3. \A a \in g : a[1] \in Vertices(m) /\ a[2] \in Vertices(m) /\ rank[a[1]] < rank[a[2]]
  BY <1>1 DEF Complete
<1>4. g \in Graphs(n)
  <2>1. g \subseteq Vertices(m) \X Vertices(m)
    BY <1>1 DEF Complete
  <2> QED BY <1>2, <2>1 DEF Graphs
<1> DEFINE down == [x \in Vertices(n) |-> IF x \in Vertices(m) THEN m - rank[x] ELSE 0]
<1>5. down \in [Vertices(n) -> Nat]
  <2>1. \A x \in Vertices(m) : m - rank[x] \in Nat
    BY <1>1
  <2> QED BY <2>1
<1>6. ASSUME NEW a \in g PROVE down[a[2]] < down[a[1]]
  <2>1. down[a[1]] = m - rank[a[1]] /\ down[a[2]] = m - rank[a[2]]
    BY <1>2, <1>3
  <2>2. rank[a[1]] \in Int /\ rank[a[2]] \in Int /\ rank[a[1]] < rank[a[2]]
    BY <1>1, <1>3
  <2> HIDE DEF down
  <2> QED BY <2>1, <2>2
<1> HIDE DEF down
<1>7. RankedBy(g, n, down)
  BY <1>5, <1>6 DEF RankedBy
<1>8. IsDag(g, n)
  BY <1>4, <1>5, <1>7, RankedIsDag DEF Ranked
<1>9. ASSUME NEW x \in Vertices(m), NEW y \in Vertices(m), x # y PROVE <<x, y>> \in g \/ <<y, x>> \in g
  <2>1. <<x, y>> \in Complete(m) /\ <<y, x>> \in Complete(m)
    BY <1>9 DEF Complete
  <2>2. rank[x] < rank[y] \/ rank[y] < rank[x]
    <3>1. rank[x] \in Int /\ rank[y] \in Int /\ rank[x] # rank[y]
      BY <1>1, <1>9
    <3> QED BY <3>1
  <2> QED BY <1>1, <2>1, <2>2
<1>10. WeaklyConnected(g, Vertices(m))
  BY <1>9, TournamentConnected
<1> QED BY <1>8, <1>10

(* A step of the random graphs fails no assertion.                         *)
LEMMA RandomAsserts ==
  ASSUME AInv, UNCHANGED <<forest, args>>, SearchInRange', status' \in Building,
         arcs' \subseteq Complete(NumL1), WeaklyConnected(arcs', Vertices(NumL1)),
         status' = "label" => IsDag(arcs', N)
  PROVE  AInv'
<1>1. N' = N /\ NumL1' = NumL1
  BY DEF N, NumL1
<1>2. AssertsHold' /\ LayersReady'
  BY DEF AssertsHold, LayersReady, Building
<1>3. StaysConnected'
  BY <1>1 DEF StaysConnected
<1> QED BY <1>2, <1>3 DEF AInv

(* The random graphs begin connected.                                      *)
LEMMA StartAsserts ==
  ASSUME IInv, AInv, MaxDag \/ RandDag
  PROVE  AInv'
<1>1. UNCHANGED <<forest, args>> /\ UNCHANGED search /\ N' = N
  BY DEF MaxDag, RandDag, Unsearched, N
<1>2. SearchInRange'
  BY <1>1 DEF AInv, SearchInRange, search
<1>3. N \in Nat /\ NumL1 \in 1..N
  BY ForestFacts DEF IInv, MaxDag, RandDag, NumL1
<1>4. status' \in Building
  BY DEF MaxDag, RandDag, Building
<1>5. CASE MaxDag
  <2>1. arcs' \in Orders(NumL1)
    BY <1>5 DEF MaxDag
  <2>2. arcs' \subseteq Complete(NumL1)
    BY <2>1 DEF Orders
  <2>3. IsDag(arcs', N) /\ WeaklyConnected(arcs', Vertices(NumL1))
    BY <1>3, <2>1, OrderIsDag
  <2> QED BY <1>1, <1>2, <1>4, <2>2, <2>3, RandomAsserts
<1>6. CASE RandDag
  <2>1. arcs' = Complete(NumL1) /\ status' = "check"
    BY <1>6 DEF RandDag
  <2>2. \A x, y \in Vertices(NumL1) : x # y => <<x, y>> \in Complete(NumL1)
    BY DEF Complete
  <2>3. WeaklyConnected(arcs', Vertices(NumL1))
    BY <2>1, <2>2, TournamentConnected
  <2> QED BY <1>1, <1>2, <1>4, <2>1, <2>3, RandomAsserts
<1> QED BY <1>5, <1>6

(* A vertex that is visited is one of the graph, and so are its successors.*)
LEMMA VisitInRange ==
  ASSUME IInv, AInv, NEW p \in Seq(Vertices(N)), Visit(p)
  PROVE  path' \in Seq(Vertices(N)) /\ succ' \subseteq Vertices(N)
<1>1. arcs \in Graphs(N) /\ path \in Seq(Vertices(N)) /\ succ \subseteq Vertices(N)
  BY DEF IInv, GraphInRange, AInv, SearchInRange
<1>2. CASE Last(p) \in visited
  BY <1>1, <1>2 DEF Visit
<1>3. CASE Last(p) \notin visited
  <2>1. path' = p /\ succ' = Successors(arcs, Last(p))
    BY <1>3 DEF Visit
  <2> QED BY <1>1, <2>1, SuccessorsInGraph
<1> QED BY <1>2, <1>3

(* The search keeps to the graph.                                          *)
LEMMA SearchStaysInRange ==
  ASSUME IInv, AInv, BreakCycles
  PROVE  SearchInRange'
<1>1. N' = N
  BY DEF BreakCycles, NewSearch, Acyclic, Pop, PopRoot, Searched, Successor, SuccessorsDone, Searching, N
<1>2. SearchInRange
  BY DEF AInv
<1>3. CASE NewSearch \/ Acyclic \/ Searched \/ SuccessorsDone
  <2>1. << >> \in Seq(Vertices(N)) /\ << >> \in Seq(Seq(Vertices(N)))
    OBVIOUS
  <2> QED BY <1>1, <1>2, <1>3, <2>1
          DEF SearchInRange, NewSearch, Acyclic, Searched, SuccessorsDone, search
<1>4. CASE Pop
  <2>1. stack \in Seq(Seq(Vertices(N))) /\ stack # << >>
    BY <1>2, <1>4 DEF SearchInRange, Pop
  <2>2. Last(stack) \in Seq(Vertices(N)) /\ stack' \in Seq(Seq(Vertices(N)))
    <3> DEFINE S == Seq(Vertices(N))
    <3>1. stack \in Seq(S) /\ stack # << >>
      BY <2>1
    <3> HIDE DEF S
    <3>2. stack[Len(stack)] \in S /\ SubSeq(stack, 1, Len(stack) - 1) \in Seq(S)
      BY <3>1
    <3>3. stack' = SubSeq(stack, 1, Len(stack) - 1) /\ Last(stack) = stack[Len(stack)]
      BY <1>4 DEF Pop, Last
    <3> QED BY <3>2, <3>3 DEF S
  <2>3. path' \in Seq(Vertices(N)) /\ succ' \subseteq Vertices(N) /\ roots' = roots
    BY <1>4, <2>2, VisitInRange DEF Pop
  <2> QED BY <1>1, <1>2, <2>2, <2>3 DEF SearchInRange
<1>5. CASE PopRoot
  <2>1. PICK iv \in roots : roots' = roots \ {iv} /\ Visit(<<iv>>)
    BY <1>5 DEF PopRoot
  <2>2. <<iv>> \in Seq(Vertices(N)) /\ roots' \subseteq Vertices(N) /\ stack' = stack
    BY <1>2, <1>5, <2>1 DEF SearchInRange, PopRoot
  <2>3. path' \in Seq(Vertices(N)) /\ succ' \subseteq Vertices(N)
    BY <2>1, <2>2, VisitInRange
  <2> QED BY <1>1, <1>2, <2>2, <2>3 DEF SearchInRange
<1>6. ASSUME NEW iw \in succ, Successor(iw) PROVE SearchInRange'
  <2>1. iw \in Vertices(N) /\ path \in Seq(Vertices(N)) /\ stack \in Seq(Seq(Vertices(N)))
    BY <1>2 DEF SearchInRange
  <2>2. Append(stack, Append(path, iw)) \in Seq(Seq(Vertices(N)))
    <3> DEFINE S == Seq(Vertices(N))
    <3>1. Append(path, iw) \in S
      BY <2>1
    <3> HIDE DEF S
    <3> QED BY <2>1, <3>1 DEF S
  <2>3. /\ succ' = succ \ {iw} /\ path' = path /\ roots' = roots
        /\ stack' = stack \/ stack' = Append(stack, Append(path, iw))
    BY <1>6 DEF Successor
  <2> QED BY <1>1, <1>2, <2>2, <2>3 DEF SearchInRange
<1> QED BY <1>3, <1>4, <1>5, <1>6 DEF BreakCycles

(* Breaking a cycle leaves the graph connected.                            *)
LEMMA SuccessorStaysConnected ==
  ASSUME IInv, AInv, NEW iw \in succ, Successor(iw)
  PROVE  WeaklyConnected(arcs', Vertices(NumL1))
<1>1. arcs \subseteq Complete(NumL1) /\ WeaklyConnected(arcs, Vertices(NumL1)) /\ path \in Seq(Vertices(N))
  BY DEF Successor, AInv, StaysConnected, SearchInRange, Building
<1>2. \A a \in arcs : {a[1], a[2]} \subseteq Vertices(NumL1)
  BY <1>1 DEF Complete
<1>3. CASE arcs' = arcs
  BY <1>1, <1>3
<1>4. CASE arcs' # arcs
  <2>1. (\E k \in DOMAIN path : path[k] = iw) /\ BreakCycle(CycleArcs(iw))
    BY <1>4 DEF Successor
  <2>2. CycleArcs(iw) \subseteq arcs
    BY <1>4, <2>1 DEF BreakCycle
  <2>3. PICK e \in CycleArcs(iw) : arcs' = arcs \ {e}
    BY <2>1, <2>2 DEF BreakCycle
  <2> QED BY <1>1, <1>2, <2>1, <2>2, <2>3, BreakKeepsConnected
<1> QED BY <1>3, <1>4

(* So the search for cycles fails no assertion.                            *)
LEMMA BreakCyclesAsserts ==
  ASSUME IInv, AInv, BreakCycles
  PROVE  AInv'
<1>1. SearchInRange'
  BY SearchStaysInRange
<1>2. status \in Building /\ UNCHANGED <<forest, args>>
  BY DEF BreakCycles, NewSearch, Acyclic, Pop, PopRoot, Searched, Successor, SuccessorsDone,
         Searching, Building
<1>3. arcs \subseteq Complete(NumL1) /\ WeaklyConnected(arcs, Vertices(NumL1))
  BY <1>2 DEF AInv, StaysConnected
<1>4. arcs' \subseteq arcs
  BY DEF BreakCycles, NewSearch, Acyclic, Pop, PopRoot, Searched, Successor, SuccessorsDone, BreakCycle
<1>5. status' \in Building /\ (status' = "label" => Acyclic)
  <2>1. ASSUME NEW p, Visit(p), status = "search" PROVE status' \in {"search", "succ"}
    BY <2>1 DEF Visit
  <2>2. CASE Pop \/ PopRoot
    <3>1. status' \in {"search", "succ"}
      BY <2>1, <2>2 DEF Pop, PopRoot
    <3> QED BY <3>1 DEF Building
  <2>3. CASE ~(Pop \/ PopRoot)
    BY <2>3 DEF BreakCycles, NewSearch, Acyclic, Searched, Successor, SuccessorsDone, Building
  <2> QED BY <2>2, <2>3
<1>6. status' = "label" => IsDag(arcs', N)
  BY <1>5 DEF Acyclic
<1>7. WeaklyConnected(arcs', Vertices(NumL1))
  <2>1. CASE \E iw \in succ : Successor(iw)
    BY <2>1, SuccessorStaysConnected
  <2>2. CASE ~(\E iw \in succ : Successor(iw))
    <3>1. arcs' = arcs
      BY <2>2 DEF BreakCycles, NewSearch, Acyclic, Pop, PopRoot, Searched, SuccessorsDone
    <3> QED BY <1>3, <3>1
  <2> QED BY <2>1, <2>2
<1> QED BY <1>1, <1>2, <1>3, <1>4, <1>5, <1>6, <1>7, RandomAsserts

(* The asserts on a random graph hold when it is labelled.                 *)
LEMMA LabelAsserts ==
  ASSUME IInv, AInv, Label, IInv'
  PROVE  AInv'
<1>1. UNCHANGED <<forest, args, search>> /\ N' = N /\ NumL1' = NumL1
  BY DEF Label, Unsearched, N, NumL1
<1>2. /\ arcs \subseteq Complete(NumL1) /\ WeaklyConnected(arcs, Vertices(NumL1)) /\ IsDag(arcs, N)
  BY DEF Label, AInv, StaysConnected, Building
<1>3. /\ status' = "tables" /\ first' = Vertices(NumL1)
      /\ arcs' = arcs \cup ResilienceArcs(N, args.rand_res)
  BY <1>2 DEF Label
<1>4. args.type \in {"rand", "maxdag"} /\ arcs' \in Graphs(N)
  BY <1>1 DEF IInv, GraphInRange, RandomGraphs, Label, Building
<1>5. N \in Nat \ {0} /\ args.rand_res \in Int /\ 0 <= args.rand_res /\ args.rand_res < N
  BY <1>4, ForestFacts DEF IInv
<1> DEFINE L == Layers(arcs', N, first')
<1>6. L = ChainOf(N, NumL1)
  BY <1>2, <1>3, <1>4, <1>5, RandomLayers DEF NumL1
<1>7. NumL1 \in 1..N
  BY <1>5 DEF NumL1
<1>8. WellLayered(N, L) /\ HoldsAll(N, L)
  BY <1>5, <1>6, <1>7, ChainIsLayered DEF HoldsAll
<1>9. ReadyLayers(L)
  BY <1>4, <1>6, <1>8 DEF ReadyLayers
<1>10. AssertsHold' /\ SearchInRange' /\ StaysConnected'
  BY <1>1, <1>3 DEF AInv, AssertsHold, SearchInRange, StaysConnected, Building, search
<1>11. LayersReady'
  BY <1>1, <1>9 DEF LayersReady, ReadyLayers
<1> QED BY <1>10, <1>11 DEF AInv

(* A packet fails none.                                                    *)
LEMMA PacketAsserts ==
  ASSUME AInv, (\E u \in V : Send(u)) \/ Hop
  PROVE  AInv'
<1>1. /\ UNCHANGED <<forest, args, search>> /\ N' = N
      /\ status' \in {"walking", "dropped", "delivered"}
  BY DEF Send, Hop, Forward, Drop, Arrive, Walk, N
<1> QED BY <1>1 DEF AInv, AssertsHold, SearchInRange, StaysConnected, LayersReady, Building, search

(* Nothing changes when nothing happens.                                   *)
LEMMA StutterAsserts ==
  ASSUME AInv, UNCHANGED vars
  PROVE  AInv'
<1>1. UNCHANGED <<forest, args, arcs, first, search, status>> /\ N' = N /\ NumL1' = NumL1
  BY DEF vars, N, NumL1
<1> QED BY <1>1 DEF AInv, AssertsHold, SearchInRange, StaysConnected, LayersReady, ReadyLayers, search

(* No assertion of the construction fails: whatever the network and the    *)
(* forest, whatever cycles are broken and in whatever order, and whatever  *)
(* trees are left out, the graph is acyclic and connected, its layers hold *)
(* every tree once, and the trees the resilience rests on are kept.        *)
THEOREM NoAssertFails == Spec => []AssertsHold
<1>1. Init => AInv
  BY InitAsserts
<1>2. IInv /\ IInv' /\ AInv /\ [Next]_vars => AInv'
  <2> SUFFICES ASSUME IInv, IInv', AInv, [Next]_vars PROVE AInv'
    OBVIOUS
  <2>1. CASE BuildTtg
    BY <2>1, BuildTtgAsserts
  <2>2. CASE MaxDag \/ RandDag
    BY <2>2, StartAsserts
  <2>3. CASE BreakCycles
    BY <2>3, BreakCyclesAsserts
  <2>4. CASE Label
    BY <2>4, LabelAsserts
  <2>5. CASE \E d \in todo : FwdtableDfr(d)
    BY <2>5, FwdtableAsserts
  <2>6. CASE (\E u \in V : Send(u)) \/ Hop
    BY <2>6, PacketAsserts
  <2>7. CASE UNCHANGED vars
    BY <2>7, StutterAsserts
  <2> QED BY <2>1, <2>2, <2>3, <2>4, <2>5, <2>6, <2>7 DEF Next
<1>3. AInv => AssertsHold
  BY DEF AInv
<1> QED BY <1>1, <1>2, <1>3, GraphInvariant, PTL DEF Spec
=============================================================================

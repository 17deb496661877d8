---------------------------- MODULE PlinkoProofs ----------------------------
(***************************************************************************)
(* What a packet finds in the tables that the rounds of resnet_alg.py leave:*)
(* for every network, destination, number of rounds, kind of routing and   *)
(* choice of backup routes.                                                *)
(*                                                                         *)
(* Main keeps no record of the routes it has built, only the entries they  *)
(* left.  The inductive invariant (PlinkoInv) names them: some set R of    *)
(* routes explains the tables, the pairs that wait for a backup route and  *)
(* the packet (Tables, Underway).  Two routes of an origin part no later   *)
(* than at the head of one of them, and one of them knows the edge the     *)
(* other takes there to be down (ApartAt); while a pair waits no route has *)
(* taken over from its own (Warned); every hop that may fail is mended,    *)
(* waits, or cuts its switch off (Mended).  A packet stands on the entry   *)
(* of a route that fits the failures, and of those routes the one that     *)
(* knows most failures has the entry that matches.                         *)
(*                                                                         *)
(* After and the search for shortest paths are recursive functions; they   *)
(* are reasoned about by induction on how many hops are followed (NatSet). *)
(***************************************************************************)
EXTENDS PlinkoWalk, SequenceTheorems, FiniteSetTheorems, TLAPS

(* The order of the numbers as a relation is well-founded.                 *)
LEMMA NatLess == IsWellFoundedOn({p \in Nat \X Nat : p[1] < p[2]}, Nat)
BY NatLessThanWellFounded DEF OpToRel

(* A set of numbers that is not empty has a least one.                     *)
LEMMA LeastNat ==
  ASSUME NEW S \in SUBSET Nat, S # {}
  PROVE  \E n \in S : \A m \in S : n <= m
<1> DEFINE R == {p \in Nat \X Nat : p[1] < p[2]}
<1>1. IsWellFoundedOn(R, Nat)
  BY NatLess
<1>2. PICK n \in S : \A m \in S : ~(<<m, n>> \in R)
  <2> HIDE DEF R
  <2> QED BY <1>1, WFMin
<1>3. ASSUME NEW m \in S PROVE n <= m
  <2>1. m \in Nat /\ n \in Nat
    OBVIOUS
  <2>2. ~(<<m, n>> \in R)
    BY <1>2
  <2>3. ~(m < n)
    BY <2>1, <2>2
  <2> QED BY <2>1, <2>3
<1> QED BY <1>3

(* A finite one has a greatest.                                            *)
LEMMA GreatestNat ==
  ASSUME NEW S \in SUBSET Nat, S # {}, IsFiniteSet(S)
  PROVE  \E n \in S : \A m \in S : m <= n
<1> DEFINE Above(x) == {y \in S : x < y}
           sizes == {Cardinality(Above(n)) : n \in S}
<1>1. \A n : IsFiniteSet(Above(n)) /\ Cardinality(Above(n)) \in Nat
  <2>1. \A n : Above(n) \subseteq S
    OBVIOUS
  <2> HIDE DEF Above
  <2> QED BY <2>1, FS_Subset, FS_CardinalityType
<1>2. sizes \in SUBSET Nat /\ sizes # {}
  BY <1>1
<1>3. PICK least \in sizes : \A k \in sizes : least <= k
  <2> HIDE DEF sizes
  <2> QED BY <1>2, LeastNat
<1>4. PICK n \in S : Cardinality(Above(n)) = least
  BY <1>3
<1>5. ASSUME NEW m \in S, ~(m <= n) PROVE FALSE
  <2>0. m \in Nat /\ n \in Nat /\ S \subseteq Nat /\ n < m
    BY <1>5
  <2>1. Above(m) \subseteq Above(n) /\ m \in Above(n) /\ m \notin Above(m)
    <3>1. \A y \in S : m < y => n < y
      <4> TAKE y \in S
      <4>1. y \in Nat
        BY <2>0
      <4> QED BY <2>0, <4>1
    <3>2. Above(m) \subseteq Above(n)
      BY <3>1
    <3>3. m \in Above(n)
      BY <2>0
    <3>4. ~(m < m)
      BY <2>0
    <3>5. m \notin Above(m)
      BY <3>4
    <3> QED BY <3>2, <3>3, <3>5
  <2>2. least <= Cardinality(Above(m))
    BY <1>3
  <2> HIDE DEF Above
  <2>3. Cardinality(Above(m)) <= Cardinality(Above(n)) /\ Cardinality(Above(n)) # Cardinality(Above(m))
    BY <1>1, <2>1, FS_Subset
  <2> QED BY <1>1, <1>4, <2>2, <2>3
<1> QED BY <1>5

(* A set of numbers with 0 that is closed under successors is all of Nat.  *)
LEMMA NatSet ==
  ASSUME NEW S, 0 \in S, \A n \in Nat : n \in S => n + 1 \in S
  PROVE  Nat \subseteq S
<1> SUFFICES ASSUME Nat \ S # {} PROVE FALSE
  OBVIOUS
<1>1. PICK n \in Nat \ S : \A m \in Nat \ S : n <= m
  BY LeastNat
<1>2. n # 0 /\ n - 1 \in Nat /\ ~(n <= n - 1)
  BY <1>1
<1>3. n - 1 \in S
  BY <1>1, <1>2
<1> QED BY <1>1, <1>2, <1>3

(* f repeats the function step, from start, on lo .. hi.                   *)
Repeats(f, lo, hi, start, step) ==
  f = [k \in lo..hi |-> IF k = lo THEN start ELSE step[<<k, f[k - 1]>>]]

(* Functions that are defined by repetition exist.                         *)
LEMMA RepetitionExists ==
  ASSUME NEW T, NEW start \in T, NEW step \in [Int \X T -> T], NEW lo \in Int, NEW end \in Int, lo <= end
  PROVE  \E f \in [lo..end -> T] : Repeats(f, lo, end, start, step)
<1> DEFINE S == {m \in Nat : \E f \in [lo..(lo + m) -> T] : Repeats(f, lo, lo + m, start, step)}
<1>1. 0 \in S
  <2> DEFINE f == [k \in lo..lo |-> start]
  <2>1. f \in [lo..lo -> T]
    OBVIOUS
  <2>2. f = [k \in lo..lo |-> IF k = lo THEN start ELSE step[<<k, f[k - 1]>>]]
    OBVIOUS
  <2> HIDE DEF f
  <2>3. Repeats(f, lo, lo, start, step) /\ lo + 0 = lo
    BY <2>2 DEF Repeats
  <2> QED BY <2>1, <2>3
<1>2. ASSUME NEW m \in Nat, m \in S
      PROVE  m + 1 \in S
  <2> DEFINE hi == lo + m
             top == lo + (m + 1)
  <2>1. PICK f \in [lo..hi -> T] : Repeats(f, lo, hi, start, step)
    BY <1>2
  <2>0. hi \in Int /\ top = hi + 1 /\ lo <= hi
    OBVIOUS
  <2> DEFINE g == [k \in lo..top |-> IF k = top THEN step[<<k, f[hi]>>] ELSE f[k]]
  <2> HIDE DEF hi, top
  <2>2. step[<<top, f[hi]>>] \in T
    <3>1. <<top, f[hi]>> \in Int \X T
      BY <2>0
    <3> QED BY <3>1
  <2>3. g \in [lo..top -> T]
    BY <2>0, <2>2
  <2>4. \A k \in lo..hi : f[k] = IF k = lo THEN start ELSE step[<<k, f[k - 1]>>]
    BY <2>1 DEF Repeats
  <2>5. ASSUME NEW k \in lo..top
        PROVE  g[k] = IF k = lo THEN start ELSE step[<<k, g[k - 1]>>]
    <3>1. CASE k = top
      <4>1. k - 1 = hi /\ k - 1 \in lo..top /\ k - 1 # top /\ k # lo
        BY <2>0, <3>1
      <4>2. g[k - 1] = f[hi]
        BY <4>1
      <4> QED BY <3>1, <4>1, <4>2
    <3>2. CASE k # top
      <4>1. k \in lo..hi /\ (k # lo => k - 1 \in lo..top /\ k - 1 # top)
        BY <2>0, <3>2
      <4> QED BY <2>4, <3>2, <4>1
    <3> QED BY <3>1, <3>2
  <2>6. g = [k \in lo..top |-> IF k = lo THEN start ELSE step[<<k, g[k - 1]>>]]
    <3>1. g = [k \in lo..top |-> g[k]]
      OBVIOUS
    <3> HIDE DEF g
    <3>2. [k \in lo..top |-> g[k]]
            = [k \in lo..top |-> IF k = lo THEN start ELSE step[<<k, g[k - 1]>>]]
      BY <2>5
    <3> QED BY <3>1, <3>2
  <2> HIDE DEF g
  <2>7. Repeats(g, lo, top, start, step)
    BY <2>6 DEF Repeats
  <2>8. \E h \in [lo..top -> T] : Repeats(h, lo, top, start, step)
    BY <2>3, <2>7
  <2> QED BY <2>8 DEF top
<1> HIDE DEF S
<1>3. end - lo \in Nat /\ lo + (end - lo) = end
  OBVIOUS
<1>4. end - lo \in S
  BY <1>1, <1>2, <1>3, NatSet
<1>5. \E f \in [lo..(lo + (end - lo)) -> T] : Repeats(f, lo, lo + (end - lo), start, step)
  BY <1>4 DEF S
<1> QED BY <1>3, <1>5

(* A growing chain of n + 1 subsets of a set of n, that stops growing once *)
(* it does not grow, has stopped at the end.                               *)
LEMMA ChainStops ==
  ASSUME NEW X, IsFiniteSet(X), NEW n \in Nat, Cardinality(X) <= n,
         NEW W \in [0..n -> SUBSET X], W[0] # {},
         \A k \in 0..(n - 1) : W[k] \subseteq W[k + 1],
         \A k \in 1..(n - 1) : W[k] = W[k - 1] => W[k + 1] = W[k]
  PROVE  n >= 1 /\ W[n] = W[n - 1]
<1> DEFINE S == {k \in Nat : k <= n => \/ Cardinality(W[k]) >= k + 1
                                       \/ k >= 1 /\ W[k] = W[k - 1]}
<1>1. \A k \in 0..n : W[k] \subseteq X /\ IsFiniteSet(W[k]) /\ Cardinality(W[k]) \in Nat
  BY FS_Subset, FS_CardinalityType
<1>2. 0 \in S
  <2>1. Cardinality(W[0]) # 0
    BY <1>1, FS_EmptySet
  <2> QED BY <1>1, <2>1
<1>3. ASSUME NEW k \in Nat, k \in S
      PROVE  k + 1 \in S
  <2> SUFFICES ASSUME k + 1 <= n, W[k + 1] # W[(k + 1) - 1]
               PROVE  Cardinality(W[k + 1]) >= (k + 1) + 1
    OBVIOUS
  <2>1. k \in 0..(n - 1) /\ (k + 1) - 1 = k /\ k <= n /\ k + 1 \in 0..n /\ k \in 0..n
    OBVIOUS
  <2>2. W[k] \subseteq W[k + 1] /\ W[k] # W[k + 1]
    BY <2>1
  <2>3. ~(k >= 1 /\ W[k] = W[k - 1])
    <3> SUFFICES ASSUME k >= 1, W[k] = W[k - 1] PROVE FALSE
      OBVIOUS
    <3>1. k \in 1..(n - 1)
      BY <2>1
    <3> QED BY <2>2, <3>1
  <2>4. Cardinality(W[k]) >= k + 1
    BY <1>3, <2>1, <2>3
  <2>5. Cardinality(W[k]) <= Cardinality(W[k + 1]) /\ Cardinality(W[k]) # Cardinality(W[k + 1])
    BY <1>1, <2>1, <2>2, FS_Subset
  <2> QED BY <1>1, <2>1, <2>4, <2>5
<1> HIDE DEF S
<1>4. n \in S
  BY <1>2, <1>3, NatSet
<1>5. Cardinality(W[n]) <= Cardinality(X) /\ Cardinality(X) \in Nat
  BY <1>1, FS_Subset, FS_CardinalityType
<1>6. n \in 0..n
  OBVIOUS
<1> QED BY <1>1, <1>4, <1>5, <1>6 DEF S

(* ... and every set of the chain lies in the last one.                    *)
LEMMA ChainGrows ==
  ASSUME NEW n \in Nat, NEW W, \A k \in 0..(n - 1) : W[k] \subseteq W[k + 1],
         NEW idx \in 0..n, NEW j \in 0..n, idx <= j
  PROVE  W[idx] \subseteq W[j]
<1> DEFINE S == {m \in Nat : idx + m <= n => W[idx] \subseteq W[idx + m]}
<1>1. 0 \in S
  OBVIOUS
<1>2. ASSUME NEW m \in Nat, m \in S
      PROVE  m + 1 \in S
  <2> SUFFICES ASSUME idx + (m + 1) <= n
               PROVE  W[idx] \subseteq W[idx + (m + 1)]
    OBVIOUS
  <2>1. idx + m \in 0..(n - 1) /\ (idx + m) + 1 = idx + (m + 1) /\ idx + m <= n
    OBVIOUS
  <2> QED BY <1>2, <2>1
<1> HIDE DEF S
<1>3. j - idx \in Nat /\ idx + (j - idx) = j /\ j <= n
  OBVIOUS
<1>4. j - idx \in S
  BY <1>1, <1>2, <1>3, NatSet
<1> QED BY <1>3, <1>4 DEF S

(* The other end of a cable is the other of its two ends.                  *)
LEMMA OtherEnd ==
  ASSUME NEW e \in E, NEW w \in Ends[e]
  PROVE  /\ w \in V /\ Other(w, e) \in V /\ Other(w, e) # w
         /\ Ends[e] = {w, Other(w, e)} /\ Other(Other(w, e), e) = w
<1>1. PICK a, b \in V : a # b /\ Ends[e] = {a, b}
  BY TopologyAssumption
<1>2. \E u \in Ends[e] : u # w
  BY <1>1
<1>3. Other(w, e) \in Ends[e] /\ Other(w, e) # w
  BY <1>2 DEF Other
<1>4. \E u \in Ends[e] : u # Other(w, e)
  BY <1>1
<1>5. Other(Other(w, e), e) \in Ends[e] /\ Other(Other(w, e), e) # Other(w, e)
  BY <1>4 DEF Other
<1> QED BY <1>1, <1>3, <1>5


-----------------------------------------------------------------------------
(* Hops and the switches they lead to.                                     *)

(* The switches that hops lead to, one after the other.                    *)
Trail(w, hs, at) ==
  at = [n \in 0..Len(hs) |-> IF n = 0 THEN w ELSE LET last == at[n - 1] IN Other(last, hs[n])]

(* An end of a cable is a switch, wherever it is seen from.                *)
LEMMA OtherType ==
  ASSUME NEW w \in V, NEW e \in E
  PROVE  Other(w, e) \in V
<1>1. PICK a, b \in V : a # b /\ Ends[e] = {a, b}
  BY TopologyAssumption
<1>2. \E u \in Ends[e] : u # w
  BY <1>1
<1>3. Other(w, e) \in Ends[e]
  BY <1>2 DEF Other
<1> QED BY <1>1, <1>3

(* Hops lead to the last of these switches.                                *)
LEMMA AfterTrail ==
  ASSUME NEW w \in V, NEW hs \in Seq(E)
  PROVE  \E at \in [0..Len(hs) -> V] :
           /\ After(w, hs) = at[Len(hs)]
           /\ at[0] = w
           /\ \A n \in 1..Len(hs) : at[n] = Other(at[n - 1], hs[n])
<1> DEFINE N == Len(hs)
           step == [p \in Int \X V |-> IF p[1] \in 1..N THEN Other(p[2], hs[p[1]]) ELSE w]
<1>0. N \in Nat
  OBVIOUS
<1>1. step \in [Int \X V -> V]
  <2>1. ASSUME NEW p \in Int \X V
        PROVE  (IF p[1] \in 1..N THEN Other(p[2], hs[p[1]]) ELSE w) \in V
    <3>1. CASE p[1] \in 1..N
      <4>1. hs[p[1]] \in E /\ p[2] \in V
        BY <3>1
      <4> QED BY <3>1, <4>1, OtherType
    <3> QED BY <3>1
  <2> QED BY <2>1
<1> HIDE DEF step
<1>2. PICK f \in [0..N -> V] : Repeats(f, 0, N, w, step)
  <2> HIDE DEF N
  <2>1. 0 \in Int /\ N \in Int /\ 0 <= N
    BY <1>0
  <2> QED BY <1>1, <2>1, RepetitionExists, Zenon
<1>3. f[0] = w
  BY <1>0, <1>2 DEF Repeats
<1>4. ASSUME NEW n \in 1..N
      PROVE  f[n] = Other(f[n - 1], hs[n])
  <2>1. n \in 0..N /\ n # 0 /\ n - 1 \in 0..N
    BY <1>0
  <2>2. f[n] = step[<<n, f[n - 1]>>]
    BY <1>2, <2>1 DEF Repeats
  <2>3. <<n, f[n - 1]>> \in Int \X V
    BY <2>1
  <2> QED BY <2>2, <2>3 DEF step
<1>5. Trail(w, hs, f)
  <2>1. f = [n \in 0..N |-> f[n]]
    BY <1>2
  <2>2. ASSUME NEW n \in 0..N
        PROVE  f[n] = IF n = 0 THEN w ELSE Other(f[n - 1], hs[n])
    BY <1>3, <1>4
  <2>3. [n \in 0..N |-> f[n]] = [n \in 0..N |-> IF n = 0 THEN w ELSE Other(f[n - 1], hs[n])]
    BY <2>2
  <2> QED BY <2>1, <2>3 DEF Trail
<1> DEFINE at == CHOOSE x : Trail(w, hs, x)
<1>6. Trail(w, hs, at)
  BY <1>5
<1>7. After(w, hs) = at[Len(hs)]
  BY DEF After, Trail
<1> HIDE DEF at
<1> DEFINE S == {n \in Nat : n <= N => at[n] = f[n]}
<1>8. \A n \in 0..N : at[n] = IF n = 0 THEN w ELSE Other(at[n - 1], hs[n])
  BY <1>6 DEF Trail
<1>9. Nat \subseteq S
  <2>1. 0 \in S
    BY <1>0, <1>3, <1>8
  <2>2. ASSUME NEW n \in Nat, n \in S PROVE n + 1 \in S
    <3> SUFFICES ASSUME n + 1 <= N PROVE at[n + 1] = f[n + 1]
      OBVIOUS
    <3>1. n + 1 \in 1..N /\ n + 1 \in 0..N /\ (n + 1) - 1 = n /\ n <= N /\ n + 1 # 0
      BY <1>0
    <3>2. at[n] = f[n]
      BY <2>2, <3>1
    <3> QED BY <1>4, <1>8, <3>1, <3>2
  <2> HIDE DEF S
  <2> QED BY <2>1, <2>2, NatSet
<1>10. at[N] = f[N]
  BY <1>0, <1>9
<1> QED BY <1>2, <1>3, <1>4, <1>7, <1>10

-----------------------------------------------------------------------------
(* Switches that follow from one another by the hops are those the hops    *)
(* lead to.                                                                *)
LEMMA AfterIs ==
  ASSUME NEW w \in V, NEW hs \in Seq(E), NEW at, at[0] = w,
         \A n \in 1..Len(hs) : at[n] = Other(at[n - 1], hs[n])
  PROVE  After(w, hs) = at[Len(hs)]
<1>1. PICK f \in [0..Len(hs) -> V] :
           /\ After(w, hs) = f[Len(hs)]
           /\ f[0] = w
           /\ \A n \in 1..Len(hs) : f[n] = Other(f[n - 1], hs[n])
  BY AfterTrail
<1> DEFINE S == {n \in Nat : n <= Len(hs) => at[n] = f[n]}
<1>2. 0 \in S
  BY <1>1
<1>3. ASSUME NEW n \in Nat, n \in S PROVE n + 1 \in S
  <2> SUFFICES ASSUME n + 1 <= Len(hs) PROVE at[n + 1] = f[n + 1]
    OBVIOUS
  <2>1. n + 1 \in 1..Len(hs) /\ (n + 1) - 1 = n /\ n <= Len(hs)
    OBVIOUS
  <2> QED BY <1>1, <1>3, <2>1
<1> HIDE DEF S
<1>4. Len(hs) \in S
  BY <1>2, <1>3, NatSet
<1> QED BY <1>1, <1>4 DEF S

(* The switch after the first n hops.                                      *)
Place(w, hs, n) == After(w, SubSeq(hs, 1, n))

(* The first hops of some hops.                                            *)
LEMMA FirstHops ==
  ASSUME NEW S, NEW hs \in Seq(S), NEW n \in 0..Len(hs)
  PROVE  /\ SubSeq(hs, 1, n) \in Seq(S)
         /\ Len(SubSeq(hs, 1, n)) = n
         /\ \A k \in 1..n : SubSeq(hs, 1, n)[k] = hs[k]
<1>1. n \in Int /\ 1 \in Int /\ \A k \in 1..n : hs[k] \in S
  OBVIOUS
<1>2. /\ SubSeq(hs, 1, n) \in Seq(S)
      /\ Len(SubSeq(hs, 1, n)) = IF 1 <= n THEN n - 1 + 1 ELSE 0
      /\ \A idx \in 1..(n - 1 + 1) : SubSeq(hs, 1, n)[idx] = hs[1 + idx - 1]
  BY <1>1, SubSeqProperties
<1> QED BY <1>2

(* The switches on the way follow from one another.                        *)
LEMMA Places ==
  ASSUME NEW w \in V, NEW hs \in Seq(E)
  PROVE  /\ \A n \in 0..Len(hs) : Place(w, hs, n) \in V
         /\ Place(w, hs, 0) = w
         /\ \A n \in 1..Len(hs) : Place(w, hs, n) = Other(Place(w, hs, n - 1), hs[n])
         /\ Place(w, hs, Len(hs)) = After(w, hs)
<1>1. PICK at \in [0..Len(hs) -> V] :
           /\ After(w, hs) = at[Len(hs)]
           /\ at[0] = w
           /\ \A n \in 1..Len(hs) : at[n] = Other(at[n - 1], hs[n])
  BY AfterTrail
<1>2. ASSUME NEW n \in 0..Len(hs)
      PROVE  Place(w, hs, n) = at[n]
  <2> DEFINE pre == SubSeq(hs, 1, n)
  <2>1. pre \in Seq(E) /\ Len(pre) = n /\ \A k \in 1..n : pre[k] = hs[k]
    BY FirstHops
  <2> HIDE DEF pre
  <2>2. \A k \in 1..Len(pre) : at[k] = Other(at[k - 1], pre[k])
    BY <1>1, <2>1
  <2>3. After(w, pre) = at[Len(pre)]
    BY <1>1, <2>1, <2>2, AfterIs
  <2> QED BY <2>1, <2>3 DEF Place, pre
<1>3. 0 \in 0..Len(hs) /\ Len(hs) \in 0..Len(hs)
  OBVIOUS
<1>4. \A n \in 1..Len(hs) : n \in 0..Len(hs) /\ n - 1 \in 0..Len(hs)
  OBVIOUS
<1>5. \A n \in 0..Len(hs) : Place(w, hs, n) \in V
  BY <1>1, <1>2
<1>6. Place(w, hs, 0) = w /\ Place(w, hs, Len(hs)) = After(w, hs)
  BY <1>1, <1>2, <1>3
<1>7. \A n \in 1..Len(hs) : Place(w, hs, n) = Other(Place(w, hs, n - 1), hs[n])
  BY <1>1, <1>2, <1>4
<1> QED BY <1>5, <1>6, <1>7

(* Hops that begin alike lead to the same switches.                        *)
LEMMA SamePlace ==
  ASSUME NEW w, NEW S, NEW hs \in Seq(S), NEW gs \in Seq(S), NEW n \in Nat,
         n <= Len(hs), n <= Len(gs), \A k \in 1..n : hs[k] = gs[k]
  PROVE  Place(w, hs, n) = Place(w, gs, n) /\ SubSeq(hs, 1, n) = SubSeq(gs, 1, n)
<1>1. n \in 0..Len(hs) /\ n \in 0..Len(gs)
  OBVIOUS
<1>2. /\ SubSeq(hs, 1, n) \in Seq(S) /\ Len(SubSeq(hs, 1, n)) = n
      /\ \A k \in 1..n : SubSeq(hs, 1, n)[k] = hs[k]
  BY <1>1, FirstHops
<1>3. /\ SubSeq(gs, 1, n) \in Seq(S) /\ Len(SubSeq(gs, 1, n)) = n
      /\ \A k \in 1..n : SubSeq(gs, 1, n)[k] = gs[k]
  BY <1>1, FirstHops
<1>4. SubSeq(hs, 1, n) = SubSeq(gs, 1, n)
  BY <1>2, <1>3, SeqEqual
<1> QED BY <1>4 DEF Place

(* Hops behind one another.                                                *)
LEMMA PlaceConcat ==
  ASSUME NEW w \in V, NEW s \in Seq(E), NEW t \in Seq(E)
  PROVE  /\ \A n \in 0..Len(s) : Place(w, s \o t, n) = Place(w, s, n)
         /\ \A n \in 0..Len(t) : Place(w, s \o t, Len(s) + n) = Place(After(w, s), t, n)
         /\ After(w, s \o t) = After(After(w, s), t)
<1> DEFINE c == s \o t
<1>1. /\ c \in Seq(E) /\ Len(c) = Len(s) + Len(t)
      /\ \A idx \in 1..(Len(s) + Len(t)) : c[idx] = IF idx <= Len(s) THEN s[idx] ELSE t[idx - Len(s)]
  BY ConcatProperties
<1> HIDE DEF c
<1>2. ASSUME NEW n \in 0..Len(s)
      PROVE  Place(w, c, n) = Place(w, s, n)
  <2>1. n \in Nat /\ n <= Len(c) /\ n <= Len(s) /\ \A k \in 1..n : c[k] = s[k]
    BY <1>1
  <2> QED BY <1>1, <2>1, SamePlace
<1>3. Place(w, c, Len(s)) = After(w, s) /\ After(w, s) \in V
  BY <1>2, Places
<1> DEFINE N == {n \in Nat : n <= Len(t) => Place(w, c, Len(s) + n) = Place(After(w, s), t, n)}
<1>4. 0 \in N
  BY <1>3, Places
<1>5. ASSUME NEW n \in Nat, n \in N PROVE n + 1 \in N
  <2> SUFFICES ASSUME n + 1 <= Len(t)
               PROVE  Place(w, c, Len(s) + (n + 1)) = Place(After(w, s), t, n + 1)
    OBVIOUS
  <2>1. /\ n <= Len(t) /\ n + 1 \in 1..Len(t) /\ (n + 1) - 1 = n
        /\ Len(s) + (n + 1) \in 1..Len(c) /\ (Len(s) + (n + 1)) - 1 = Len(s) + n
        /\ ~(Len(s) + (n + 1) <= Len(s)) /\ (Len(s) + (n + 1)) - Len(s) = n + 1
    BY <1>1
  <2>2. c[Len(s) + (n + 1)] = t[n + 1]
    BY <1>1, <2>1
  <2>3. Place(w, c, Len(s) + (n + 1)) = Other(Place(w, c, Len(s) + n), t[n + 1])
    BY <1>1, <2>1, <2>2, Places, ZenonT(30)
  <2>4. Place(After(w, s), t, n + 1) = Other(Place(After(w, s), t, n), t[n + 1])
    BY <1>3, <2>1, Places
  <2> QED BY <1>5, <2>1, <2>3, <2>4
<1> HIDE DEF N
<1>6. Nat \subseteq N
  BY <1>4, <1>5, NatSet
<1>7. ASSUME NEW n \in 0..Len(t)
      PROVE  Place(w, c, Len(s) + n) = Place(After(w, s), t, n)
  BY <1>6 DEF N
<1>8. After(w, c) = After(After(w, s), t)
  <2>1. Place(w, c, Len(c)) = After(w, c) /\ Place(After(w, s), t, Len(t)) = After(After(w, s), t)
    BY <1>1, <1>3, Places
  <2>2. Len(t) \in 0..Len(t)
    OBVIOUS
  <2> QED BY <1>1, <1>7, <2>1, <2>2
<1> QED BY <1>2, <1>7, <1>8 DEF c

(* Hops that a packet can take: each edge is plugged in where it is.       *)
Walkable(w, hs) == \A n \in 1..Len(hs) : hs[n] \in EdgesAt(Place(w, hs, n - 1))

(* Hops behind one another can be taken if both parts can.                 *)
LEMMA WalkConcat ==
  ASSUME NEW w \in V, NEW s \in Seq(E), NEW t \in Seq(E)
  PROVE  Walkable(w, s \o t) <=> Walkable(w, s) /\ Walkable(After(w, s), t)
<1> DEFINE c == s \o t
<1>1. /\ c \in Seq(E) /\ Len(c) = Len(s) + Len(t)
      /\ \A idx \in 1..(Len(s) + Len(t)) : c[idx] = IF idx <= Len(s) THEN s[idx] ELSE t[idx - Len(s)]
  BY ConcatProperties
<1>2. /\ \A n \in 0..Len(s) : Place(w, c, n) = Place(w, s, n)
      /\ \A n \in 0..Len(t) : Place(w, c, Len(s) + n) = Place(After(w, s), t, n)
  BY PlaceConcat
<1> HIDE DEF c
<1>3. ASSUME NEW n \in 1..Len(s)
      PROVE  n \in 1..Len(c) /\ c[n] = s[n] /\ Place(w, c, n - 1) = Place(w, s, n - 1)
  <2>1. n - 1 \in 0..Len(s) /\ n <= Len(s) /\ n \in 1..(Len(s) + Len(t))
    OBVIOUS
  <2> QED BY <1>1, <1>2, <2>1
<1>4. ASSUME NEW n \in 1..Len(t)
      PROVE  /\ Len(s) + n \in 1..Len(c) /\ c[Len(s) + n] = t[n]
             /\ Place(w, c, (Len(s) + n) - 1) = Place(After(w, s), t, n - 1)
  <2>1. /\ n - 1 \in 0..Len(t) /\ ~(Len(s) + n <= Len(s)) /\ Len(s) + n \in 1..(Len(s) + Len(t))
        /\ (Len(s) + n) - Len(s) = n /\ (Len(s) + n) - 1 = Len(s) + (n - 1)
    OBVIOUS
  <2> QED BY <1>1, <1>2, <2>1
<1>5. ASSUME NEW n \in 1..Len(c)
      PROVE  n \in 1..Len(s) \/ (n - Len(s) \in 1..Len(t) /\ Len(s) + (n - Len(s)) = n)
  BY <1>1
<1>6. Walkable(w, c) => Walkable(w, s) /\ Walkable(After(w, s), t)
  BY <1>3, <1>4 DEF Walkable
<1>7. Walkable(w, s) /\ Walkable(After(w, s), t) => Walkable(w, c)
  <2> SUFFICES ASSUME Walkable(w, s), Walkable(After(w, s), t), NEW n \in 1..Len(c)
               PROVE  c[n] \in EdgesAt(Place(w, c, n - 1))
    BY DEF Walkable
  <2>1. CASE n \in 1..Len(s)
    BY <1>3, <2>1 DEF Walkable
  <2>2. CASE n - Len(s) \in 1..Len(t) /\ Len(s) + (n - Len(s)) = n
    <3>1. PICK m : m = n - Len(s)
      OBVIOUS
    <3>2. m \in 1..Len(t) /\ Len(s) + m = n
      BY <2>2, <3>1
    <3>3. t[m] \in EdgesAt(Place(After(w, s), t, m - 1))
      BY <3>2 DEF Walkable
    <3> QED BY <1>4, <3>2, <3>3
  <2> QED BY <1>5, <2>1, <2>2
<1> QED BY <1>6, <1>7 DEF c

(* Hops that can be taken can be taken back.                               *)
LEMMA WalkBack ==
  ASSUME NEW w \in V, NEW s \in Seq(E), Walkable(w, s)
  PROVE  /\ Reverse(s) \in Seq(E) /\ Len(Reverse(s)) = Len(s)
         /\ \A k \in 1..Len(s) : Reverse(s)[k] = s[Len(s) - k + 1]
         /\ Walkable(After(w, s), Reverse(s))
         /\ After(After(w, s), Reverse(s)) = w
<1> DEFINE r == Reverse(s)
           N == Len(s)
<1>1. r \in Seq(E) /\ Len(r) = N /\ \A k \in 1..N : r[k] = s[N - k + 1]
  <2>1. r = [idx \in 1..N |-> s[(N - idx) + 1]]
    BY DEF Reverse
  <2>2. N \in Nat /\ \A idx \in 1..N : s[(N - idx) + 1] \in E
    OBVIOUS
  <2>3. r \in [1..N -> E]
    BY <2>1, <2>2
  <2> QED BY <2>1, <2>2, <2>3
<1> HIDE DEF r
<1>2. After(w, s) \in V /\ Place(w, s, 0) = w /\ Place(w, s, N) = After(w, s)
      /\ \A n \in 0..N : Place(w, s, n) \in V
  BY Places
<1>3. ASSUME NEW n \in 1..N
      PROVE  /\ s[n] \in EdgesAt(Place(w, s, n - 1)) /\ s[n] \in EdgesAt(Place(w, s, n))
             /\ Other(Place(w, s, n), s[n]) = Place(w, s, n - 1)
  <2>1. s[n] \in EdgesAt(Place(w, s, n - 1))
    BY DEF Walkable
  <2>2. Place(w, s, n) = Other(Place(w, s, n - 1), s[n])
    BY Places
  <2>3. s[n] \in E /\ Place(w, s, n - 1) \in Ends[s[n]]
    BY <2>1 DEF EdgesAt
  <2>4. /\ Ends[s[n]] = {Place(w, s, n - 1), Other(Place(w, s, n - 1), s[n])}
        /\ Other(Other(Place(w, s, n - 1), s[n]), s[n]) = Place(w, s, n - 1)
    BY <2>3, OtherEnd
  <2> QED BY <2>1, <2>2, <2>3, <2>4 DEF EdgesAt
<1> DEFINE S == {k \in Nat : k <= N => Place(After(w, s), r, k) = Place(w, s, N - k)}
<1>4. 0 \in S
  <2>1. Place(After(w, s), r, 0) = After(w, s)
    BY <1>1, <1>2, Places
  <2> QED BY <1>2, <2>1
<1>5. ASSUME NEW k \in Nat, k \in S PROVE k + 1 \in S
  <2> SUFFICES ASSUME k + 1 <= N
               PROVE  Place(After(w, s), r, k + 1) = Place(w, s, N - (k + 1))
    OBVIOUS
  <2>1. /\ k + 1 \in 1..N /\ (k + 1) - 1 = k /\ k <= N /\ N - k \in 1..N
        /\ (N - k) - 1 = N - (k + 1) /\ N - (k + 1) + 1 = N - k
    OBVIOUS
  <2>2. r[k + 1] = s[N - k]
    BY <1>1, <2>1
  <2>3. Place(After(w, s), r, k + 1) = Other(Place(After(w, s), r, k), r[k + 1])
    BY <1>1, <1>2, <2>1, Places
  <2> QED BY <1>3, <1>5, <2>1, <2>2, <2>3
<1> HIDE DEF S
<1>6. Nat \subseteq S
  BY <1>4, <1>5, NatSet
<1>7. ASSUME NEW k \in 0..N
      PROVE  Place(After(w, s), r, k) = Place(w, s, N - k)
  BY <1>6 DEF S
<1>8. Walkable(After(w, s), r)
  <2> SUFFICES ASSUME NEW k \in 1..N PROVE r[k] \in EdgesAt(Place(After(w, s), r, k - 1))
    BY <1>1 DEF Walkable
  <2>1. k - 1 \in 0..N /\ N - (k - 1) = N - k + 1 /\ N - k + 1 \in 1..N
    OBVIOUS
  <2> QED BY <1>1, <1>3, <1>7, <2>1
<1>9. After(After(w, s), r) = w
  <2>1. Place(After(w, s), r, Len(r)) = After(After(w, s), r)
    BY <1>1, <1>2, Places
  <2>2. N \in 0..N /\ N - N = 0
    OBVIOUS
  <2> QED BY <1>1, <1>2, <1>7, <2>1, <2>2
<1> QED BY <1>1, <1>8, <1>9 DEF r

-----------------------------------------------------------------------------
(* A set of numbers that has all below each of its own begins at 0.        *)
LEMMA DownClosed ==
  ASSUME NEW n \in Nat, NEW S \in SUBSET (0..n), \A k \in 0..(n - 1) : k + 1 \in S => k \in S
  PROVE  Cardinality(S) \in Nat /\ S = 0..(Cardinality(S) - 1)
<1>1. IsFiniteSet(S) /\ Cardinality(S) \in Nat
  <2>1. IsFiniteSet(0..n)
    BY FS_Interval
  <2> QED BY <2>1, FS_Subset, FS_CardinalityType
<1>2. CASE S = {}
  <2>1. Cardinality(S) = 0
    BY <1>2, FS_EmptySet
  <2>2. 0..(0 - 1) = {}
    OBVIOUS
  <2> QED BY <1>2, <2>1, <2>2
<1>3. CASE S # {}
  <2>1. PICK m \in S : \A k \in S : k <= m
    BY <1>1, <1>3, GreatestNat
  <2>2. m \in 0..n
    OBVIOUS
  <2>3. 0..m \subseteq S
    <3> DEFINE gaps == {k \in 0..m : k \notin S}
    <3> SUFFICES ASSUME gaps # {} PROVE FALSE
      OBVIOUS
    <3>1. gaps \in SUBSET Nat /\ IsFiniteSet(gaps)
      <4>1. gaps \subseteq 0..m /\ IsFiniteSet(0..m) /\ 0..m \subseteq Nat
        BY <2>2, FS_Interval
      <4> HIDE DEF gaps
      <4> QED BY <2>2, <4>1, FS_Subset
    <3>2. PICK k \in gaps : \A j \in gaps : j <= k
      <4> HIDE DEF gaps
      <4> QED BY <3>1, GreatestNat
    <3>3. k # m
      BY <2>1, <3>2
    <3>4. k + 1 \in 0..m /\ k \in 0..(n - 1) /\ ~(k + 1 <= k)
      BY <2>2, <3>2, <3>3
    <3>5. k + 1 \in S
      BY <3>2, <3>4
    <3> QED BY <3>2, <3>4, <3>5
  <2>4. S \subseteq 0..m
    BY <2>1, <2>2
  <2>5. S = 0..m
    BY <2>3, <2>4
  <2>6. Cardinality(S) = m + 1
    BY <2>2, <2>5, FS_Interval
  <2> QED BY <1>1, <2>2, <2>5, <2>6
<1> QED BY <1>2, <1>3


-----------------------------------------------------------------------------
(* Shortest paths.                                                         *)

(* From the switches in near over the edges up one hop further out.        *)
Further(near, up) == near \cup {w \in V : \E e \in EdgesAt(w) \cap up : Other(w, e) \in near}

(* The switches within k hops of Dst, for each k.                          *)
WithinHops(up, W) ==
  W = [n \in 0..Cardinality(V) |->
        IF n = 0 THEN {Dst}
        ELSE LET near == W[n - 1]
             IN  near \cup {w \in V : \E e \in EdgesAt(w) \cap up : Other(w, e) \in near}]

(* The distance is counted by these sets.                                  *)
LEMMA DistanceByWithin ==
  ASSUME NEW up
  PROVE  \E W \in [0..Cardinality(V) -> SUBSET V] :
           /\ W[0] = {Dst}
           /\ \A k \in 1..Cardinality(V) : W[k] = Further(W[k - 1], up)
           /\ Distance(up) = [w \in V |-> Cardinality({k \in 0..Cardinality(V) : w \notin W[k]})]
<1> DEFINE n == Cardinality(V)
           A == SUBSET V
           start == {Dst}
           step == [p \in Int \X A |-> Further(p[2], up)]
<1>0. n \in Nat
  BY TopologyAssumption, FS_CardinalityType
<1> HIDE DEF n
<1>1. start \in A
  BY RoutesAssumption
<1>2. step \in [Int \X A -> A]
  BY DEF Further
<1> HIDE DEF start, step
<1>3. PICK f \in [0..n -> A] : Repeats(f, 0, n, start, step)
  <2> HIDE DEF A
  <2>1. 0 \in Int /\ n \in Int /\ 0 <= n
    BY <1>0
  <2> QED BY <1>1, <1>2, <2>1, RepetitionExists, Zenon
<1>6. ASSUME NEW k \in 0..n
      PROVE  f[k] = IF k = 0 THEN {Dst} ELSE Further(f[k - 1], up)
  <2>1. f[k] = IF k = 0 THEN start ELSE step[<<k, f[k - 1]>>]
    BY <1>3 DEF Repeats
  <2>2. CASE k = 0
    BY <2>1, <2>2 DEF start
  <2>3. CASE k # 0
    <3>1. k - 1 \in 0..n
      BY <1>0, <2>3
    <3>2. f[k - 1] \in A
      BY <1>3, <3>1
    <3>3. <<k, f[k - 1]>> \in Int \X A
      BY <3>2
    <3>4. f[k] = step[<<k, f[k - 1]>>]
      BY <2>1, <2>3
    <3>5. step[<<k, f[k - 1]>>] = Further(f[k - 1], up)
      <4> HIDE DEF A
      <4> QED BY <3>3 DEF step
    <3> QED BY <2>3, <3>4, <3>5
  <2> QED BY <2>2, <2>3
<1>7. WithinHops(up, f)
  <2>1. f = [k \in 0..n |-> f[k]]
    BY <1>3
  <2>2. [k \in 0..n |-> f[k]] = [k \in 0..n |-> IF k = 0 THEN {Dst} ELSE Further(f[k - 1], up)]
    BY <1>6
  <2> QED BY <2>1, <2>2 DEF WithinHops, Further, n
<1> DEFINE W == CHOOSE W : WithinHops(up, W)
<1>8. WithinHops(up, W)
  BY <1>7
<1>9. Distance(up) = [w \in V |-> Cardinality({k \in 0..Cardinality(V) : w \notin W[k]})]
  BY DEF Distance, WithinHops
<1> HIDE DEF W
<1>10. \A k \in 0..n : W[k] = IF k = 0 THEN {Dst} ELSE Further(W[k - 1], up)
  BY <1>8 DEF WithinHops, Further, n
<1> DEFINE S == {k \in Nat : k <= n => W[k] = f[k]}
<1>11. 0 \in S
  <2>1. 0 \in 0..n
    BY <1>0
  <2>2. W[0] = {Dst} /\ f[0] = {Dst}
    BY <1>6, <1>10, <2>1
  <2> QED BY <2>2
<1>12. ASSUME NEW k \in Nat, k \in S PROVE k + 1 \in S
  <2> SUFFICES ASSUME k + 1 <= n PROVE W[k + 1] = f[k + 1]
    OBVIOUS
  <2>1. k + 1 \in 0..n /\ (k + 1) - 1 = k /\ k <= n /\ k + 1 # 0
    BY <1>0
  <2> QED BY <1>6, <1>10, <1>12, <2>1
<1> HIDE DEF S
<1>13. Nat \subseteq S
  BY <1>11, <1>12, NatSet
<1>14. \A k \in 0..n : W[k] = f[k]
  BY <1>0, <1>13 DEF S
<1>15. W[0] = {Dst} /\ \A k \in 1..n : W[k] = Further(W[k - 1], up)
  BY <1>0, <1>10
<1>16. W \in [0..n -> SUBSET V]
  <2>1. W = [k \in 0..n |-> W[k]]
    BY <1>8 DEF WithinHops, n
  <2>2. \A k \in 0..n : W[k] \in SUBSET V
    BY <1>3, <1>14
  <2> QED BY <2>1, <2>2
<1> QED BY <1>9, <1>15, <1>16 DEF n

(* What distances are.                                                     *)
LEMMA Distances ==
  ASSUME NEW up
  PROVE  /\ Distance(up) \in [V -> Nat]
         /\ \A w \in V : Distance(up)[w] = 0 <=> w = Dst
         /\ \A w \in V : Distance(up)[w] \in 1..Cardinality(V) =>
              \E e \in EdgesAt(w) \cap up : Distance(up)[Other(w, e)] = Distance(up)[w] - 1
         /\ \A w \in V : \A e \in EdgesAt(w) \cap up :
              Distance(up)[w] > Cardinality(V) => Distance(up)[Other(w, e)] > Cardinality(V)
<1> DEFINE n == Cardinality(V)
           D == Distance(up)
<1>0. n \in Nat \ {0} /\ IsFiniteSet(V)
  <2>1. n # 0
    BY TopologyAssumption, FS_EmptySet
  <2> QED BY <2>1, TopologyAssumption, FS_CardinalityType
<1>1. PICK W \in [0..n -> SUBSET V] :
           /\ W[0] = {Dst}
           /\ \A k \in 1..n : W[k] = Further(W[k - 1], up)
           /\ D = [w \in V |-> Cardinality({k \in 0..n : w \notin W[k]})]
  BY DistanceByWithin
<1> HIDE DEF D, n
<1>2. \A k \in 0..(n - 1) : W[k] \subseteq W[k + 1]
  <2> TAKE k \in 0..(n - 1)
  <2>1. k + 1 \in 1..n /\ (k + 1) - 1 = k
    BY <1>0
  <2>2. W[k + 1] = Further(W[k], up)
    BY <1>1, <2>1
  <2> QED BY <2>2 DEF Further
<1>3. ASSUME NEW w \in V
      PROVE  D[w] \in Nat /\ D[w] <= n + 1 /\ \A k \in 0..n : w \in W[k] <=> D[w] <= k
  <2> DEFINE S == {k \in 0..n : w \notin W[k]}
  <2>1. S \in SUBSET (0..n)
    OBVIOUS
  <2>2. \A k \in 0..(n - 1) : k + 1 \in S => k \in S
    <3> TAKE k \in 0..(n - 1)
    <3>1. k \in 0..n
      BY <1>0
    <3> QED BY <1>2, <3>1
  <2> HIDE DEF S
  <2>3. Cardinality(S) \in Nat /\ S = 0..(Cardinality(S) - 1)
    BY <1>0, <2>1, <2>2, DownClosed
  <2>4. D[w] = Cardinality(S)
    BY <1>1 DEF S
  <2>5. D[w] <= n + 1
    <3> SUFFICES ASSUME ~(D[w] <= n + 1) PROVE FALSE
      OBVIOUS
    <3>1. n + 1 \in S
      BY <1>0, <2>3, <2>4
    <3> QED BY <1>0, <2>1, <3>1
  <2>6. ASSUME NEW k \in 0..n PROVE w \in W[k] <=> D[w] <= k
    <3>1. w \in W[k] <=> k \notin S
      BY DEF S
    <3>2. k \in S <=> k < D[w]
      BY <1>0, <2>3, <2>4
    <3> QED BY <1>0, <2>3, <2>4, <3>1, <3>2
  <2> QED BY <2>3, <2>4, <2>5, <2>6
<1>4. D \in [V -> Nat]
  <2>1. D = [w \in V |-> D[w]]
    BY <1>1
  <2> QED BY <1>3, <2>1
<1>5. ASSUME NEW w \in V PROVE D[w] = 0 <=> w = Dst
  <2>1. 0 \in 0..n
    BY <1>0
  <2>2. w \in W[0] <=> D[w] <= 0
    BY <1>3, <2>1
  <2> QED BY <1>1, <1>3, <2>2
<1>6. ASSUME NEW w \in V, D[w] \in 1..n
      PROVE  \E e \in EdgesAt(w) \cap up : D[Other(w, e)] = D[w] - 1
  <2>1. PICK d : d = D[w]
    OBVIOUS
  <2>2. d \in 1..n /\ d \in 0..n /\ d - 1 \in 0..n /\ d - 1 \in 0..(n - 1)
    BY <1>0, <1>6, <2>1
  <2>3. w \in W[d] /\ w \notin W[d - 1]
    BY <1>3, <2>1, <2>2
  <2>4. W[d] = Further(W[d - 1], up)
    BY <1>1, <2>2
  <2>5. PICK e \in EdgesAt(w) \cap up : Other(w, e) \in W[d - 1]
    BY <2>3, <2>4 DEF Further
  <2>6. PICK u \in V : u = Other(w, e)
    BY OtherType DEF EdgesAt
  <2>7. D[u] <= d - 1
    BY <1>3, <2>2, <2>5, <2>6
  <2>8. ~(D[u] < d - 1)
    <3> SUFFICES ASSUME D[u] < d - 1 PROVE FALSE
      OBVIOUS
    <3>1. D[u] \in Nat
      BY <1>3
    <3>2. d - 2 \in 0..n /\ D[u] <= d - 2 /\ d - 1 \in 1..n /\ (d - 1) - 1 = d - 2
      BY <1>0, <2>2, <3>1
    <3>3. u \in W[d - 2]
      BY <1>3, <3>2
    <3>4. W[d - 1] = Further(W[d - 2], up)
      BY <1>1, <3>2
    <3>5. w \in W[d - 1]
      BY <2>6, <3>3, <3>4 DEF Further
    <3> QED BY <2>3, <3>5
  <2>9. D[u] = d - 1
    <3>1. D[u] \in Nat
      BY <1>3
    <3> QED BY <2>2, <2>7, <2>8, <3>1
  <2> QED BY <2>1, <2>6, <2>9
<1>7. n >= 1 /\ W[n] = W[n - 1]
  <2>1. \A k \in 1..(n - 1) : W[k] = W[k - 1] => W[k + 1] = W[k]
    <3> TAKE k \in 1..(n - 1)
    <3>1. k \in 1..n /\ k + 1 \in 1..n /\ (k + 1) - 1 = k
      BY <1>0
    <3>2. W[k] = Further(W[k - 1], up) /\ W[k + 1] = Further(W[k], up)
      BY <1>1, <3>1
    <3> QED BY <3>2
  <2>2. W[0] # {}
    BY <1>1
  <2>3. n \in Nat /\ Cardinality(V) <= n
    BY <1>0 DEF n
  <2>4. IsFiniteSet(V)
    BY TopologyAssumption
  <2> QED BY <1>2, <2>1, <2>2, <2>3, <2>4, ChainStops, Zenon
<1>8. ASSUME NEW w \in V, NEW e \in EdgesAt(w) \cap up, D[w] > n
      PROVE  D[Other(w, e)] > n
  <2>1. PICK u \in V : u = Other(w, e)
    BY OtherType DEF EdgesAt
  <2> SUFFICES ASSUME ~(D[u] > n) PROVE FALSE
    BY <2>1
  <2>2. n \in 0..n /\ n \in 1..n /\ D[u] <= n
    <3>1. D[u] \in Nat
      BY <1>3
    <3> QED BY <1>0, <3>1
  <2>3. u \in W[n - 1]
    BY <1>3, <1>7, <2>2
  <2>4. W[n] = Further(W[n - 1], up)
    BY <1>1, <2>2
  <2>5. w \in W[n]
    BY <2>1, <2>3, <2>4 DEF Further
  <2>6. D[w] <= n /\ D[w] \in Nat
    BY <1>3, <2>2, <2>5
  <2> QED BY <1>0, <1>8, <2>6
<1> QED BY <1>4, <1>5, <1>6, <1>8 DEF D, n

-----------------------------------------------------------------------------
(* A way of hops over the edges up from w that ends at Dst, and only there.*)
Leads(w, up, p) ==
  /\ p \in Seq(E)
  /\ \A k \in 1..Len(p) : p[k] \in up
  /\ Walkable(w, p)
  /\ After(w, p) = Dst
  /\ \A k \in 0..(Len(p) - 1) : Place(w, p, k) # Dst

(* A way from the next switch is one from this switch, a hop longer.       *)
LEMMA LeadsFurther ==
  ASSUME NEW up, NEW w \in V, w # Dst, NEW e \in EdgesAt(w) \cap up, NEW p, Leads(Other(w, e), up, p)
  PROVE  Leads(w, up, <<e>> \o p)
<1> DEFINE s == <<e>>
           c == s \o p
<1>1. e \in E /\ s \in Seq(E) /\ Len(s) = 1 /\ s[1] = e /\ p \in Seq(E)
  BY DEF EdgesAt, Leads
<1> HIDE DEF s
<1>2. After(w, s) = Other(w, e) /\ Place(w, s, 0) = w
  <2>1. Place(w, s, 1) = Other(Place(w, s, 1 - 1), s[1]) /\ Place(w, s, 1) = After(w, s) /\ Place(w, s, 0) = w
    <3>1. 1 \in 1..Len(s)
      BY <1>1
    <3> QED BY <1>1, <3>1, Places
  <2> QED BY <1>1, <2>1
<1>3. /\ c \in Seq(E) /\ Len(c) = 1 + Len(p)
      /\ \A k \in 1..(1 + Len(p)) : c[k] = IF k <= 1 THEN e ELSE p[k - 1]
  <2>1. /\ c \in Seq(E) /\ Len(c) = Len(s) + Len(p)
        /\ \A k \in 1..(Len(s) + Len(p)) : c[k] = IF k <= Len(s) THEN s[k] ELSE p[k - Len(s)]
    BY <1>1, ConcatProperties
  <2> QED BY <1>1, <2>1
<1>4. Walkable(w, c) /\ After(w, c) = Dst
  <2>1. Walkable(w, s)
    BY <1>1, <1>2 DEF Walkable
  <2>2. Walkable(After(w, s), p) /\ After(After(w, s), p) = Dst
    BY <1>2 DEF Leads
  <2>3. Walkable(w, s \o p) <=> Walkable(w, s) /\ Walkable(After(w, s), p)
    BY <1>1, WalkConcat
  <2>4. After(w, s \o p) = After(After(w, s), p)
    BY <1>1, PlaceConcat
  <2> QED BY <2>1, <2>2, <2>3, <2>4
<1>5. /\ \A n \in 0..1 : Place(w, c, n) = Place(w, s, n)
      /\ \A n \in 0..Len(p) : Place(w, c, 1 + n) = Place(Other(w, e), p, n)
  <2>1. /\ \A n \in 0..Len(s) : Place(w, s \o p, n) = Place(w, s, n)
        /\ \A n \in 0..Len(p) : Place(w, s \o p, Len(s) + n) = Place(After(w, s), p, n)
    BY <1>1, PlaceConcat
  <2> QED BY <1>1, <1>2, <2>1
<1> HIDE DEF c
<1>6. \A k \in 1..Len(c) : c[k] \in up
  <2> TAKE k \in 1..Len(c)
  <2>1. CASE k = 1
    BY <1>3, <2>1
  <2>2. CASE k # 1
    <3>1. k - 1 \in 1..Len(p) /\ ~(k <= 1)
      BY <1>1, <1>3, <2>2
    <3> QED BY <1>3, <3>1 DEF Leads
  <2> QED BY <2>1, <2>2
<1>7. \A k \in 0..(Len(c) - 1) : Place(w, c, k) # Dst
  <2> TAKE k \in 0..(Len(c) - 1)
  <2>1. CASE k = 0
    BY <1>2, <1>5, <2>1
  <2>2. CASE k # 0
    <3>1. k - 1 \in 0..(Len(p) - 1) /\ k - 1 \in 0..Len(p) /\ 1 + (k - 1) = k
      BY <1>1, <1>3, <2>2
    <3> QED BY <1>5, <3>1, ZenonT(30) DEF Leads
  <2> QED BY <2>1, <2>2
<1> QED BY <1>3, <1>4, <1>6, <1>7 DEF Leads, c

(* The way of no hops.                                                     *)
LEMMA LeadsHere ==
  ASSUME NEW up
  PROVE  Leads(Dst, up, << >>)
<1>1. << >> \in Seq(E) /\ Len(<< >>) = 0 /\ Dst \in V
  BY RoutesAssumption
<1>2. After(Dst, << >>) = Dst
  BY <1>1, Places
<1> QED BY <1>1, <1>2 DEF Leads, Walkable

(* The shortest paths of length n to every switch at that distance.        *)
Longer(dist, up, last, n) ==
  [w \in {u \in V : dist[u] = n} |->
     UNION {{<<e>> \o p : p \in last[Other(w, e)]} :
            e \in {e \in EdgesAt(w) \cap up : Other(w, e) \in DOMAIN last}}]

PathSteps(up, F) ==
  F = [n \in 0..Cardinality(V) |->
        IF n = 0 THEN [w \in {Dst} |-> {<<>>}]
        ELSE LET last == F[n - 1]
                 ways(w) == {e \in EdgesAt(w) \cap up : Other(w, e) \in DOMAIN last}
             IN  [w \in {u \in V : Distance(up)[u] = n} |->
                    UNION {{<<e>> \o p : p \in last[Other(w, e)]} : e \in ways(w)}]]

(* Functions from some switches to sets of ways.                           *)
Ways == UNION {[W -> SUBSET Seq(E)] : W \in SUBSET V}

(* One more hop gives such a function.                                     *)
LEMMA LongerType ==
  ASSUME NEW dist, NEW up, NEW last \in Ways, NEW n
  PROVE  Longer(dist, up, last, n) \in Ways
<1> DEFINE W == {u \in V : dist[u] = n}
           to(w) == UNION {{<<e>> \o p : p \in last[Other(w, e)]} :
                           e \in {e \in EdgesAt(w) \cap up : Other(w, e) \in DOMAIN last}}
<1>1. PICK X \in SUBSET V : last \in [X -> SUBSET Seq(E)]
  BY DEF Ways
<1>2. ASSUME NEW w \in W PROVE to(w) \in SUBSET Seq(E)
  <2> SUFFICES ASSUME NEW q \in to(w) PROVE q \in Seq(E)
    OBVIOUS
  <2>1. PICK e \in EdgesAt(w) \cap up : Other(w, e) \in DOMAIN last /\ q \in {<<e>> \o p : p \in last[Other(w, e)]}
    OBVIOUS
  <2>2. PICK p \in last[Other(w, e)] : q = <<e>> \o p
    BY <2>1
  <2>3. p \in Seq(E) /\ <<e>> \in Seq(E)
    BY <1>1, <2>1 DEF EdgesAt
  <2> QED BY <2>2, <2>3, ConcatProperties
<1> HIDE DEF to
<1>3. [w \in W |-> to(w)] \in [W -> SUBSET Seq(E)]
  BY <1>2
<1>4. W \in SUBSET V
  OBVIOUS
<1>5. [w \in W |-> to(w)] \in Ways
  <2> HIDE DEF W
  <2> QED BY <1>3, <1>4 DEF Ways
<1> QED BY <1>5 DEF Longer, to

(* The shortest paths are built in these steps.                            *)
LEMMA PathsBySteps ==
  ASSUME NEW up
  PROVE  \E F \in [0..Cardinality(V) -> Ways] :
           /\ F[0] = [w \in {Dst} |-> {<< >>}]
           /\ \A n \in 1..Cardinality(V) : F[n] = Longer(Distance(up), up, F[n - 1], n)
           /\ \A w \in V : ShortestPaths(w, up) =
                IF Distance(up)[w] > Cardinality(V) THEN {} ELSE F[Distance(up)[w]][w]
<1> DEFINE n == Cardinality(V)
           dist == Distance(up)
           start == [w \in {Dst} |-> {<< >>}]
           step == [p \in Int \X Ways |-> Longer(dist, up, p[2], p[1])]
<1>0. n \in Nat
  BY TopologyAssumption, FS_CardinalityType
<1> HIDE DEF n, dist
<1>1. start \in Ways
  <2>1. {Dst} \in SUBSET V /\ start \in [{Dst} -> SUBSET Seq(E)]
    BY RoutesAssumption
  <2> QED BY <2>1 DEF Ways
<1>2. step \in [Int \X Ways -> Ways]
  <2>1. \A p \in Int \X Ways : Longer(dist, up, p[2], p[1]) \in Ways
    BY LongerType
  <2> QED BY <2>1
<1> HIDE DEF start, step
<1>3. PICK f \in [0..n -> Ways] : Repeats(f, 0, n, start, step)
  <2>1. 0 \in Int /\ n \in Int /\ 0 <= n
    BY <1>0
  <2> QED BY <1>1, <1>2, <2>1, RepetitionExists, Zenon
<1>6. ASSUME NEW k \in 0..n
      PROVE  f[k] = IF k = 0 THEN start ELSE Longer(dist, up, f[k - 1], k)
  <2>1. f[k] = IF k = 0 THEN start ELSE step[<<k, f[k - 1]>>]
    BY <1>3 DEF Repeats
  <2>2. CASE k = 0
    BY <2>1, <2>2
  <2>3. CASE k # 0
    <3>1. k - 1 \in 0..n
      BY <1>0, <2>3
    <3>2. f[k - 1] \in Ways
      BY <1>3, <3>1
    <3>3. <<k, f[k - 1]>> \in Int \X Ways
      BY <3>2
    <3>4. f[k] = step[<<k, f[k - 1]>>]
      BY <2>1, <2>3
    <3>5. step[<<k, f[k - 1]>>] = Longer(dist, up, f[k - 1], k)
      BY <3>3 DEF step
    <3> QED BY <2>3, <3>4, <3>5
  <2> QED BY <2>2, <2>3
<1>7. PathSteps(up, f)
  <2>1. f = [k \in 0..n |-> f[k]]
    BY <1>3
  <2>2. [k \in 0..n |-> f[k]] = [k \in 0..n |-> IF k = 0 THEN start ELSE Longer(dist, up, f[k - 1], k)]
    BY <1>6
  <2> QED BY <2>1, <2>2 DEF PathSteps, Longer, n, dist, start
<1> DEFINE F == CHOOSE F : PathSteps(up, F)
<1>8. PathSteps(up, F)
  BY <1>7
<1>9. ASSUME NEW w \in V
      PROVE  ShortestPaths(w, up) = IF dist[w] > n THEN {} ELSE F[dist[w]][w]
  BY DEF ShortestPaths, PathSteps, dist, n
<1> HIDE DEF F
<1>10. F = [k \in 0..n |-> IF k = 0 THEN start ELSE Longer(dist, up, F[k - 1], k)]
  BY <1>8 DEF PathSteps, Longer, n, dist, start
<1> DEFINE S == {k \in Nat : k <= n => F[k] = f[k]}
<1>11. 0 \in S
  <2>1. 0 \in 0..n
    BY <1>0
  <2>2. F[0] = start /\ f[0] = start
    BY <1>6, <1>10, <2>1
  <2> QED BY <2>2
<1>12. ASSUME NEW k \in Nat, k \in S PROVE k + 1 \in S
  <2> SUFFICES ASSUME k + 1 <= n PROVE F[k + 1] = f[k + 1]
    OBVIOUS
  <2>1. k + 1 \in 0..n /\ (k + 1) - 1 = k /\ k <= n /\ k + 1 # 0
    BY <1>0
  <2> QED BY <1>6, <1>10, <1>12, <2>1
<1> HIDE DEF S
<1>13. Nat \subseteq S
  BY <1>11, <1>12, NatSet
<1>14. \A k \in 0..n : F[k] = f[k]
  BY <1>0, <1>13 DEF S
<1>15. F[0] = start /\ \A k \in 1..n : F[k] = Longer(dist, up, F[k - 1], k)
  <2>1. 0 \in 0..n
    BY <1>0
  <2>2. \A k \in 1..n : k \in 0..n /\ k # 0
    BY <1>0
  <2> QED BY <1>10, <2>1, <2>2
<1>16. F \in [0..n -> Ways]
  <2>1. F = [k \in 0..n |-> F[k]]
    BY <1>10
  <2>2. \A k \in 0..n : F[k] \in Ways
    BY <1>3, <1>14
  <2> QED BY <2>1, <2>2
<1> QED BY <1>9, <1>15, <1>16 DEF n, dist, start

(* Switches that the edges up cut off from Dst.                            *)
CutOff(up, w) ==
  \E X \in SUBSET V : /\ w \in X /\ Dst \notin X
                      /\ \A u \in X : \A e \in EdgesAt(u) \cap up : Other(u, e) \in X

(* The shortest paths lead to Dst, and there are none only from a switch   *)
(* that is cut off.                                                        *)
LEMMA ShortestPathsLead ==
  ASSUME NEW up, NEW w \in V
  PROVE  /\ \A p \in ShortestPaths(w, up) : Leads(w, up, p)
         /\ ShortestPaths(w, up) = {} <=> CutOff(up, w)
<1> DEFINE n == Cardinality(V)
           dist == Distance(up)
<1>0. n \in Nat
  BY TopologyAssumption, FS_CardinalityType
<1>1. PICK F \in [0..n -> Ways] :
           /\ F[0] = [u \in {Dst} |-> {<< >>}]
           /\ \A k \in 1..n : F[k] = Longer(dist, up, F[k - 1], k)
           /\ \A u \in V : ShortestPaths(u, up) = IF dist[u] > n THEN {} ELSE F[dist[u]][u]
  BY PathsBySteps
<1>2. /\ dist \in [V -> Nat]
      /\ \A u \in V : dist[u] = 0 <=> u = Dst
      /\ \A u \in V : dist[u] \in 1..n => \E e \in EdgesAt(u) \cap up : dist[Other(u, e)] = dist[u] - 1
      /\ \A u \in V : \A e \in EdgesAt(u) \cap up : dist[u] > n => dist[Other(u, e)] > n
  BY Distances
<1> HIDE DEF n, dist
<1> DEFINE S == {k \in Nat : k <= n =>
                   /\ DOMAIN F[k] = {u \in V : dist[u] = k}
                   /\ \A u \in V : dist[u] = k => F[k][u] # {} /\ \A p \in F[k][u] : Leads(u, up, p)}
<1>3. 0 \in S
  <2>1. {u \in V : dist[u] = 0} = {Dst}
    BY <1>2, RoutesAssumption
  <2>2. F[0][Dst] = {<< >>} /\ DOMAIN F[0] = {Dst}
    BY <1>1
  <2>3. \A u \in V : dist[u] = 0 => u = Dst
    BY <1>2
  <2>4. \A u \in V : dist[u] = 0 => F[0][u] # {} /\ \A p \in F[0][u] : Leads(u, up, p)
    <3> SUFFICES ASSUME NEW u \in V, dist[u] = 0
                 PROVE  F[0][u] # {} /\ \A p \in F[0][u] : Leads(u, up, p)
      OBVIOUS
    <3>1. u = Dst /\ F[0][u] = {<< >>}
      BY <2>2, <2>3
    <3>2. Leads(u, up, << >>)
      BY <3>1, LeadsHere, Zenon
    <3> QED BY <3>1, <3>2, Zenon
  <2>5. DOMAIN F[0] = {u \in V : dist[u] = 0}
    BY <2>1, <2>2
  <2> QED BY <2>4, <2>5
<1>4. ASSUME NEW k \in Nat, k \in S PROVE k + 1 \in S
  <2> SUFFICES ASSUME k + 1 <= n
               PROVE  /\ DOMAIN F[k + 1] = {u \in V : dist[u] = k + 1}
                      /\ \A u \in V : dist[u] = k + 1 => F[k + 1][u] # {} /\ \A p \in F[k + 1][u] : Leads(u, up, p)
    OBVIOUS
  <2>1. k + 1 \in 1..n /\ (k + 1) - 1 = k /\ k <= n
    BY <1>0
  <2>2. F[k + 1] = Longer(dist, up, F[k], k + 1)
    BY <1>1, <2>1
  <2>3. DOMAIN F[k + 1] = {u \in V : dist[u] = k + 1}
    BY <2>2 DEF Longer
  <2>4. /\ DOMAIN F[k] = {u \in V : dist[u] = k}
        /\ \A u \in V : dist[u] = k => F[k][u] # {} /\ \A p \in F[k][u] : Leads(u, up, p)
    BY <1>4, <2>1
  <2>5. ASSUME NEW u \in V, dist[u] = k + 1
        PROVE  F[k + 1][u] # {} /\ \A p \in F[k + 1][u] : Leads(u, up, p)
    <3>1. F[k + 1][u] = UNION {{<<e>> \o p : p \in F[k][Other(u, e)]} :
                               e \in {e \in EdgesAt(u) \cap up : Other(u, e) \in DOMAIN F[k]}}
      BY <2>2, <2>5 DEF Longer
    <3>2. F[k + 1][u] # {}
      <4>1. PICK e \in EdgesAt(u) \cap up : dist[Other(u, e)] = k
        BY <1>2, <2>1, <2>5
      <4>2. Other(u, e) \in V
        BY OtherType DEF EdgesAt
      <4>3. Other(u, e) \in DOMAIN F[k] /\ F[k][Other(u, e)] # {}
        BY <2>4, <4>1, <4>2
      <4>4. PICK p \in F[k][Other(u, e)] : TRUE
        BY <4>3
      <4>5. <<e>> \o p \in F[k + 1][u]
        BY <3>1, <4>3, <4>4
      <4> QED BY <4>5
    <3>3. ASSUME NEW q \in F[k + 1][u] PROVE Leads(u, up, q)
      <4>1. PICK e \in EdgesAt(u) \cap up : Other(u, e) \in DOMAIN F[k] /\ q \in {<<e>> \o p : p \in F[k][Other(u, e)]}
        BY <3>1
      <4>2. PICK p \in F[k][Other(u, e)] : q = <<e>> \o p
        BY <4>1
      <4>3. Leads(Other(u, e), up, p)
        BY <2>4, <4>1
      <4>4. u # Dst
        BY <1>2, <2>5
      <4> QED BY <4>2, <4>3, <4>4, LeadsFurther
    <3> QED BY <3>2, <3>3
  <2> QED BY <2>3, <2>5
<1> HIDE DEF S
<1>5. Nat \subseteq S
  BY <1>3, <1>4, NatSet
<1>6. CASE dist[w] > n
  <2> DEFINE X == {u \in V : dist[u] > n}
  <2>1. w \in X /\ Dst \notin X
    BY <1>0, <1>2, <1>6, RoutesAssumption
  <2>2. \A u \in X : \A e \in EdgesAt(u) \cap up : Other(u, e) \in X
    <3> TAKE u \in X
    <3> TAKE e \in EdgesAt(u) \cap up
    <3>1. Other(u, e) \in V
      BY OtherType DEF EdgesAt
    <3> QED BY <1>2, <3>1
  <2>3. X \in SUBSET V
    OBVIOUS
  <2> HIDE DEF X
  <2>4. CutOff(up, w)
    BY <2>1, <2>2, <2>3 DEF CutOff
  <2>5. ShortestPaths(w, up) = {}
    BY <1>1, <1>6
  <2> QED BY <2>4, <2>5
<1>7. CASE ~(dist[w] > n)
  <2>1. dist[w] \in S /\ dist[w] <= n
    BY <1>0, <1>2, <1>5, <1>7
  <2>2. F[dist[w]][w] # {} /\ \A p \in F[dist[w]][w] : Leads(w, up, p)
    BY <2>1 DEF S
  <2>3. ShortestPaths(w, up) = F[dist[w]][w]
    BY <1>1, <1>7
  <2>4. ~CutOff(up, w)
    <3> SUFFICES ASSUME CutOff(up, w) PROVE FALSE
      OBVIOUS
    <3>1. PICK X \in SUBSET V : /\ w \in X /\ Dst \notin X
                      /\ \A u \in X : \A e \in EdgesAt(u) \cap up : Other(u, e) \in X
      BY DEF CutOff
    <3>2. PICK p \in F[dist[w]][w] : Leads(w, up, p)
      BY <2>2
    <3>3. /\ p \in Seq(E) /\ After(w, p) = Dst
          /\ \A k \in 1..Len(p) : p[k] \in up /\ p[k] \in EdgesAt(Place(w, p, k - 1))
      BY <3>2 DEF Leads, Walkable
    <3>4. /\ Place(w, p, 0) = w /\ Place(w, p, Len(p)) = After(w, p)
          /\ \A k \in 1..Len(p) : Place(w, p, k) = Other(Place(w, p, k - 1), p[k])
      BY <3>3, Places
    <3> DEFINE K == {k \in Nat : k <= Len(p) => Place(w, p, k) \in X}
    <3>5. 0 \in K
      BY <3>1, <3>4
    <3>6. ASSUME NEW k \in Nat, k \in K PROVE k + 1 \in K
      <4> SUFFICES ASSUME k + 1 <= Len(p) PROVE Place(w, p, k + 1) \in X
        OBVIOUS
      <4>1. k + 1 \in 1..Len(p) /\ (k + 1) - 1 = k /\ k <= Len(p)
        BY <3>3
      <4> QED BY <3>1, <3>3, <3>4, <3>6, <4>1
    <3> HIDE DEF K
    <3>7. Len(p) \in K
      BY <3>3, <3>5, <3>6, NatSet
    <3> QED BY <3>1, <3>3, <3>4, <3>7 DEF K
  <2> QED BY <2>2, <2>3, <2>4
<1> QED BY <1>6, <1>7

(* A switch beyond an edge that is up is cut off if the other end is, and  *)
(* what fewer edges reach more edges reach.                                *)
LEMMA CutOffKept ==
  ASSUME NEW up
  PROVE  /\ \A u \in V : \A e \in EdgesAt(u) \cap up : CutOff(up, Other(u, e)) => CutOff(up, u)
         /\ \A less \in SUBSET up, u \in V : CutOff(up, u) => CutOff(less, u)
<1>1. ASSUME NEW u \in V, NEW e \in EdgesAt(u) \cap up, CutOff(up, Other(u, e))
      PROVE  CutOff(up, u)
  <2>1. PICK X \in SUBSET V : /\ Other(u, e) \in X /\ Dst \notin X
                    /\ \A x \in X : \A f \in EdgesAt(x) \cap up : Other(x, f) \in X
    BY <1>1 DEF CutOff
  <2>2. /\ Other(Other(u, e), e) = u /\ e \in EdgesAt(Other(u, e))
    <3>1. e \in E /\ u \in Ends[e]
      BY DEF EdgesAt
    <3> QED BY <3>1, OtherEnd DEF EdgesAt
  <2>3. u \in X
    BY <2>1, <2>2
  <2> QED BY <2>1, <2>3 DEF CutOff
<1>2. ASSUME NEW less \in SUBSET up, NEW u \in V, CutOff(up, u)
      PROVE  CutOff(less, u)
  BY <1>2 DEF CutOff
<1> QED BY <1>1, <1>2

-----------------------------------------------------------------------------
(* The hops followed: all, or those before the first that has failed.      *)
LEMMA FollowedAt ==
  ASSUME NEW hs \in Seq(E), NEW F
  PROVE  \/ /\ \A k \in 1..Len(hs) : hs[k] \notin F
            /\ Followed(hs, F) = hs
         \/ \E n \in 1..Len(hs) : /\ hs[n] \in F
                                  /\ \A k \in 1..(n - 1) : hs[k] \notin F
                                  /\ Followed(hs, F) = SubSeq(hs, 1, n - 1)
<1> DEFINE broken == {n \in DOMAIN hs : hs[n] \in F}
<1>1. DOMAIN hs = 1..Len(hs)
  OBVIOUS
<1>2. Followed(hs, F) = IF broken = {} THEN hs ELSE SubSeq(hs, 1, Min(broken) - 1)
  BY DEF Followed
<1>3. CASE broken = {}
  BY <1>1, <1>2, <1>3
<1>4. CASE broken # {}
  <2>1. broken \in SUBSET Nat
    BY <1>1
  <2>2. \E n \in broken : \A m \in broken : n <= m
    <3> HIDE DEF broken
    <3> QED BY <1>4, <2>1, LeastNat
  <2>3. PICK n : n = Min(broken)
    OBVIOUS
  <2>4. n \in broken /\ \A m \in broken : n <= m
    BY <2>2, <2>3 DEF Min
  <2>5. n \in 1..Len(hs) /\ hs[n] \in F
    BY <1>1, <2>4
  <2>6. \A k \in 1..(n - 1) : hs[k] \notin F
    <3> TAKE k \in 1..(n - 1)
    <3>1. k \in 1..Len(hs) /\ ~(n <= k)
      BY <2>5
    <3> QED BY <1>1, <2>4, <3>1
  <2>7. Followed(hs, F) = SubSeq(hs, 1, n - 1)
    BY <1>2, <1>4, <2>3
  <2> QED BY <2>5, <2>6, <2>7
<1> QED BY <1>3, <1>4

-----------------------------------------------------------------------------
(* Routes and the whole way a packet on them goes.                         *)

RouteType == [v : V, hops : Seq(E), failedE : SUBSET E, rp : Seq(E)]

(* A route leads to Dst over edges it does not know to be down, and its    *)
(* reverse path can be walked.                                             *)
RouteOK(r) ==
  /\ r \in RouteType
  /\ Leads(r.v, E \ r.failedE, r.hops)
  /\ r.v # Dst
  /\ Walkable(r.v, r.rp)

(* Where the packets of a route come from, and their way to Dst.           *)
Origin(r) == After(r.v, r.rp)
Way(r) == Reverse(r.rp) \o r.hops
Head_(r) == Len(r.rp)

(* The reverse path before the n-th hop.                                   *)
Behind(r, n) == Reverse(SubSeq(r.hops, 1, n - 1)) \o r.rp

(* The type of a route.                                                    *)
LEMMA RouteFields ==
  ASSUME NEW r, RouteOK(r)
  PROVE  /\ r.v \in V /\ r.hops \in Seq(E) /\ r.failedE \in SUBSET E /\ r.rp \in Seq(E)
         /\ Len(r.hops) \in Nat /\ Len(r.rp) \in Nat /\ Len(r.hops) > 0
         /\ Origin(r) \in V
         /\ Walkable(r.v, r.hops) /\ After(r.v, r.hops) = Dst
         /\ \A k \in 1..Len(r.hops) : r.hops[k] \in E \ r.failedE
         /\ \A k \in 0..(Len(r.hops) - 1) : Place(r.v, r.hops, k) \in V \ {Dst}
<1>1. r.v \in V /\ r.hops \in Seq(E) /\ r.failedE \in SUBSET E /\ r.rp \in Seq(E)
  BY DEF RouteOK, RouteType
<1>2. /\ Walkable(r.v, r.hops) /\ After(r.v, r.hops) = Dst
      /\ \A k \in 1..Len(r.hops) : r.hops[k] \in E \ r.failedE
      /\ \A k \in 0..(Len(r.hops) - 1) : Place(r.v, r.hops, k) # Dst
  BY DEF RouteOK, Leads
<1>3. Len(r.hops) > 0
  <2> SUFFICES ASSUME Len(r.hops) = 0 PROVE FALSE
    BY <1>1
  <2>1. Place(r.v, r.hops, 0) = r.v /\ Place(r.v, r.hops, Len(r.hops)) = After(r.v, r.hops)
    BY <1>1, Places
  <2> QED BY <1>2, <2>1 DEF RouteOK
<1>4. Origin(r) \in V
  <2>1. Place(r.v, r.rp, Len(r.rp)) = After(r.v, r.rp) /\ \A n \in 0..Len(r.rp) : Place(r.v, r.rp, n) \in V
    BY <1>1, Places
  <2>2. Len(r.rp) \in 0..Len(r.rp)
    BY <1>1
  <2> QED BY <2>1, <2>2 DEF Origin
<1>5. \A k \in 0..(Len(r.hops) - 1) : Place(r.v, r.hops, k) \in V
  <2>1. \A n \in 0..Len(r.hops) : Place(r.v, r.hops, n) \in V
    BY <1>1, Places
  <2>2. \A k \in 0..(Len(r.hops) - 1) : k \in 0..Len(r.hops)
    BY <1>1
  <2> QED BY <2>1, <2>2
<1>6. Len(r.hops) \in Nat /\ Len(r.rp) \in Nat
  BY <1>1
<1>7. \A k \in 0..(Len(r.hops) - 1) : Place(r.v, r.hops, k) \in V \ {Dst}
  BY <1>2, <1>5, Zenon
<1> QED BY <1>1, <1>2, <1>3, <1>4, <1>6, <1>7

(* Hops behind hops that are turned round.                                 *)
LEMMA TurnedConcat ==
  ASSUME NEW w \in V, NEW s \in Seq(E), NEW t \in Seq(E), Walkable(w, s)
  PROVE  /\ Reverse(s) \o t \in Seq(E) /\ Len(Reverse(s) \o t) = Len(s) + Len(t)
         /\ \A k \in 1..Len(s) : (Reverse(s) \o t)[k] = s[Len(s) - k + 1]
         /\ \A k \in 1..Len(t) : (Reverse(s) \o t)[Len(s) + k] = t[k]
<1> DEFINE b == Reverse(s)
           c == b \o t
<1>1. b \in Seq(E) /\ Len(b) = Len(s) /\ \A k \in 1..Len(s) : b[k] = s[Len(s) - k + 1]
  BY WalkBack
<1> HIDE DEF b
<1>2. /\ c \in Seq(E) /\ Len(c) = Len(b) + Len(t)
      /\ \A k \in 1..(Len(b) + Len(t)) : c[k] = IF k <= Len(b) THEN b[k] ELSE t[k - Len(b)]
  <2>1. b \in Seq(E) /\ t \in Seq(E)
    BY <1>1
  <2> QED BY <2>1, ConcatProperties
<1> HIDE DEF c
<1>3. ASSUME NEW k \in 1..Len(s) PROVE c[k] = s[Len(s) - k + 1]
  <2>1. k \in 1..(Len(b) + Len(t)) /\ k <= Len(b)
    BY <1>1
  <2> QED BY <1>1, <1>2, <2>1
<1>4. ASSUME NEW k \in 1..Len(t) PROVE c[Len(s) + k] = t[k]
  <2>1. Len(s) + k \in 1..(Len(b) + Len(t)) /\ ~(Len(s) + k <= Len(b)) /\ (Len(s) + k) - Len(b) = k
    BY <1>1
  <2> QED BY <1>2, <2>1
<1> QED BY <1>1, <1>2, <1>3, <1>4 DEF c, b

(* The way is the reverse path turned round and then the hops.             *)
LEMMA WayIs ==
  ASSUME NEW r, RouteOK(r)
  PROVE  /\ Way(r) \in Seq(E) /\ Len(Way(r)) = Head_(r) + Len(r.hops)
         /\ \A k \in 1..Head_(r) : Way(r)[k] = r.rp[Head_(r) - k + 1]
         /\ \A k \in 1..Len(r.hops) : Way(r)[Head_(r) + k] = r.hops[k]
<1>1. r.v \in V /\ r.hops \in Seq(E) /\ r.rp \in Seq(E) /\ Walkable(r.v, r.rp)
  BY RouteFields DEF RouteOK
<1> QED BY <1>1, TurnedConcat DEF Way, Head_

(* The reverse path before a hop is the way up to there, turned round: it  *)
(* leads back to where the packets come from.                              *)
LEMMA BehindIs ==
  ASSUME NEW r, RouteOK(r), NEW n \in 1..Len(r.hops)
  PROVE  /\ Behind(r, n) \in Seq(E) /\ Len(Behind(r, n)) = Head_(r) + (n - 1)
         /\ \A k \in 1..(Head_(r) + (n - 1)) : Behind(r, n)[k] = Way(r)[Head_(r) + (n - 1) - k + 1]
         /\ Walkable(Place(r.v, r.hops, n - 1), Behind(r, n))
         /\ After(Place(r.v, r.hops, n - 1), Behind(r, n)) = Origin(r)
<1>1. /\ r.v \in V /\ r.hops \in Seq(E) /\ r.rp \in Seq(E) /\ Walkable(r.v, r.rp)
      /\ Walkable(r.v, r.hops) /\ n - 1 \in 0..Len(r.hops) /\ Len(r.rp) \in Nat /\ n \in Nat
      /\ Len(r.hops) \in Nat
  <2>1. /\ r.v \in V /\ r.hops \in Seq(E) /\ r.rp \in Seq(E) /\ Walkable(r.v, r.hops)
        /\ Len(r.hops) \in Nat /\ Len(r.rp) \in Nat
    BY RouteFields
  <2>2. Walkable(r.v, r.rp)
    BY DEF RouteOK
  <2>3. n \in Nat /\ n - 1 \in 0..Len(r.hops)
    BY <2>1
  <2> QED BY <2>1, <2>2, <2>3
<1> DEFINE pre == SubSeq(r.hops, 1, n - 1)
           at == Place(r.v, r.hops, n - 1)
           b == Reverse(pre)
<1>2. pre \in Seq(E) /\ Len(pre) = n - 1 /\ \A k \in 1..(n - 1) : pre[k] = r.hops[k]
  BY <1>1, FirstHops
<1>3. After(r.v, pre) = at
  BY DEF Place
<1> HIDE DEF at
<1>4. Walkable(r.v, pre)
  <2> SUFFICES ASSUME NEW k \in 1..(n - 1) PROVE pre[k] \in EdgesAt(Place(r.v, pre, k - 1))
    BY <1>2 DEF Walkable
  <2>1. /\ k - 1 \in Nat /\ k - 1 <= Len(r.hops) /\ k - 1 <= Len(pre) /\ k \in 1..Len(r.hops)
        /\ \A j \in 1..(k - 1) : j \in 1..(n - 1)
    BY <1>1, <1>2
  <2> HIDE DEF pre
  <2>2. \A j \in 1..(k - 1) : r.hops[j] = pre[j]
    BY <1>2, <2>1
  <2>3. Place(r.v, r.hops, k - 1) = Place(r.v, pre, k - 1)
    BY <1>1, <1>2, <2>1, <2>2, SamePlace, SMTT(30)
  <2> QED BY <1>1, <1>2, <2>1, <2>3 DEF Walkable
<1> HIDE DEF pre
<1>5. /\ b \in Seq(E) /\ Len(b) = n - 1 /\ \A k \in 1..(n - 1) : b[k] = pre[(n - 1) - k + 1]
      /\ Walkable(at, b) /\ After(at, b) = r.v
  <2>1. /\ Reverse(pre) \in Seq(E) /\ Len(Reverse(pre)) = Len(pre)
        /\ \A k \in 1..Len(pre) : Reverse(pre)[k] = pre[Len(pre) - k + 1]
        /\ Walkable(After(r.v, pre), Reverse(pre))
        /\ After(After(r.v, pre), Reverse(pre)) = r.v
    BY <1>1, <1>2, <1>4, WalkBack
  <2> QED BY <1>2, <1>3, <2>1
<1> HIDE DEF b
<1>6. at \in V
  BY <1>1, Places DEF at
<1>7. /\ b \o r.rp \in Seq(E) /\ Len(b \o r.rp) = Len(b) + Len(r.rp)
      /\ \A k \in 1..(Len(b) + Len(r.rp)) : (b \o r.rp)[k] = IF k <= Len(b) THEN b[k] ELSE r.rp[k - Len(b)]
  BY <1>1, <1>5, ConcatProperties
<1>8. Walkable(at, b \o r.rp) <=> Walkable(at, b) /\ Walkable(After(at, b), r.rp)
  BY <1>1, <1>5, <1>6, WalkConcat
<1>9. After(at, b \o r.rp) = After(After(at, b), r.rp)
  BY <1>1, <1>5, <1>6, PlaceConcat
<1>10. Behind(r, n) = b \o r.rp
  BY DEF Behind, b, pre
<1>11. ASSUME NEW k \in 1..(Head_(r) + (n - 1))
       PROVE  Behind(r, n)[k] = Way(r)[Head_(r) + (n - 1) - k + 1]
  <2>0. k \in 1..(Len(b) + Len(r.rp))
    BY <1>1, <1>5 DEF Head_
  <2>1. CASE k <= n - 1
    <3>1. k \in 1..(n - 1) /\ (n - 1) - k + 1 \in 1..(n - 1) /\ (n - 1) - k + 1 \in 1..Len(r.hops)
          /\ Head_(r) + (n - 1) - k + 1 = Head_(r) + ((n - 1) - k + 1)
      <4>1. /\ Head_(r) \in Nat /\ Len(r.hops) \in Nat /\ n - 1 \in Nat /\ n - 1 <= Len(r.hops)
            /\ k \in Nat /\ k >= 1
        BY <1>1 DEF Head_
      <4>2. PICK h, m, l : h = Head_(r) /\ m = n - 1 /\ l = Len(r.hops)
        OBVIOUS
      <4>3. h \in Nat /\ m \in Nat /\ l \in Nat /\ m <= l /\ k \in Nat /\ k >= 1 /\ k <= m
        BY <2>1, <4>1, <4>2
      <4>4. k \in 1..m /\ m - k + 1 \in 1..m /\ m - k + 1 \in 1..l /\ h + m - k + 1 = h + (m - k + 1)
        BY <4>3
      <4> QED BY <4>2, <4>4
    <3>2. Behind(r, n)[k] = pre[(n - 1) - k + 1]
      BY <1>5, <1>7, <1>10, <2>0, <2>1, <3>1
    <3>3. pre[(n - 1) - k + 1] = r.hops[(n - 1) - k + 1]
      BY <1>2, <3>1
    <3>4. Way(r)[Head_(r) + ((n - 1) - k + 1)] = r.hops[(n - 1) - k + 1]
      BY <3>1, WayIs
    <3> QED BY <3>1, <3>2, <3>3, <3>4
  <2>2. CASE ~(k <= n - 1)
    <3>1. Head_(r) + (n - 1) - k + 1 \in 1..Head_(r)
          /\ Head_(r) - (Head_(r) + (n - 1) - k + 1) + 1 = k - (n - 1)
      BY <1>1, <2>2 DEF Head_
    <3>2. Behind(r, n)[k] = r.rp[k - (n - 1)]
      BY <1>5, <1>7, <1>10, <2>0, <2>2
    <3>3. Way(r)[Head_(r) + (n - 1) - k + 1] = r.rp[Head_(r) - (Head_(r) + (n - 1) - k + 1) + 1]
      BY <3>1, WayIs
    <3> QED BY <3>1, <3>2, <3>3
  <2> QED BY <2>1, <2>2
<1>12. Len(b \o r.rp) = Head_(r) + (n - 1)
  BY <1>1, <1>5, <1>7 DEF Head_
<1> QED BY <1>5, <1>1, <1>7, <1>8, <1>9, <1>10, <1>11, <1>12 DEF at, Origin

-----------------------------------------------------------------------------
(* A pair of a route and an edge of it that fails on top of what the route *)
(* knows to be down.                                                       *)
DepOK(d) ==
  /\ RouteOK(d.route)
  /\ \E e \in Range(d.route.hops) : d = [failed |-> d.route.failedE \cup {e}, route |-> d.route]

(* How many hops of its way the packet takes, with the one that fails.     *)
Spot(d) == Len(RevPath(d)) + 1

(* The n-th hop of the route q of d is the one that fails.                 *)
Breaks(d, q, n) ==
  /\ d = [failed |-> q.failedE \cup {q.hops[n]}, route |-> q]
  /\ \A k \in 1..(n - 1) : q.hops[k] # q.hops[n]
  /\ FailsAt(d) = Place(q.v, q.hops, n - 1)
  /\ RevPath(d) = Behind(q, n)
  /\ Spot(d) = Head_(q) + n
  /\ Known(d) = d.failed
  /\ FailsAt(d) \in V \ {Dst}
  /\ q.hops[n] \in E \ q.failedE

(* Where a route fails: before the first hop over the failed edge, which a *)
(* switch sees at its own ports, so all the failures are known.            *)
LEMMA DepFacts ==
  ASSUME NEW d, DepOK(d)
  PROVE  \E n \in 1..Len(d.route.hops) : Breaks(d, d.route, n)
<1>0. PICK q, e : q = d.route /\ RouteOK(q) /\ e \in Range(q.hops) /\ d = [failed |-> q.failedE \cup {e}, route |-> q]
  BY DEF DepOK
<1>1. /\ q.v \in V /\ q.hops \in Seq(E) /\ q.failedE \in SUBSET E /\ q.rp \in Seq(E)
      /\ Len(q.hops) \in Nat /\ Len(q.rp) \in Nat
      /\ Walkable(q.v, q.hops)
      /\ \A k \in 1..Len(q.hops) : q.hops[k] \in E \ q.failedE
      /\ \A k \in 0..(Len(q.hops) - 1) : Place(q.v, q.hops, k) \in V \ {Dst}
  BY <1>0, RouteFields
<1>2. PICK k0 \in 1..Len(q.hops) : q.hops[k0] = e
  <2>1. DOMAIN q.hops = 1..Len(q.hops)
    BY <1>1
  <2> QED BY <1>0, <2>1 DEF Range
<1>3. d.failed = q.failedE \cup {e} /\ d.route = q
  BY <1>0
<1>4. e \in E \ q.failedE
  BY <1>1, <1>2
<1>5. PICK n \in 1..Len(q.hops) : /\ q.hops[n] \in d.failed
                                  /\ \A k \in 1..(n - 1) : q.hops[k] \notin d.failed
                                  /\ Followed(q.hops, d.failed) = SubSeq(q.hops, 1, n - 1)
  <2>1. q.hops[k0] \in d.failed
    BY <1>2, <1>3
  <2>2. \/ /\ \A k \in 1..Len(q.hops) : q.hops[k] \notin d.failed
           /\ Followed(q.hops, d.failed) = q.hops
        \/ \E n \in 1..Len(q.hops) : /\ q.hops[n] \in d.failed
                                     /\ \A k \in 1..(n - 1) : q.hops[k] \notin d.failed
                                     /\ Followed(q.hops, d.failed) = SubSeq(q.hops, 1, n - 1)
    BY <1>1, FollowedAt, SMTT(30)
  <2> QED BY <2>1, <2>2
<1>6. q.hops[n] = e /\ \A k \in 1..(n - 1) : q.hops[k] # e
  BY <1>1, <1>3, <1>5
<1>7. FailsAt(d) = Place(q.v, q.hops, n - 1)
  BY <1>3, <1>5 DEF FailsAt, Place
<1>8. RevPath(d) = Behind(q, n)
  BY <1>3, <1>5 DEF RevPath, Behind
<1>9. Spot(d) = Head_(q) + n
  <2>1. Len(Behind(q, n)) = Head_(q) + (n - 1)
    BY <1>0, BehindIs
  <2>2. Head_(q) \in Nat /\ n \in Nat
    BY <1>1 DEF Head_
  <2> QED BY <1>8, <2>1, <2>2 DEF Spot
<1>10. FailsAt(d) \in V \ {Dst}
  <2>1. n - 1 \in 0..(Len(q.hops) - 1)
    BY <1>1
  <2> QED BY <1>1, <1>7, <2>1
<1>11. e \in EdgesAt(FailsAt(d))
  BY <1>1, <1>6, <1>7 DEF Walkable
<1>12. Known(d) = d.failed
  BY <1>3, <1>11 DEF Known
<1>13. Breaks(d, q, n)
  BY <1>0, <1>4, <1>6, <1>7, <1>8, <1>9, <1>10, <1>12 DEF Breaks
<1> QED BY <1>0, <1>13

(* A backup route goes on, by another edge, from where its route fails.    *)
BacksUp(r, d) ==
  /\ RouteOK(r)
  /\ r.v = FailsAt(d) /\ r.rp = RevPath(d) /\ r.failedE = d.failed

(* A backup route shares the way of its route up to the switch that finds   *)
(* the edge down, and leaves it there, that edge among those it knows.      *)
LEMMA BackupWay ==
  ASSUME NEW d, DepOK(d), NEW r, BacksUp(r, d)
  PROVE  LET q == d.route IN
         /\ Origin(r) = Origin(q)
         /\ Head_(r) \in Nat /\ Head_(q) \in Nat /\ Spot(d) = Head_(r) + 1 /\ Head_(q) <= Head_(r)
         /\ Spot(d) \in 1..Len(Way(q)) /\ Spot(d) \in 1..Len(Way(r))
         /\ \A k \in 1..Head_(r) : Way(r)[k] = Way(q)[k]
         /\ Way(r)[Spot(d)] \notin r.failedE
         /\ Way(q)[Spot(d)] \in r.failedE
         /\ q.failedE \subseteq r.failedE
<1> DEFINE q == d.route
<1>1. RouteOK(q) /\ RouteOK(r)
  BY DEF DepOK, BacksUp
<1>2. PICK n \in 1..Len(q.hops) : Breaks(d, q, n)
  BY DepFacts
<1> HIDE DEF q
<1> DEFINE e == q.hops[n]
<1>3. /\ d.failed = q.failedE \cup {e} /\ q.hops[n] = e
      /\ FailsAt(d) = Place(q.v, q.hops, n - 1)
      /\ RevPath(d) = Behind(q, n)
      /\ Spot(d) = Head_(q) + n
  BY <1>2 DEF Breaks
<1> HIDE DEF e
<1>4. r.v = Place(q.v, q.hops, n - 1) /\ r.rp = Behind(q, n) /\ r.failedE = q.failedE \cup {e}
  BY <1>3 DEF BacksUp
<1>5. /\ Len(Behind(q, n)) = Head_(q) + (n - 1)
      /\ \A k \in 1..(Head_(q) + (n - 1)) : Behind(q, n)[k] = Way(q)[Head_(q) + (n - 1) - k + 1]
      /\ After(Place(q.v, q.hops, n - 1), Behind(q, n)) = Origin(q)
  BY <1>1, BehindIs
<1>6. Origin(r) = Origin(q)
  BY <1>4, <1>5 DEF Origin
<1>7. /\ Len(q.hops) \in Nat /\ Len(q.rp) \in Nat /\ Len(r.hops) \in Nat /\ Len(r.rp) \in Nat /\ Len(r.hops) > 0
      /\ \A k \in 1..Len(r.hops) : r.hops[k] \in E \ r.failedE
  BY <1>1, RouteFields
<1>8. Head_(r) = Head_(q) + (n - 1) /\ Head_(r) \in Nat /\ Head_(q) \in Nat
  BY <1>4, <1>5, <1>7 DEF Head_
<1>9. /\ Len(Way(q)) = Head_(q) + Len(q.hops) /\ Way(q)[Head_(q) + n] = q.hops[n]
  BY <1>1, WayIs
<1>10. /\ Len(Way(r)) = Head_(r) + Len(r.hops)
       /\ \A k \in 1..Head_(r) : Way(r)[k] = r.rp[Head_(r) - k + 1]
       /\ \A k \in 1..Len(r.hops) : Way(r)[Head_(r) + k] = r.hops[k]
  BY <1>1, WayIs
<1>11. Spot(d) = Head_(r) + 1 /\ Head_(q) <= Head_(r)
  BY <1>3, <1>7, <1>8
<1>12. Spot(d) \in 1..Len(Way(q)) /\ Spot(d) \in 1..Len(Way(r))
  <2>1. n \in Nat /\ n >= 1 /\ n <= Len(q.hops)
    BY <1>7
  <2>2. Spot(d) <= Len(Way(q))
    BY <1>3, <1>7, <1>8, <1>9, <2>1
  <2>3. Spot(d) <= Len(Way(r))
    BY <1>7, <1>8, <1>10, <1>11
  <2> QED BY <1>7, <1>8, <1>9, <1>10, <1>11, <2>2, <2>3, SMTT(30)
<1>13. ASSUME NEW k \in 1..Head_(r) PROVE Way(r)[k] = Way(q)[k]
  <2>1. /\ Head_(r) - k + 1 \in 1..(Head_(q) + (n - 1))
        /\ Head_(q) + (n - 1) - (Head_(r) - k + 1) + 1 = k
    BY <1>8, SMTT(30)
  <2> QED BY <1>4, <1>5, <1>10, <2>1
<1>14. Way(r)[Spot(d)] \notin r.failedE
  <2>1. 1 \in 1..Len(r.hops)
    BY <1>7
  <2> QED BY <1>7, <1>10, <1>11, <2>1
<1>15. Way(q)[Spot(d)] \in r.failedE
  BY <1>3, <1>4, <1>9
<1> QED BY <1>4, <1>6, <1>8, <1>11, <1>12, <1>13, <1>14, <1>15 DEF q

-----------------------------------------------------------------------------
(* Routes with the same origin part ways somewhere.                        *)

(* Two ways are the same up to their n-th hop.                             *)
Diverge(r, s, n) ==
  /\ n \in 1..Len(Way(r)) /\ n \in 1..Len(Way(s))
  /\ \A k \in 1..(n - 1) : Way(r)[k] = Way(s)[k]
  /\ Way(r)[n] # Way(s)[n]

(* s goes around an edge of r, and knows all the failures r knows.         *)
Replaces(s, r, n) == Way(r)[n] \in s.failedE /\ r.failedE \subseteq s.failedE

(* They part no later than at the head of one of them, and one of them     *)
(* knows the edge that the other takes to be down; at once where both have *)
(* begun, it replaces the other.                                           *)
ApartAt(r, s, n) ==
  /\ Diverge(r, s, n)
  /\ n <= Head_(r) + 1 \/ n <= Head_(s) + 1
  /\ Way(r)[n] \in s.failedE \/ Way(s)[n] \in r.failedE
  /\ Head_(r) < n /\ Head_(s) < n => Replaces(s, r, n) \/ Replaces(r, s, n)

(* A route that takes another edge than the one that fails does so because *)
(* its edge is down.                                                       *)
Warned(d, s) ==
  Diverge(d.route, s, Spot(d)) => Way(s)[Spot(d)] \in d.route.failedE

(* Ways part once.                                                         *)
LEMMA DivergeOnce ==
  ASSUME NEW r, RouteOK(r), NEW s, NEW n, NEW m, Diverge(r, s, n), Diverge(r, s, m)
  PROVE  n = m /\ n \in Nat
<1>1. Len(Way(r)) \in Nat
  BY WayIs
<1>2. n \in Nat /\ m \in Nat /\ n >= 1 /\ m >= 1
  BY <1>1 DEF Diverge
<1>3. ~(n < m)
  <2> SUFFICES ASSUME n < m PROVE FALSE
    OBVIOUS
  <2>1. n \in 1..(m - 1)
    BY <1>2
  <2> QED BY <2>1 DEF Diverge
<1>4. ~(m < n)
  <2> SUFFICES ASSUME m < n PROVE FALSE
    OBVIOUS
  <2>1. m \in 1..(n - 1)
    BY <1>2
  <2> QED BY <2>1 DEF Diverge
<1> QED BY <1>2, <1>3, <1>4

(* Being apart does not depend on the order of the two routes.              *)
LEMMA Symmetric ==
  ASSUME NEW r, NEW s, NEW n
  PROVE  /\ Diverge(r, s, n) <=> Diverge(s, r, n)
         /\ ApartAt(r, s, n) <=> ApartAt(s, r, n)
<1>1. Diverge(r, s, n) <=> Diverge(s, r, n)
  BY DEF Diverge
<1> QED BY <1>1 DEF ApartAt

(* A route does not take edges it knows to be down.                        *)
LEMMA OwnHops ==
  ASSUME NEW s, RouteOK(s), NEW n \in 1..Len(Way(s)), Head_(s) < n
  PROVE  Way(s)[n] \notin s.failedE
<1>1. /\ Len(s.hops) \in Nat /\ Len(s.rp) \in Nat
      /\ \A k \in 1..Len(s.hops) : s.hops[k] \in E \ s.failedE
  BY RouteFields
<1>2. /\ Len(Way(s)) = Head_(s) + Len(s.hops)
      /\ \A k \in 1..Len(s.hops) : Way(s)[Head_(s) + k] = s.hops[k]
  BY WayIs
<1>3. Head_(s) \in Nat
  BY <1>1 DEF Head_
<1>4. PICK k : k = n - Head_(s)
  OBVIOUS
<1>5. k \in 1..Len(s.hops) /\ Head_(s) + k = n
  BY <1>1, <1>2, <1>3, <1>4
<1> QED BY <1>1, <1>2, <1>5

-----------------------------------------------------------------------------
(* A backup route parts from every other route of its origin: at its head  *)
(* from those that follow its route up to there, or where its route does.  *)
LEMMA BackupApart ==
  ASSUME NEW d, DepOK(d), NEW r, BacksUp(r, d), NEW s, RouteOK(s),
         \/ s = d.route
         \/ (\E n : ApartAt(d.route, s, n)) /\ Warned(d, s)
  PROVE  \E n : /\ ApartAt(r, s, n)
                /\ n < Spot(d) \/ (n = Spot(d) /\ Way(s)[n] \in r.failedE)
<1> DEFINE q == d.route
           m == Spot(d)
<1>1. /\ Head_(r) \in Nat /\ Head_(q) \in Nat /\ m = Head_(r) + 1 /\ Head_(q) <= Head_(r)
      /\ m \in 1..Len(Way(q)) /\ m \in 1..Len(Way(r))
      /\ \A k \in 1..Head_(r) : Way(r)[k] = Way(q)[k]
      /\ Way(r)[m] \notin r.failedE
      /\ Way(q)[m] \in r.failedE
      /\ q.failedE \subseteq r.failedE
  BY BackupWay
<1>2. /\ RouteOK(q) /\ RouteOK(r)
  BY DEF DepOK, BacksUp
<1>3. Len(Way(q)) \in Nat /\ Len(Way(r)) \in Nat /\ Len(Way(s)) \in Nat /\ Head_(s) \in Nat
  <2>1. Head_(s) \in Nat
    BY RouteFields DEF Head_
  <2> QED BY <1>2, <2>1, WayIs
<1> HIDE DEF q, m
<1>4. CASE s = q
  <2>1. Diverge(r, s, m)
    <3>1. \A k \in 1..(m - 1) : k \in 1..Head_(r)
      BY <1>1
    <3> QED BY <1>1, <1>4, <3>1 DEF Diverge
  <2>2. ApartAt(r, s, m)
    BY <1>1, <1>4, <2>1 DEF ApartAt, Replaces
  <2> QED BY <1>1, <1>4, <2>2 DEF m
<1>5. CASE (\E n : ApartAt(q, s, n)) /\ Warned(d, s)
  <2>1. PICK n : ApartAt(q, s, n)
    BY <1>5
  <2>2. /\ n \in 1..Len(Way(q)) /\ n \in 1..Len(Way(s)) /\ n \in Nat /\ n >= 1 /\ m \in Nat
        /\ \A k \in 1..(n - 1) : Way(q)[k] = Way(s)[k]
        /\ Way(q)[n] # Way(s)[n]
    BY <1>1, <1>3, <2>1 DEF ApartAt, Diverge
  <2>3. CASE n < m
    <3>1. n \in 1..Head_(r) /\ \A k \in 1..(n - 1) : k \in 1..Head_(r)
      BY <1>1, <2>2, <2>3
    <3>2. n \in 1..Len(Way(r))
      BY <1>1, <1>3, <2>2, <2>3
    <3>3. Diverge(r, s, n)
      BY <1>1, <2>2, <3>1, <3>2 DEF Diverge
    <3>4. Way(r)[n] \in s.failedE \/ Way(s)[n] \in r.failedE
      BY <1>1, <2>1, <3>1 DEF ApartAt
    <3>5. n <= Head_(r) + 1 /\ ~(Head_(r) < n)
      BY <1>1, <2>2, <2>3
    <3>6. ApartAt(r, s, n)
      BY <3>3, <3>4, <3>5 DEF ApartAt
    <3> QED BY <2>3, <3>6 DEF m
  <2>4. CASE n > m
    <3>1. Way(s)[m] = Way(q)[m]
      <4>1. m \in 1..(n - 1)
        BY <1>1, <2>2, <2>4
      <4> QED BY <2>2, <4>1
    <3>2. m \in 1..Len(Way(s))
      BY <1>1, <1>3, <2>2, <2>4
    <3>3. \A k \in 1..(m - 1) : k \in 1..Head_(r) /\ k \in 1..(n - 1)
      BY <1>1, <2>2, <2>4
    <3>4. Diverge(r, s, m)
      BY <1>1, <2>2, <3>1, <3>2, <3>3 DEF Diverge
    <3>5. ~(Head_(s) < m)
      <4>1. n <= Head_(q) + 1 \/ n <= Head_(s) + 1
        BY <2>1 DEF ApartAt
      <4> QED BY <1>1, <1>3, <2>2, <2>4, <4>1
    <3>6. m <= Head_(r) + 1
      BY <1>1
    <3>7. ApartAt(r, s, m)
      BY <1>1, <3>1, <3>4, <3>5, <3>6 DEF ApartAt
    <3> QED BY <1>1, <3>1, <3>7 DEF m
  <2>5. CASE n = m
    <3>1. Way(s)[m] \in q.failedE
      BY <1>5, <2>1, <2>5 DEF ApartAt, Warned, q, m
    <3>2. Way(s)[m] \in r.failedE /\ Way(r)[m] # Way(s)[m]
      BY <1>1, <3>1
    <3>3. \A k \in 1..(m - 1) : k \in 1..Head_(r)
      BY <1>1
    <3>4. Diverge(r, s, m)
      BY <1>1, <2>2, <2>5, <3>2, <3>3 DEF Diverge
    <3>5. ASSUME Head_(s) < m
          PROVE  s.failedE \subseteq r.failedE
      <4>1. Head_(q) < m
        BY <1>1
      <4>2. Replaces(s, q, m) \/ Replaces(q, s, m)
        BY <2>1, <2>5, <3>5, <4>1 DEF ApartAt
      <4>3. Way(s)[m] \notin s.failedE
        BY <2>2, <2>5, <3>5, OwnHops
      <4> QED BY <1>1, <3>1, <4>2, <4>3 DEF Replaces
    <3>6. m <= Head_(r) + 1
      BY <1>1
    <3>7. ApartAt(r, s, m)
      BY <3>2, <3>4, <3>5, <3>6 DEF ApartAt, Replaces
    <3> QED BY <3>2, <3>7 DEF m
  <2>6. n < m \/ n > m \/ n = m
    BY <2>2
  <2> QED BY <2>3, <2>4, <2>5, <2>6
<1> QED BY <1>4, <1>5 DEF q

(* The pairs of the backup route are warned of the other routes.           *)
LEMMA WarnedNew ==
  ASSUME NEW d, DepOK(d), NEW r, BacksUp(r, d), NEW s, NEW n, ApartAt(r, s, n),
         n < Spot(d) \/ (n = Spot(d) /\ Way(s)[n] \in r.failedE),
         NEW c, DepOK(c), c.route = r
  PROVE  Warned(c, s)
<1> SUFFICES ASSUME Diverge(r, s, Spot(c)) PROVE Way(s)[Spot(c)] \in r.failedE
  BY DEF Warned
<1>1. RouteOK(r)
  BY DEF BacksUp
<1>2. n = Spot(c) /\ n \in Nat
  BY <1>1, DivergeOnce DEF ApartAt
<1>3. Head_(r) \in Nat /\ Spot(d) = Head_(r) + 1
  BY BackupWay
<1>4. ~(Spot(c) < Spot(d))
  <2>1. PICK j \in 1..Len(r.hops) : Breaks(c, r, j)
    BY DepFacts
  <2>2. Spot(c) = Head_(r) + j
    BY <2>1 DEF Breaks
  <2>3. Len(r.hops) \in Nat
    BY <1>1, RouteFields
  <2> QED BY <1>3, <2>2, <2>3
<1> QED BY <1>2, <1>4

(* The other pairs are warned of the backup route.                         *)
LEMMA WarnedOld ==
  ASSUME NEW d, DepOK(d), NEW r, BacksUp(r, d), NEW c, DepOK(c), c # d,
         \/ c.route = d.route
         \/ /\ \E n : ApartAt(d.route, c.route, n)
            /\ Warned(d, c.route)
            /\ Warned(c, d.route)
  PROVE  Warned(c, r)
<1> DEFINE q == d.route
           p == c.route
           m == Spot(d)
           z == Spot(c)
<1>1. /\ Head_(r) \in Nat /\ Head_(q) \in Nat /\ m = Head_(r) + 1 /\ Head_(q) <= Head_(r)
      /\ m \in 1..Len(Way(q)) /\ m \in 1..Len(Way(r))
      /\ \A k \in 1..Head_(r) : Way(r)[k] = Way(q)[k]
      /\ Way(r)[m] \notin r.failedE
      /\ Way(q)[m] \in r.failedE
      /\ q.failedE \subseteq r.failedE
  BY BackupWay
<1>2. RouteOK(q) /\ RouteOK(r) /\ RouteOK(p)
  BY DEF DepOK, BacksUp
<1>3. Len(Way(q)) \in Nat /\ Len(Way(r)) \in Nat /\ Len(Way(p)) \in Nat
  BY <1>2, WayIs
<1>4. PICK jd \in 1..Len(q.hops) : Breaks(d, q, jd)
  BY DepFacts
<1>5. PICK jc \in 1..Len(p.hops) : Breaks(c, p, jc)
  BY DepFacts
<1> HIDE DEF q, p
<1>6. Spot(d) = Head_(q) + jd /\ d = [failed |-> q.failedE \cup {q.hops[jd]}, route |-> q]
  BY <1>4 DEF Breaks
<1>7. Spot(c) = Head_(p) + jc /\ c = [failed |-> p.failedE \cup {p.hops[jc]}, route |-> p]
  BY <1>5 DEF Breaks
<1>8. Len(q.hops) \in Nat /\ Len(p.hops) \in Nat /\ Head_(p) \in Nat /\ Head_(q) \in Nat
  BY <1>2, RouteFields DEF Head_
<1>9. z \in Nat /\ m \in Nat /\ Head_(p) < z /\ Head_(q) < m
  BY <1>6, <1>7, <1>8
<1> HIDE DEF m, z
<1> SUFFICES ASSUME Diverge(p, r, z) PROVE Way(r)[z] \in p.failedE
  BY DEF Warned, p, z
<1>10. CASE p = q
  <2>1. Diverge(p, r, m)
    <3>1. \A k \in 1..(m - 1) : k \in 1..Head_(r)
      BY <1>1
    <3> QED BY <1>1, <1>10, <3>1 DEF Diverge
  <2>2. z = m
    BY <1>2, <2>1, DivergeOnce
  <2>3. jc = jd
    BY <1>6, <1>7, <1>8, <1>10, <2>2 DEF m, z
  <2> QED BY <1>6, <1>7, <1>10, <2>3
<1>11. CASE (\E n : ApartAt(q, p, n)) /\ Warned(d, p) /\ Warned(c, q)
  <2>1. PICK n : ApartAt(q, p, n)
    BY <1>11
  <2>2. /\ n \in 1..Len(Way(q)) /\ n \in 1..Len(Way(p)) /\ n \in Nat /\ n >= 1
        /\ \A k \in 1..(n - 1) : Way(q)[k] = Way(p)[k]
        /\ Way(q)[n] # Way(p)[n]
    BY <1>3, <2>1 DEF ApartAt, Diverge
  <2>3. CASE n < m
    <3>1. n \in 1..Head_(r) /\ \A k \in 1..(n - 1) : k \in 1..Head_(r)
      BY <1>1, <2>2, <2>3, SMTT(30)
    <3>2. n \in 1..Len(Way(r))
      BY <1>1, <1>3, <2>2, <2>3
    <3>3. Diverge(p, r, n)
      BY <1>1, <2>2, <3>1, <3>2 DEF Diverge
    <3>4. z = n
      BY <1>2, <3>3, DivergeOnce
    <3>5. Diverge(p, q, z)
      BY <2>1, <3>4, Symmetric DEF ApartAt
    <3>6. Way(q)[z] \in p.failedE
      BY <1>11, <3>5 DEF Warned, p, z
    <3> QED BY <1>1, <3>1, <3>4, <3>6
  <2>4. CASE n > m
    <3>1. Way(p)[m] = Way(q)[m] /\ m \in 1..Len(Way(p))
      <4>1. m \in 1..(n - 1)
        BY <1>1, <1>9, <2>2, <2>4
      <4> QED BY <1>3, <2>2, <4>1
    <3>2. \A k \in 1..(m - 1) : k \in 1..Head_(r) /\ k \in 1..(n - 1)
      BY <1>1, <2>2, <2>4
    <3>3. Diverge(p, r, m)
      BY <1>1, <2>2, <3>1, <3>2 DEF Diverge
    <3>4. z = m
      BY <1>2, <3>3, DivergeOnce
    <3>5. n <= Head_(q) + 1 \/ n <= Head_(p) + 1
      BY <2>1 DEF ApartAt
    <3> QED BY <1>8, <1>9, <2>2, <2>4, <3>4, <3>5
  <2>5. CASE n = m
    <3>1. Way(p)[m] \in q.failedE
      BY <1>11, <2>1, <2>5 DEF ApartAt, Warned, q, m
    <3>2. Way(r)[m] # Way(p)[m] /\ \A k \in 1..(m - 1) : k \in 1..Head_(r)
      BY <1>1, <3>1
    <3>3. Diverge(p, r, m)
      BY <1>1, <2>2, <2>5, <3>2 DEF Diverge
    <3>4. z = m
      BY <1>2, <3>3, DivergeOnce
    <3>5. Diverge(p, q, z)
      BY <2>1, <2>5, <3>4, Symmetric DEF ApartAt
    <3>6. Way(q)[m] \in p.failedE
      BY <1>11, <3>4, <3>5 DEF Warned, p, z
    <3>7. Replaces(p, q, m) \/ Replaces(q, p, m)
      BY <1>9, <2>1, <2>5, <3>4 DEF ApartAt
    <3>8. Way(p)[m] \notin p.failedE
      BY <1>2, <1>9, <2>2, <2>5, <3>4, OwnHops
    <3>9. Way(q)[m] \notin q.failedE
      BY <1>2, <1>9, <2>2, <2>5, OwnHops
    <3> QED BY <3>1, <3>6, <3>7, <3>8, <3>9 DEF Replaces
  <2>6. n < m \/ n > m \/ n = m
    BY <1>9, <2>2
  <2> QED BY <2>3, <2>4, <2>5, <2>6
<1> QED BY <1>10, <1>11 DEF q, p

-----------------------------------------------------------------------------
(* The entry of a route before its n-th hop.                               *)
Cell(r, n) ==
  [at |-> Place(r.v, r.hops, n - 1), rp |-> Behind(r, n), up |-> r.hops[n],
   down |-> r.failedE \cap EdgesAt(Place(r.v, r.hops, n - 1)),
   out |-> IF args.fwd_routing = "src" THEN r.hops ELSE <<r.hops[n]>>,
   full |-> SubSeq(r.hops, n, Len(r.hops))]

Cells(r) == IF args.fwd_routing = "src" THEN {1} ELSE 1..Len(r.hops)

(* The rest of some hops.                                                  *)
LEMMA LastHops ==
  ASSUME NEW S, NEW hs \in Seq(S), NEW n \in 1..Len(hs)
  PROVE  /\ SubSeq(hs, n, Len(hs)) \in Seq(S)
         /\ Len(SubSeq(hs, n, Len(hs))) = Len(hs) - n + 1
         /\ \A k \in 1..(Len(hs) - n + 1) : SubSeq(hs, n, Len(hs))[k] = hs[n + k - 1]
         /\ hs = SubSeq(hs, 1, n - 1) \o SubSeq(hs, n, Len(hs))
         /\ SubSeq(hs, 1, Len(hs)) = hs
<1>0. n \in Int /\ Len(hs) \in Int /\ Len(hs) \in Nat /\ n <= Len(hs) /\ \A k \in n..Len(hs) : hs[k] \in S
  OBVIOUS
<1> DEFINE t == SubSeq(hs, n, Len(hs))
           h == SubSeq(hs, 1, n - 1)
<1>1. /\ t \in Seq(S)
      /\ Len(t) = IF n <= Len(hs) THEN Len(hs) - n + 1 ELSE 0
      /\ \A idx \in 1..(Len(hs) - n + 1) : t[idx] = hs[n + idx - 1]
  BY <1>0, SubSeqProperties
<1>2. n - 1 \in 0..Len(hs) /\ Len(hs) \in 0..Len(hs)
  BY <1>0
<1>3. h \in Seq(S) /\ Len(h) = n - 1 /\ \A k \in 1..(n - 1) : h[k] = hs[k]
  BY <1>2, FirstHops
<1>4. /\ SubSeq(hs, 1, Len(hs)) \in Seq(S) /\ Len(SubSeq(hs, 1, Len(hs))) = Len(hs)
      /\ \A k \in 1..Len(hs) : SubSeq(hs, 1, Len(hs))[k] = hs[k]
  BY <1>2, FirstHops
<1>5. SubSeq(hs, 1, Len(hs)) = hs
  BY <1>4, SeqEqual
<1> HIDE DEF t, h
<1>6. /\ h \o t \in Seq(S) /\ Len(h \o t) = Len(h) + Len(t)
      /\ \A k \in 1..(Len(h) + Len(t)) : (h \o t)[k] = IF k <= Len(h) THEN h[k] ELSE t[k - Len(h)]
  BY <1>1, <1>3, ConcatProperties
<1>7. Len(h \o t) = Len(hs) /\ Len(h) + Len(t) = Len(hs) /\ Len(t) = Len(hs) - n + 1
  BY <1>0, <1>1, <1>3, <1>6
<1>8. \A k \in 1..Len(hs) : (h \o t)[k] = hs[k]
  <2> TAKE k \in 1..Len(hs)
  <2>1. (h \o t)[k] = IF k <= Len(h) THEN h[k] ELSE t[k - Len(h)]
    BY <1>6, <1>7
  <2>2. CASE k <= n - 1
    <3>1. k \in 1..(n - 1)
      BY <1>0, <2>2
    <3> QED BY <1>3, <2>1, <2>2, <3>1
  <2>3. CASE ~(k <= n - 1)
    <3>1. k - (n - 1) \in 1..(Len(hs) - n + 1) /\ n + (k - (n - 1)) - 1 = k
      BY <1>0, <2>3
    <3> QED BY <1>1, <1>3, <2>1, <2>3, <3>1
  <2> QED BY <2>2, <2>3
<1>9. hs = h \o t
  BY <1>6, <1>7, <1>8, SeqEqual
<1> QED BY <1>1, <1>5, <1>7, <1>9 DEF h, t

(* Before the first hop.                                                   *)
LEMMA AtHead ==
  ASSUME NEW r, RouteOK(r)
  PROVE  /\ Place(r.v, r.hops, 1 - 1) = r.v /\ Behind(r, 1) = r.rp
         /\ SubSeq(r.hops, 1, Len(r.hops)) = r.hops
         /\ 1 \in 1..Len(r.hops)
<1>1. r.v \in V /\ r.hops \in Seq(E) /\ r.rp \in Seq(E) /\ Len(r.hops) \in Nat /\ Len(r.hops) > 0
  BY RouteFields
<1>2. 1 \in 1..Len(r.hops)
  BY <1>1
<1>3. Place(r.v, r.hops, 0) = r.v
  BY <1>1, Places
<1>4. SubSeq(r.hops, 1, Len(r.hops)) = r.hops
  BY <1>1, <1>2, LastHops
<1>5. /\ Behind(r, 1) \in Seq(E) /\ Len(Behind(r, 1)) = Head_(r) + (1 - 1)
      /\ \A k \in 1..(Head_(r) + (1 - 1)) : Behind(r, 1)[k] = Way(r)[Head_(r) + (1 - 1) - k + 1]
  BY <1>2, BehindIs
<1>6. \A k \in 1..Head_(r) : Way(r)[k] = r.rp[Head_(r) - k + 1]
  BY WayIs
<1>7. Head_(r) \in Nat /\ Head_(r) = Len(r.rp)
  BY <1>1 DEF Head_
<1>8. Len(Behind(r, 1)) = Len(r.rp)
  BY <1>5, <1>7
<1>11. Head_(r) \in Nat
  BY <1>7
<1>9. ASSUME NEW k \in 1..Head_(r) PROVE Behind(r, 1)[k] = r.rp[k]
  <2> DEFINE j == Head_(r) - k + 1
  <2>1. /\ k \in 1..(Head_(r) + (1 - 1)) /\ Head_(r) + (1 - 1) - k + 1 = j /\ j \in 1..Head_(r)
        /\ Head_(r) - j + 1 = k
    BY <1>11
  <2> HIDE DEF j
  <2>2. Behind(r, 1)[k] = Way(r)[Head_(r) + (1 - 1) - k + 1]
    BY <1>5, <2>1
  <2>3. Way(r)[j] = r.rp[Head_(r) - j + 1]
    BY <1>6, <2>1
  <2> QED BY <2>1, <2>2, <2>3
<1>10. Behind(r, 1) = r.rp
  <2>1. \A k \in 1..Len(Behind(r, 1)) : Behind(r, 1)[k] = r.rp[k]
    BY <1>7, <1>8, <1>9
  <2> QED BY <1>1, <1>5, <1>8, <2>1, SeqEqual
<1> QED BY <1>2, <1>3, <1>4, <1>10

(* The entries of a route.                                                 *)
LEMMA EntriesAre ==
  ASSUME NEW r, RouteOK(r)
  PROVE  /\ Entries(r) = {Cell(r, n) : n \in Cells(r)}
         /\ Cells(r) \subseteq 1..Len(r.hops) /\ 1 \in Cells(r)
         /\ IsFiniteSet(Entries(r))
<1>1. r.v \in V /\ r.hops \in Seq(E) /\ r.rp \in Seq(E) /\ Len(r.hops) \in Nat
  BY RouteFields
<1>2. /\ Place(r.v, r.hops, 1 - 1) = r.v /\ Behind(r, 1) = r.rp
      /\ SubSeq(r.hops, 1, Len(r.hops)) = r.hops
      /\ 1 \in 1..Len(r.hops)
  BY AtHead
<1>3. Cells(r) \subseteq 1..Len(r.hops) /\ 1 \in Cells(r)
  BY <1>2 DEF Cells
<1>4. ASSUME args.fwd_routing = "src" PROVE Entries(r) = {Cell(r, n) : n \in Cells(r)}
  <2>1. Entries(r) = {[at |-> r.v, rp |-> r.rp, up |-> r.hops[1], down |-> r.failedE \cap EdgesAt(r.v),
                       out |-> r.hops, full |-> r.hops]}
    BY <1>4 DEF Entries
  <2>2. Cell(r, 1) = [at |-> r.v, rp |-> r.rp, up |-> r.hops[1], down |-> r.failedE \cap EdgesAt(r.v),
                       out |-> r.hops, full |-> r.hops]
    BY <1>2, <1>4 DEF Cell
  <2>3. Cells(r) = {1}
    BY <1>4 DEF Cells
  <2> QED BY <2>1, <2>2, <2>3
<1>5. ASSUME args.fwd_routing # "src" PROVE Entries(r) = {Cell(r, n) : n \in Cells(r)}
  <2> DEFINE entry(n) ==
        [at |-> After(r.v, SubSeq(r.hops, 1, n - 1)), rp |-> Reverse(SubSeq(r.hops, 1, n - 1)) \o r.rp,
         up |-> SubSeq(r.hops, n, Len(r.hops))[1],
         down |-> r.failedE \cap EdgesAt(After(r.v, SubSeq(r.hops, 1, n - 1))),
         out |-> <<r.hops[n]>>, full |-> SubSeq(r.hops, n, Len(r.hops))]
  <2>1. Entries(r) = {entry(n) : n \in DOMAIN r.hops}
    BY <1>5 DEF Entries
  <2>2. DOMAIN r.hops = 1..Len(r.hops) /\ Cells(r) = 1..Len(r.hops)
    BY <1>1, <1>5 DEF Cells
  <2>3. ASSUME NEW n \in 1..Len(r.hops) PROVE entry(n) = Cell(r, n)
    <3>1. /\ \A k \in 1..(Len(r.hops) - n + 1) : SubSeq(r.hops, n, Len(r.hops))[k] = r.hops[n + k - 1]
      BY <1>1, LastHops
    <3>2. 1 \in 1..(Len(r.hops) - n + 1) /\ n + 1 - 1 = n
      BY <1>1
    <3>3. SubSeq(r.hops, n, Len(r.hops))[1] = r.hops[n]
      BY <3>1, <3>2
    <3> QED BY <1>5, <3>3 DEF Cell, Place, Behind
  <2> HIDE DEF entry
  <2> QED BY <2>1, <2>2, <2>3
<1>6. Entries(r) = {Cell(r, n) : n \in Cells(r)}
  BY <1>4, <1>5
<1>7. IsFiniteSet(Entries(r))
  <2>1. IsFiniteSet(1..Len(r.hops))
    BY <1>1, FS_Interval
  <2>2. IsFiniteSet(Cells(r))
    BY <1>3, <2>1, FS_Subset
  <2> DEFINE f == [n \in Cells(r) |-> Cell(r, n)]
  <2>3. f \in Surjection(Cells(r), Entries(r))
    BY <1>6 DEF Surjection
  <2> HIDE DEF f
  <2> QED BY <2>2, <2>3, FS_Surjection
<1> QED BY <1>3, <1>6, <1>7

(* Two entries that one header reaches: they are the same, or their routes *)
(* part there.                                                             *)
LEMMA SameHeader ==
  ASSUME NEW r, RouteOK(r), NEW s, RouteOK(s), NEW j \in 1..Len(r.hops), NEW k \in 1..Len(s.hops),
         Place(r.v, r.hops, j - 1) = Place(s.v, s.hops, k - 1), Behind(r, j) = Behind(s, k)
  PROVE  /\ Origin(r) = Origin(s)
         /\ r = s => j = k
         /\ \A n : ApartAt(r, s, n) =>
              /\ r.hops[j] # s.hops[k]
              /\ \/ r.hops[j] \in s.failedE \cap EdgesAt(Place(s.v, s.hops, k - 1))
                 \/ s.hops[k] \in r.failedE \cap EdgesAt(Place(r.v, r.hops, j - 1))
<1>1. /\ Len(r.hops) \in Nat /\ Len(s.hops) \in Nat /\ Len(r.rp) \in Nat /\ Len(s.rp) \in Nat
      /\ Walkable(r.v, r.hops) /\ Walkable(s.v, s.hops)
  BY RouteFields
<1>2. /\ Len(Behind(r, j)) = Head_(r) + (j - 1)
      /\ \A x \in 1..(Head_(r) + (j - 1)) : Behind(r, j)[x] = Way(r)[Head_(r) + (j - 1) - x + 1]
      /\ After(Place(r.v, r.hops, j - 1), Behind(r, j)) = Origin(r)
  BY BehindIs
<1>3. /\ Len(Behind(s, k)) = Head_(s) + (k - 1)
      /\ \A x \in 1..(Head_(s) + (k - 1)) : Behind(s, k)[x] = Way(s)[Head_(s) + (k - 1) - x + 1]
      /\ After(Place(s.v, s.hops, k - 1), Behind(s, k)) = Origin(s)
  BY BehindIs
<1>4. Origin(r) = Origin(s)
  BY <1>2, <1>3
<1>5. Head_(r) \in Nat /\ Head_(s) \in Nat /\ Head_(r) + j = Head_(s) + k
  BY <1>1, <1>2, <1>3 DEF Head_
<1>6. r = s => j = k
  BY <1>5
<1>7. Way(r)[Head_(r) + j] = r.hops[j] /\ Way(s)[Head_(s) + k] = s.hops[k]
  BY WayIs
<1>8. ASSUME NEW n, ApartAt(r, s, n)
      PROVE  n = Head_(r) + j
  <2>1. Len(Way(r)) \in Nat
    BY WayIs
  <2>2. n \in Nat /\ n >= 1 /\ Way(r)[n] # Way(s)[n]
    BY <1>8, <2>1 DEF ApartAt, Diverge
  <2>3. ~(n > Head_(r) + j)
    BY <1>5, <1>8, <2>2, SMTT(30) DEF ApartAt
  <2>4. ~(n < Head_(r) + j)
    <3> SUFFICES ASSUME n < Head_(r) + j PROVE FALSE
      OBVIOUS
    <3> DEFINE x == Head_(r) + (j - 1) - n + 1
    <3>1. /\ x \in 1..(Head_(r) + (j - 1)) /\ Head_(r) + (j - 1) - x + 1 = n
          /\ x \in 1..(Head_(s) + (k - 1)) /\ Head_(s) + (k - 1) - x + 1 = n
      <4>1. PICK h, g : h = Head_(r) /\ g = Head_(s)
        OBVIOUS
      <4>2. h \in Nat /\ g \in Nat /\ h + j = g + k /\ n \in Nat /\ n >= 1 /\ n < h + j
        BY <1>5, <2>2, <4>1
      <4>3. /\ h + (j - 1) - n + 1 \in 1..(h + (j - 1)) /\ h + (j - 1) - (h + (j - 1) - n + 1) + 1 = n
            /\ h + (j - 1) - n + 1 \in 1..(g + (k - 1)) /\ g + (k - 1) - (h + (j - 1) - n + 1) + 1 = n
        BY <4>2
      <4> QED BY <4>1, <4>3
    <3> HIDE DEF x
    <3>2. Behind(r, j)[x] = Way(r)[n] /\ Behind(s, k)[x] = Way(s)[n]
      BY <1>2, <1>3, <3>1
    <3> QED BY <2>2, <3>2
  <2> QED BY <1>5, <2>2, <2>3, <2>4
<1>9. r.hops[j] \in EdgesAt(Place(r.v, r.hops, j - 1)) /\ s.hops[k] \in EdgesAt(Place(s.v, s.hops, k - 1))
  BY <1>1 DEF Walkable
<1>10. ASSUME NEW n, ApartAt(r, s, n)
       PROVE  /\ r.hops[j] # s.hops[k]
              /\ \/ r.hops[j] \in s.failedE \cap EdgesAt(Place(s.v, s.hops, k - 1))
                 \/ s.hops[k] \in r.failedE \cap EdgesAt(Place(r.v, r.hops, j - 1))
  <2>1. Way(r)[n] = r.hops[j] /\ Way(s)[n] = s.hops[k]
    BY <1>5, <1>7, <1>8, <1>10
  <2>2. /\ Way(r)[n] # Way(s)[n]
        /\ Way(r)[n] \in s.failedE \/ Way(s)[n] \in r.failedE
    BY <1>10 DEF ApartAt, Diverge
  <2> QED BY <1>9, <2>1, <2>2
<1> QED BY <1>4, <1>6, <1>10

-----------------------------------------------------------------------------
(* The rest of a way is a way, if its edges are up.                        *)
LEMMA LeadsRest ==
  ASSUME NEW w \in V, NEW up, NEW p, Leads(w, up, p), NEW n \in 1..Len(p), NEW still,
         Range(SubSeq(p, n, Len(p))) \cap (E \ still) = {}
  PROVE  Leads(Place(w, p, n - 1), still, SubSeq(p, n, Len(p)))
<1> DEFINE h == SubSeq(p, 1, n - 1)
           t == SubSeq(p, n, Len(p))
           x == Place(w, p, n - 1)
<1>1. /\ p \in Seq(E) /\ Len(p) \in Nat /\ n - 1 \in 0..Len(p) /\ n \in Nat
      /\ Walkable(w, p) /\ After(w, p) = Dst
      /\ \A k \in 0..(Len(p) - 1) : Place(w, p, k) # Dst
  BY DEF Leads
<1>2. /\ t \in Seq(E) /\ Len(t) = Len(p) - n + 1
      /\ \A k \in 1..(Len(p) - n + 1) : t[k] = p[n + k - 1]
      /\ p = h \o t
  BY <1>1, LastHops
<1>3. h \in Seq(E) /\ Len(h) = n - 1
  BY <1>1, FirstHops
<1>4. x = After(w, h)
  BY DEF Place
<1>5. \A k \in 1..Len(t) : t[k] \in still
  <2> HIDE DEF t
  <2> TAKE k \in 1..Len(t)
  <2>1. t[k] \in Range(t) /\ t[k] \in E
    <3>1. k \in DOMAIN t
      BY <1>2
    <3> QED BY <1>2, <3>1 DEF Range
  <2> QED BY <2>1 DEF t
<1> HIDE DEF h, t, x
<1>6. Walkable(w, h \o t) <=> Walkable(w, h) /\ Walkable(After(w, h), t)
  BY <1>2, <1>3, WalkConcat
<1>7. /\ \A k \in 0..Len(t) : Place(w, h \o t, Len(h) + k) = Place(After(w, h), t, k)
      /\ After(w, h \o t) = After(After(w, h), t)
  BY <1>2, <1>3, PlaceConcat, ZenonT(30)
<1>8. \A k \in 0..(Len(t) - 1) : Place(x, t, k) # Dst
  <2> TAKE k \in 0..(Len(t) - 1)
  <2>1. k \in 0..Len(t) /\ (n - 1) + k \in 0..(Len(p) - 1)
    BY <1>1, <1>2
  <2> QED BY <1>1, <1>2, <1>3, <1>4, <1>7, <2>1
<1>9. Leads(x, still, t)
  BY <1>1, <1>2, <1>4, <1>5, <1>6, <1>7, <1>8 DEF Leads
<1> QED BY <1>9 DEF x, t

(* The switches that the hops reach over edges that are up.                *)
LEMMA CutOffAlong ==
  ASSUME NEW up, NEW w \in V, NEW hs \in Seq(E), Walkable(w, hs), \A k \in 1..Len(hs) : hs[k] \in up,
         CutOff(up, After(w, hs))
  PROVE  CutOff(up, w)
<1> DEFINE N == Len(hs)
           S == {k \in Nat : k <= N => CutOff(up, Place(w, hs, N - k))}
<1>1. /\ \A n \in 0..N : Place(w, hs, n) \in V
      /\ Place(w, hs, 0) = w
      /\ \A n \in 1..N : Place(w, hs, n) = Other(Place(w, hs, n - 1), hs[n])
      /\ Place(w, hs, N) = After(w, hs)
  BY Places
<1>2. N \in Nat /\ N - 0 = N
  OBVIOUS
<1> HIDE DEF N
<1>3. 0 \in S
  BY <1>1, <1>2
<1>4. ASSUME NEW k \in Nat, k \in S PROVE k + 1 \in S
  <2> SUFFICES ASSUME k + 1 <= N PROVE CutOff(up, Place(w, hs, N - (k + 1)))
    OBVIOUS
  <2>1. k <= N /\ N - k \in 1..N /\ (N - k) - 1 = N - (k + 1) /\ N - (k + 1) \in 0..N
    BY <1>2
  <2>2. CutOff(up, Place(w, hs, N - k))
    BY <1>4, <2>1
  <2>3. Place(w, hs, N - k) = Other(Place(w, hs, N - (k + 1)), hs[N - k])
    BY <1>1, <2>1
  <2>4. hs[N - k] \in EdgesAt(Place(w, hs, N - (k + 1))) \cap up
    BY <2>1 DEF Walkable, N
  <2> QED BY <1>1, <2>1, <2>2, <2>3, <2>4, CutOffKept
<1> HIDE DEF S
<1>5. N \in S
  BY <1>2, <1>3, <1>4, NatSet
<1>6. N - N = 0
  BY <1>2
<1> QED BY <1>1, <1>2, <1>5, <1>6 DEF S

-----------------------------------------------------------------------------
(* The routes that have been installed, and the pairs that wait.           *)

RoutesApart(R) ==
  \A r, s \in R : r # s /\ Origin(r) = Origin(s) => \E n : ApartAt(r, s, n)

PairsWait(R, P) ==
  \A d \in P : /\ DepOK(d) /\ d.route \in R
               /\ \A s \in R : s # d.route /\ Origin(s) = Origin(d.route) => Warned(d, s)

(* A pair waits, or a backup route is there, or there can be none.         *)
Mended(R, P, d) ==
  \/ d \in P
  \/ \E s \in R : BacksUp(s, d)
  \/ ShortestPaths(FailsAt(d), E \ d.failed) = {}

PairOf(r, e) == [failed |-> r.failedE \cup {e}, route |-> r]

AllMended(R, P) ==
  \A r \in R : \A e \in Range(r.hops) : Mended(R, P, PairOf(r, e))

(* A backup route and its pairs.                                           *)
LEMMA AddBackup ==
  ASSUME NEW R, NEW P, \A s \in R : RouteOK(s), RoutesApart(R), PairsWait(R, P),
         NEW d \in P, NEW r, BacksUp(r, d), NEW Q, Q = (P \ {d}) \cup Deps(r, d.failed)
  PROVE  /\ \A s \in R : Origin(s) = Origin(r) => \E n : ApartAt(r, s, n)
         /\ r \notin R
         /\ RoutesApart(R \cup {r})
         /\ PairsWait(R \cup {r}, Q)
<1>1. DepOK(d) /\ d.route \in R /\ RouteOK(r)
  BY DEF PairsWait, BacksUp
<1>2. Origin(r) = Origin(d.route)
  BY <1>1, BackupWay
<1>3. ASSUME NEW s \in R, Origin(s) = Origin(r)
      PROVE  \E n : /\ ApartAt(r, s, n)
                    /\ n < Spot(d) \/ (n = Spot(d) /\ Way(s)[n] \in r.failedE)
  <2>1. \/ s = d.route
        \/ (\E n : ApartAt(d.route, s, n)) /\ Warned(d, s)
    BY <1>1, <1>2, <1>3 DEF RoutesApart, PairsWait
  <2> QED BY <1>1, <2>1, BackupApart
<1>4. \A s \in R : Origin(s) = Origin(r) => \E n : ApartAt(r, s, n)
  BY <1>3
<1>5. r \notin R
  <2> SUFFICES ASSUME r \in R PROVE FALSE
    OBVIOUS
  <2>1. PICK n : ApartAt(r, r, n)
    BY <1>4
  <2> QED BY <2>1 DEF ApartAt, Diverge
<1>6. RoutesApart(R \cup {r})
  <2> SUFFICES ASSUME NEW a \in R \cup {r}, NEW b \in R \cup {r}, a # b, Origin(a) = Origin(b)
               PROVE  \E n : ApartAt(a, b, n)
    BY DEF RoutesApart
  <2>1. CASE a \in R /\ b \in R
    BY <2>1 DEF RoutesApart
  <2>2. CASE a = r /\ b \in R
    BY <1>4, <2>2
  <2>3. CASE b = r /\ a \in R
    <3>1. PICK n : ApartAt(r, a, n)
      BY <1>4, <2>3
    <3> QED BY <2>3, <3>1, Symmetric
  <2> QED BY <2>1, <2>2, <2>3
<1>7. ASSUME NEW c \in Q
      PROVE  /\ DepOK(c) /\ c.route \in R \cup {r}
             /\ \A s \in R \cup {r} : s # c.route /\ Origin(s) = Origin(c.route) => Warned(c, s)
  <2>1. CASE c \in P /\ c # d
    <3>1. DepOK(c) /\ c.route \in R
      BY <2>1 DEF PairsWait
    <3>2. ASSUME NEW s \in R, s # c.route, Origin(s) = Origin(c.route) PROVE Warned(c, s)
      BY <2>1, <3>2 DEF PairsWait
    <3>3. ASSUME Origin(r) = Origin(c.route) PROVE Warned(c, r)
      <4>1. \/ c.route = d.route
            \/ /\ \E n : ApartAt(d.route, c.route, n)
               /\ Warned(d, c.route)
               /\ Warned(c, d.route)
        BY <1>1, <1>2, <2>1, <3>1, <3>3 DEF RoutesApart, PairsWait
      <4> QED BY <1>1, <2>1, <3>1, <4>1, WarnedOld
    <3> QED BY <3>1, <3>2, <3>3
  <2>2. CASE c \in Deps(r, d.failed)
    <3>1. PICK e \in Range(r.hops) : c = [failed |-> r.failedE \cup {e}, route |-> r]
      BY <2>2 DEF Deps, BacksUp
    <3>2. DepOK(c) /\ c.route = r
      BY <1>1, <3>1 DEF DepOK
    <3>3. ASSUME NEW s \in R \cup {r}, s # r, Origin(s) = Origin(r) PROVE Warned(c, s)
      <4>1. PICK n : /\ ApartAt(r, s, n)
                     /\ n < Spot(d) \/ (n = Spot(d) /\ Way(s)[n] \in r.failedE)
        BY <1>3, <3>3
      <4> QED BY <1>1, <3>2, <4>1, WarnedNew
    <3> QED BY <3>2, <3>3
  <2> QED BY <2>1, <2>2
<1>8. PairsWait(R \cup {r}, Q)
  BY <1>7 DEF PairsWait
<1> QED BY <1>4, <1>5, <1>6, <1>8

(* All that has been mended stays mended.                                  *)
LEMMA StayMended ==
  ASSUME NEW R, NEW P, AllMended(R, P), NEW S, R \subseteq S, NEW d, NEW Q, P \ {d} \subseteq Q,
         Mended(S, Q, d), \A r \in S \ R : \A e \in Range(r.hops) : PairOf(r, e) \in Q
  PROVE  AllMended(S, Q)
<1> SUFFICES ASSUME NEW r \in S, NEW e \in Range(r.hops) PROVE Mended(S, Q, PairOf(r, e))
  BY DEF AllMended
<1>1. CASE r \in R
  <2>1. PICK c : c = PairOf(r, e)
    OBVIOUS
  <2>2. Mended(R, P, c)
    BY <1>1, <2>1 DEF AllMended
  <2>3. Mended(S, Q, c)
    BY <2>2 DEF Mended
  <2> QED BY <2>1, <2>3
<1>2. CASE r \notin R
  BY <1>2 DEF Mended
<1> QED BY <1>1, <1>2

-----------------------------------------------------------------------------
(* The tables hold the entries of routes that are apart, and the pairs     *)
(* that wait have as many failures as rounds have begun.                   *)
Tables(R) ==
  /\ args \in Args /\ i \in Nat
  /\ IsFiniteSet(fwdtable)
  /\ \A r \in R : RouteOK(r)
  /\ fwdtable = UNION {Entries(r) : r \in R}
  /\ RoutesApart(R)
  /\ PairsWait(R, dependencies \cup nextdep)
  /\ AllMended(R, dependencies \cup nextdep)
  /\ \A d \in dependencies : Cardinality(d.failed) = i
  /\ \A d \in nextdep : Cardinality(d.failed) = i + 1
  /\ \A s \in Sources : \E r \in R : r.v = s /\ r.rp = << >> /\ r.failedE = {}

(* An entry of the tables is that of a route.                              *)
LEMMA EntryOf ==
  ASSUME NEW R, Tables(R), NEW o \in fwdtable
  PROVE  \E r \in R : \E n \in Cells(r) : RouteOK(r) /\ n \in 1..Len(r.hops) /\ o = Cell(r, n)
<1>1. PICK r \in R : o \in Entries(r)
  BY DEF Tables
<1>2. RouteOK(r)
  BY DEF Tables
<1>3. PICK n \in Cells(r) : o = Cell(r, n)
  BY <1>1, <1>2, EntriesAre
<1>4. n \in 1..Len(r.hops)
  BY <1>2, EntriesAre
<1> QED BY <1>2, <1>3, <1>4

(* Tables of such routes have no two entries for one header.               *)
LEMMA TablesExclusive ==
  ASSUME NEW R, Tables(R)
  PROVE  Exclusive
<1> SUFFICES ASSUME NEW o \in fwdtable, NEW p \in fwdtable, o.at = p.at, o.rp = p.rp, o # p
             PROVE  o.up \in p.down \/ p.up \in o.down
  BY DEF Exclusive
<1>1. PICK r \in R : \E n \in Cells(r) : RouteOK(r) /\ n \in 1..Len(r.hops) /\ o = Cell(r, n)
  BY EntryOf
<1>2. PICK s \in R : \E n \in Cells(s) : RouteOK(s) /\ n \in 1..Len(s.hops) /\ p = Cell(s, n)
  BY EntryOf
<1>3. PICK j \in 1..Len(r.hops) : RouteOK(r) /\ o = Cell(r, j)
  BY <1>1
<1>4. PICK k \in 1..Len(s.hops) : RouteOK(s) /\ p = Cell(s, k)
  BY <1>2
<1>5. Place(r.v, r.hops, j - 1) = Place(s.v, s.hops, k - 1) /\ Behind(r, j) = Behind(s, k)
  BY <1>3, <1>4 DEF Cell
<1>6. /\ Origin(r) = Origin(s)
      /\ r = s => j = k
      /\ \A n : ApartAt(r, s, n) =>
           /\ r.hops[j] # s.hops[k]
           /\ \/ r.hops[j] \in s.failedE \cap EdgesAt(Place(s.v, s.hops, k - 1))
              \/ s.hops[k] \in r.failedE \cap EdgesAt(Place(r.v, r.hops, j - 1))
  BY <1>3, <1>4, <1>5, SameHeader
<1>7. r # s
  BY <1>3, <1>4, <1>6
<1>8. PICK n : ApartAt(r, s, n)
  BY <1>6, <1>7 DEF Tables, RoutesApart
<1>9. \/ r.hops[j] \in s.failedE \cap EdgesAt(Place(s.v, s.hops, k - 1))
      \/ s.hops[k] \in r.failedE \cap EdgesAt(Place(r.v, r.hops, j - 1))
  BY <1>6, <1>8
<1> QED BY <1>3, <1>4, <1>9 DEF Cell

(* At the switch where a route fails all the failures are known.           *)
LEMMA TablesKnow ==
  ASSUME NEW R, Tables(R)
  PROVE  KnowsWhatFailed
<1> SUFFICES ASSUME NEW d \in dependencies PROVE Known(d) = d.failed /\ Cardinality(d.failed) = i
  BY DEF KnowsWhatFailed
<1>1. DepOK(d) /\ Cardinality(d.failed) = i
  BY DEF Tables, PairsWait
<1>2. PICK n \in 1..Len(d.route.hops) : Breaks(d, d.route, n)
  BY <1>1, DepFacts
<1> QED BY <1>1, <1>2 DEF Breaks

(* The backups of a pair lead to Dst around the failures, and there are    *)
(* none only if no path is left.                                           *)
LEMMA BackupsLead ==
  ASSUME NEW R, Tables(R), NEW d \in dependencies, NEW X
  PROVE  /\ \A h \in Backups(FailsAt(d), Known(d), X) : Leads(FailsAt(d), E \ d.failed, h)
         /\ Backups(FailsAt(d), Known(d), X) = {} => ShortestPaths(FailsAt(d), E \ d.failed) = {}
         /\ FailsAt(d) \in V \ {Dst} /\ Known(d) = d.failed
<1>1. DepOK(d)
  BY DEF Tables, PairsWait
<1>2. PICK n \in 1..Len(d.route.hops) : Breaks(d, d.route, n)
  BY <1>1, DepFacts
<1>3. FailsAt(d) \in V \ {Dst} /\ Known(d) = d.failed
  BY <1>2 DEF Breaks
<1> DEFINE at == FailsAt(d)
           existing == Existing(at, Known(d), X)
           uses(h) == Cardinality({o \in existing : o.full = h})
           fulls == {o.full : o \in existing}
           most == {h \in fulls : \A g \in fulls : uses(g) <= uses(h)}
<1>4. Backups(at, Known(d), X) = IF args.compression_aware /\ existing # {} THEN most ELSE ShortestPaths(at, E \ d.failed)
  BY <1>3 DEF Backups
<1>5. ASSUME NEW h \in ShortestPaths(at, E \ d.failed)
      PROVE  Leads(at, E \ d.failed, h)
  BY <1>3, ShortestPathsLead
<1>6. ASSUME NEW h \in fulls
      PROVE  Leads(at, E \ d.failed, h)
  <2>1. PICK o \in fwdtable : /\ o.at = at /\ Range(o.full) \cap d.failed = {}
                              /\ h = o.full
    BY <1>3 DEF Existing
  <2>2. PICK r \in R : \E k \in Cells(r) : RouteOK(r) /\ k \in 1..Len(r.hops) /\ o = Cell(r, k)
    BY EntryOf
  <2>3. PICK k \in 1..Len(r.hops) : RouteOK(r) /\ o = Cell(r, k)
    BY <2>2
  <2>4. at = Place(r.v, r.hops, k - 1) /\ h = SubSeq(r.hops, k, Len(r.hops))
    BY <2>1, <2>3 DEF Cell
  <2>5. r.v \in V /\ Leads(r.v, E \ r.failedE, r.hops)
    BY <2>3, RouteFields DEF RouteOK
  <2>6. Range(SubSeq(r.hops, k, Len(r.hops))) \cap (E \ (E \ d.failed)) = {}
    BY <2>1, <2>4
  <2> HIDE DEF at
  <2> QED BY <2>4, <2>5, <2>6, LeadsRest
<1>7. existing # {} => most # {}
  <2> SUFFICES ASSUME existing # {} PROVE most # {}
    OBVIOUS
  <2>1. IsFiniteSet(existing)
    <3>1. existing \subseteq fwdtable /\ IsFiniteSet(fwdtable)
      BY DEF Existing, Tables
    <3> QED BY <3>1, FS_Subset
  <2>2. Cardinality(existing) \in Nat
    BY <2>1, FS_CardinalityType
  <2> DEFINE U == {uses(h) : h \in fulls}
  <2>3. \A h : uses(h) \in 0..Cardinality(existing)
    <3> TAKE h
    <3> DEFINE those == {o \in existing : o.full = h}
    <3>1. those \subseteq existing
      OBVIOUS
    <3> HIDE DEF those
    <3>2. IsFiniteSet(those) /\ Cardinality(those) <= Cardinality(existing)
      BY <2>1, <3>1, FS_Subset
    <3>3. Cardinality(those) \in Nat
      BY <3>2, FS_CardinalityType
    <3>4. Cardinality(those) \in 0..Cardinality(existing)
      BY <2>2, <3>2, <3>3
    <3> QED BY <3>4 DEF those
  <2> HIDE DEF uses
  <2>4. U \subseteq 0..Cardinality(existing) /\ U # {}
    BY <2>3
  <2>5. IsFiniteSet(0..Cardinality(existing))
    BY <2>2, FS_Interval
  <2>6. U \in SUBSET Nat /\ IsFiniteSet(U)
    <3>1. 0..Cardinality(existing) \subseteq Nat
      BY <2>2
    <3> HIDE DEF U
    <3> QED BY <2>4, <2>5, <3>1, FS_Subset
  <2>7. PICK u \in U : \A z \in U : z <= u
    <3> HIDE DEF U
    <3> QED BY <2>4, <2>6, GreatestNat
  <2>8. PICK h \in fulls : u = uses(h)
    BY <2>7
  <2>9. \A g \in fulls : uses(g) <= uses(h)
    BY <2>7, <2>8
  <2> QED BY <2>9
<1> HIDE DEF existing, most, fulls, at
<1>8. most \subseteq fulls
  BY DEF most
<1>9. \A h \in Backups(at, Known(d), X) : Leads(at, E \ d.failed, h)
  BY <1>4, <1>5, <1>6, <1>8
<1>10. Backups(at, Known(d), X) = {} => ShortestPaths(at, E \ d.failed) = {}
  BY <1>4, <1>7
<1> QED BY <1>3, <1>9, <1>10 DEF at

-----------------------------------------------------------------------------
(* The steps that build the tables.                                        *)

(* The default routes.                                                     *)
LEMMA TablesInit ==
  ASSUME Init
  PROVE  \E R : Tables(R)
<1>1. args \in Args /\ args \in ArgsType /\ Sources \subseteq V \ {Dst} /\ dependencies = {} /\ i = 0
  BY RoutesAssumption DEF Init, ArgsType, Sources
<1>2. PICK default : /\ \A s \in Sources : default[s] \in ShortestPaths(s, E)
                     /\ LET initial == {Route(s, default[s], {}, << >>) : s \in Sources}
                        IN  /\ fwdtable = UNION {Entries(r) : r \in initial}
                            /\ nextdep = UNION {Deps(r, {}) : r \in initial}
  BY DEF Init
<1> DEFINE R == {Route(s, default[s], {}, << >>) : s \in Sources}
<1>3. fwdtable = UNION {Entries(r) : r \in R} /\ nextdep = UNION {Deps(r, {}) : r \in R}
  BY <1>2
<1>4. ASSUME NEW r \in R
      PROVE  RouteOK(r) /\ r.v \in Sources /\ r.rp = << >> /\ r.failedE = {}
  <2>1. PICK s \in Sources : r = Route(s, default[s], {}, << >>)
    OBVIOUS
  <2>2. r.v = s /\ r.hops = default[s] /\ r.failedE = {} /\ r.rp = << >>
    BY <2>1 DEF Route
  <2>3. Leads(s, E, default[s])
    BY <1>1, <1>2, ShortestPathsLead
  <2>4. r \in RouteType
    BY <1>1, <2>1, <2>3 DEF Route, RouteType, Leads
  <2>5. E \ {} = E
    OBVIOUS
  <2>6. Leads(r.v, E \ r.failedE, r.hops)
    BY <2>2, <2>3, <2>5
  <2>7. Walkable(r.v, r.rp)
    BY <2>2 DEF Walkable
  <2> QED BY <1>1, <2>2, <2>4, <2>6, <2>7 DEF RouteOK
<1>5. \A s \in Sources : \E r \in R : r.v = s /\ r.rp = << >> /\ r.failedE = {}
  <2> TAKE s \in Sources
  <2> DEFINE r == Route(s, default[s], {}, << >>)
  <2>1. r \in R
    OBVIOUS
  <2>2. r.v = s /\ r.rp = << >> /\ r.failedE = {}
    BY DEF Route
  <2> QED BY <2>1, <2>2
<1>6. IsFiniteSet(R)
  <2>1. IsFiniteSet(Sources)
    BY <1>1, TopologyAssumption, FS_Subset
  <2> DEFINE f == [s \in Sources |-> Route(s, default[s], {}, << >>)]
  <2>2. f \in Surjection(Sources, R)
    BY DEF Surjection
  <2> HIDE DEF f, R
  <2> QED BY <2>1, <2>2, FS_Surjection
<1>7. \A r, s \in R : r.v = s.v => r = s
  BY DEF Route
<1> HIDE DEF R
<1>8. IsFiniteSet(fwdtable)
  <2>1. \A T \in {Entries(r) : r \in R} : IsFiniteSet(T)
    BY <1>4, EntriesAre
  <2> DEFINE f == [r \in R |-> Entries(r)]
             TT == {Entries(r) : r \in R}
  <2>2. f \in Surjection(R, TT)
    BY DEF Surjection
  <2> HIDE DEF f, TT
  <2>3. IsFiniteSet(TT)
    BY <1>6, <2>2, FS_Surjection
  <2>4. IsFiniteSet(UNION TT)
    BY <2>1, <2>3, FS_UNION DEF TT
  <2> QED BY <1>3, <2>4 DEF TT
<1>9. RoutesApart(R)
  <2> SUFFICES ASSUME NEW r \in R, NEW s \in R, r # s, Origin(r) = Origin(s) PROVE FALSE
    BY DEF RoutesApart
  <2>1. Origin(r) = r.v /\ Origin(s) = s.v
    <3>1. \A w \in V : After(w, << >>) = w
      <4> TAKE w \in V
      <4>1. << >> \in Seq(E) /\ Len(<< >>) = 0
        OBVIOUS
      <4> QED BY <4>1, Places
    <3> QED BY <1>1, <1>4, <3>1 DEF Origin
  <2> QED BY <1>7, <2>1
<1>10. ASSUME NEW d \in nextdep
       PROVE  /\ DepOK(d) /\ d.route \in R /\ Cardinality(d.failed) = 1
  <2>1. PICK r \in R : d \in Deps(r, {})
    BY <1>3
  <2>2. PICK e \in Range(r.hops) : d = [failed |-> {} \cup {e}, route |-> r]
    BY <2>1 DEF Deps
  <2>3. d = [failed |-> r.failedE \cup {e}, route |-> r] /\ d.route = r /\ d.failed = {e}
    BY <1>4, <2>2
  <2>4. Cardinality(d.failed) = 1
    BY <2>3, FS_Singleton
  <2> QED BY <1>4, <2>3, <2>4 DEF DepOK
<1>11. PairsWait(R, dependencies \cup nextdep)
  <2>1. ASSUME NEW d \in nextdep, NEW s \in R, s # d.route, Origin(s) = Origin(d.route) PROVE FALSE
    <3>1. PICK n : ApartAt(s, d.route, n)
      BY <1>9, <1>10, <2>1 DEF RoutesApart
    <3>2. s.failedE = {} /\ d.route.failedE = {}
      BY <1>4, <1>10
    <3> QED BY <3>1, <3>2 DEF ApartAt
  <2> QED BY <1>1, <1>10, <2>1 DEF PairsWait
<1>12. AllMended(R, dependencies \cup nextdep)
  <2> SUFFICES ASSUME NEW r \in R, NEW e \in Range(r.hops) PROVE PairOf(r, e) \in nextdep
    BY DEF AllMended, Mended
  <2>1. PairOf(r, e) \in Deps(r, {})
    BY <1>4 DEF PairOf, Deps
  <2> QED BY <1>3, <2>1
<1>13. Tables(R)
  BY <1>1, <1>3, <1>4, <1>5, <1>8, <1>9, <1>10, <1>11, <1>12 DEF Tables
<1> QED BY <1>13

-----------------------------------------------------------------------------
(* The entries of a route depend on the arguments only.                    *)
LEMMA EntriesKept ==
  ASSUME args' = args
  PROVE  /\ \A r : Entries(r)' = Entries(r)
         /\ Sources' = Sources
BY DEF Entries, Sources

(* Nothing of this depends on the packet.                                  *)
LEMMA TablesKept ==
  ASSUME NEW R, Tables(R), UNCHANGED routes
  PROVE  Tables(R)'
<1>1. args' = args /\ i' = i /\ fwdtable' = fwdtable /\ dependencies' = dependencies /\ nextdep' = nextdep
  BY DEF routes
<1>2. (\A r : Entries(r)' = Entries(r)) /\ Sources' = Sources
  BY <1>1, EntriesKept
<1> QED BY <1>1, <1>2 DEF Tables

(* A new round takes up the pairs that wait and changes no table.           *)
LEMMA TablesNextRound ==
  ASSUME NEW R, Tables(R), NextRound
  PROVE  Tables(R)'
<1>1. /\ dependencies = {} /\ dependencies' = nextdep /\ nextdep' = {} /\ i' = i + 1
      /\ args' = args /\ fwdtable' = fwdtable
  BY DEF NextRound
<1>2. (\A r : Entries(r)' = Entries(r)) /\ Sources' = Sources
  BY <1>1, EntriesKept
<1>3. dependencies' \cup nextdep' = dependencies \cup nextdep
  BY <1>1
<1>4. i' \in Nat
  BY <1>1 DEF Tables
<1>5. \A d \in dependencies' : Cardinality(d.failed) = i'
  BY <1>1 DEF Tables
<1>6. PairsWait(R, dependencies' \cup nextdep') /\ AllMended(R, dependencies' \cup nextdep')
  BY <1>3 DEF Tables
<1> QED BY <1>1, <1>2, <1>4, <1>5, <1>6 DEF Tables

(* A backup route: it is apart from all others, so that its entries write  *)
(* over none.                                                              *)
LEMMA TablesBackup ==
  ASSUME NEW R, Tables(R), NEW d \in dependencies, Backup(d)
  PROVE  (\E S : Tables(S)') /\ fwdtable \subseteq fwdtable'
<1> DEFINE P == dependencies \cup nextdep
<1>1. /\ args' = args /\ i' = i /\ dependencies' = dependencies \ {d}
  BY DEF Backup
<1>2. (\A r : Entries(r)' = Entries(r)) /\ Sources' = Sources
  BY <1>1, EntriesKept
<1>3. DepOK(d) /\ d \in P /\ Cardinality(d.failed) = i /\ i \in Nat
  BY DEF Tables, PairsWait
<1>4. d \notin nextdep
  BY <1>3 DEF Tables
<1>5. PICK backups : backups = Backups(FailsAt(d), Known(d), Arcs(After(FailsAt(d), RevPath(d)), Reverse(RevPath(d))))
  OBVIOUS
<1>6. /\ \A h \in backups : Leads(FailsAt(d), E \ d.failed, h)
      /\ backups = {} => ShortestPaths(FailsAt(d), E \ d.failed) = {}
      /\ FailsAt(d) \in V \ {Dst} /\ Known(d) = d.failed
  BY <1>5, BackupsLead
<1>7. IF backups = {} THEN UNCHANGED <<fwdtable, nextdep>>
      ELSE \E h \in backups :
             LET r == Route(FailsAt(d), h, d.failed, RevPath(d))
             IN  /\ fwdtable' = Install(Entries(r))
                 /\ nextdep' = nextdep \cup Deps(r, d.failed)
  BY <1>5, <1>6 DEF Backup
<1>8. RoutesApart(R) /\ PairsWait(R, P) /\ AllMended(R, P) /\ \A s \in R : RouteOK(s)
  BY DEF Tables
<1>9. CASE backups = {}
  <2>1. fwdtable' = fwdtable /\ nextdep' = nextdep
    BY <1>7, <1>9
  <2>2. PICK Q : Q = dependencies' \cup nextdep'
    OBVIOUS
  <2>3. Q = P \ {d}
    BY <1>1, <1>4, <2>1, <2>2
  <2>4. PairsWait(R, Q)
    BY <1>8, <2>3 DEF PairsWait
  <2>5. Mended(R, Q, d)
    BY <1>6, <1>9 DEF Mended
  <2>6. AllMended(R, Q)
    <3>1. P \ {d} \subseteq Q /\ R \subseteq R /\ \A r \in R \ R : \A e \in Range(r.hops) : PairOf(r, e) \in Q
      BY <2>3
    <3> HIDE DEF P
    <3> QED BY <1>8, <2>5, <3>1, StayMended
  <2>7. \A c \in dependencies' : Cardinality(c.failed) = i'
    BY <1>1 DEF Tables
  <2>8. \A c \in nextdep' : Cardinality(c.failed) = i' + 1
    BY <1>1, <2>1 DEF Tables
  <2>9. Tables(R)'
    BY <1>1, <1>2, <2>1, <2>2, <2>4, <2>6, <2>7, <2>8 DEF Tables
  <2> QED BY <2>1, <2>9
<1>10. CASE backups # {}
  <2>1. PICK h \in backups :
             LET r == Route(FailsAt(d), h, d.failed, RevPath(d))
             IN  /\ fwdtable' = Install(Entries(r))
                 /\ nextdep' = nextdep \cup Deps(r, d.failed)
    BY <1>7, <1>10
  <2>2. PICK r : r = Route(FailsAt(d), h, d.failed, RevPath(d))
    OBVIOUS
  <2>3. fwdtable' = Install(Entries(r)) /\ nextdep' = nextdep \cup Deps(r, d.failed)
    BY <2>1, <2>2
  <2>4. r.v = FailsAt(d) /\ r.hops = h /\ r.failedE = d.failed /\ r.rp = RevPath(d)
    BY <2>2 DEF Route
  <2>5. PICK n \in 1..Len(d.route.hops) : Breaks(d, d.route, n)
    BY <1>3, DepFacts
  <2>6. RouteOK(d.route) /\ d.route.failedE \in SUBSET E
    BY <1>3, RouteFields DEF DepOK
  <2>7. d.failed \in SUBSET E
    <3>1. d.failed = d.route.failedE \cup {d.route.hops[n]} /\ d.route.hops[n] \in E
      BY <2>5 DEF Breaks
    <3> QED BY <2>6, <3>1
  <2>8. RevPath(d) \in Seq(E) /\ Walkable(FailsAt(d), RevPath(d))
    <3>1. Behind(d.route, n) \in Seq(E) /\ Walkable(Place(d.route.v, d.route.hops, n - 1), Behind(d.route, n))
      BY <2>6, BehindIs
    <3> QED BY <2>5, <3>1 DEF Breaks
  <2>9. Leads(FailsAt(d), E \ d.failed, h)
    BY <1>6
  <2>10. BacksUp(r, d)
    <3>1. r \in RouteType
      BY <1>6, <2>2, <2>7, <2>8, <2>9 DEF Route, RouteType, Leads
    <3> QED BY <1>6, <2>4, <2>8, <2>9, <3>1 DEF BacksUp, RouteOK
  <2>11. PICK Q : Q = dependencies' \cup nextdep'
    OBVIOUS
  <2>12. Q = (P \ {d}) \cup Deps(r, d.failed)
    BY <1>1, <1>4, <2>3, <2>11
  <2> DEFINE S == R \cup {r}
  <2>13. /\ \A s \in R : Origin(s) = Origin(r) => \E k : ApartAt(r, s, k)
         /\ r \notin R
         /\ RoutesApart(S)
         /\ PairsWait(S, Q)
    <3> HIDE DEF P
    <3> QED BY <1>3, <1>8, <2>10, <2>12, AddBackup
  <2>14. RouteOK(r)
    BY <2>10 DEF BacksUp
  <2>15. AllMended(S, Q)
    <3>1. R \subseteq S /\ P \ {d} \subseteq Q
      BY <2>12
    <3>2. Mended(S, Q, d)
      BY <2>10 DEF Mended
    <3>3. \A s \in S \ R : \A e \in Range(s.hops) : PairOf(s, e) \in Q
      <4> SUFFICES ASSUME NEW e \in Range(r.hops) PROVE PairOf(r, e) \in Q
        OBVIOUS
      <4>1. PairOf(r, e) \in Deps(r, d.failed)
        BY <2>4 DEF PairOf, Deps
      <4> QED BY <2>12, <4>1
    <3> HIDE DEF P, S
    <3> QED BY <1>8, <3>1, <3>2, <3>3, StayMended
  <2>16. ASSUME NEW o \in Entries(r), NEW old \in fwdtable
         PROVE  <<old.at, old.rp, old.up, old.down>> # <<o.at, o.rp, o.up, o.down>>
    <3> SUFFICES ASSUME old.at = o.at, old.rp = o.rp, old.up = o.up PROVE FALSE
      OBVIOUS
    <3>1. PICK s \in R : \E k \in Cells(s) : RouteOK(s) /\ k \in 1..Len(s.hops) /\ old = Cell(s, k)
      BY EntryOf
    <3>2. PICK k \in 1..Len(s.hops) : RouteOK(s) /\ old = Cell(s, k)
      BY <3>1
    <3>3. PICK j \in Cells(r) : o = Cell(r, j)
      BY <2>14, EntriesAre
    <3>4. j \in 1..Len(r.hops)
      BY <2>14, EntriesAre
    <3>5. Place(r.v, r.hops, j - 1) = Place(s.v, s.hops, k - 1) /\ Behind(r, j) = Behind(s, k) /\ r.hops[j] = s.hops[k]
      BY <3>2, <3>3 DEF Cell
    <3>6. /\ Origin(r) = Origin(s)
          /\ r = s => j = k
          /\ \A x : ApartAt(r, s, x) =>
               /\ r.hops[j] # s.hops[k]
               /\ \/ r.hops[j] \in s.failedE \cap EdgesAt(Place(s.v, s.hops, k - 1))
                  \/ s.hops[k] \in r.failedE \cap EdgesAt(Place(r.v, r.hops, j - 1))
      BY <2>14, <3>2, <3>4, <3>5, SameHeader
    <3>7. PICK x : ApartAt(r, s, x)
      BY <2>13, <3>6
    <3> QED BY <3>5, <3>6, <3>7
  <2>17. fwdtable' = fwdtable \cup Entries(r)
    BY <2>3, <2>16 DEF Install
  <2>18. fwdtable' = UNION {Entries(s) : s \in S}
    <3>1. fwdtable = UNION {Entries(s) : s \in R}
      BY DEF Tables
    <3> QED BY <2>17, <3>1
  <2>19. IsFiniteSet(fwdtable')
    <3>1. IsFiniteSet(fwdtable) /\ IsFiniteSet(Entries(r))
      BY <2>14, EntriesAre DEF Tables
    <3> QED BY <2>17, <3>1, FS_Union
  <2>20. \A c \in dependencies' : Cardinality(c.failed) = i'
    BY <1>1 DEF Tables
  <2>21. ASSUME NEW c \in nextdep' PROVE Cardinality(c.failed) = i' + 1
    <3>1. CASE c \in nextdep
      BY <1>1, <3>1 DEF Tables
    <3>2. CASE c \in Deps(r, d.failed)
      <4>1. PICK e \in Range(r.hops) : c = [failed |-> d.failed \cup {e}, route |-> r]
        BY <3>2 DEF Deps
      <4>2. e \notin d.failed
        <5>1. r.hops \in Seq(E) /\ \A x \in 1..Len(r.hops) : r.hops[x] \in E \ r.failedE
          BY <2>14, RouteFields
        <5>2. DOMAIN r.hops = 1..Len(r.hops)
          BY <5>1
        <5> QED BY <2>4, <5>1, <5>2 DEF Range
      <4>3. IsFiniteSet(d.failed)
        BY <2>7, TopologyAssumption, FS_Subset
      <4>4. Cardinality(d.failed \cup {e}) = Cardinality(d.failed) + 1
        BY <4>2, <4>3, FS_AddElement
      <4>5. c.failed = d.failed \cup {e}
        BY <4>1
      <4> QED BY <1>1, <1>3, <4>4, <4>5
    <3> QED BY <2>3, <3>1, <3>2
  <2>22. \A s \in Sources : \E q \in S : q.v = s /\ q.rp = << >> /\ q.failedE = {}
    BY DEF Tables
  <2>23. \A s \in S : RouteOK(s)
    BY <1>8, <2>14
  <2>24. args' \in Args /\ i' \in Nat
    BY <1>1 DEF Tables
  <2>25. PICK T : T = S
    OBVIOUS
  <2>26. /\ \A s \in T : RouteOK(s) 
         /\ RoutesApart(T) /\ PairsWait(T, Q) /\ AllMended(T, Q)
         /\ fwdtable' = UNION {Entries(s) : s \in T}
         /\ \A s \in Sources : \E q \in T : q.v = s /\ q.rp = << >> /\ q.failedE = {}
    BY <2>13, <2>15, <2>18, <2>22, <2>23, <2>25
  <2>27. /\ fwdtable' = UNION {Entries(s)' : s \in T}
         /\ \A s \in Sources' : \E q \in T : q.v = s /\ q.rp = << >> /\ q.failedE = {}
    BY <1>2, <2>26, ZenonT(30)
  <2>28. Tables(T)'
    BY <2>11, <2>19, <2>20, <2>21, <2>24, <2>26, <2>27 DEF Tables
  <2> QED BY <2>17, <2>28
<1> QED BY <1>9, <1>10

(* Every step of the construction keeps the tables explained, and every     *)
(* entry.                                                                   *)
LEMMA TablesBuild ==
  ASSUME NEW R, Tables(R), Build
  PROVE  (\E S : Tables(S)') /\ fwdtable \subseteq fwdtable'
<1>1. CASE NextRound
  <2>1. fwdtable' = fwdtable
    BY <1>1 DEF NextRound
  <2> QED BY <1>1, <2>1, TablesNextRound
<1>2. CASE \E d \in dependencies : Backup(d)
  BY <1>2, TablesBackup
<1> QED BY <1>1, <1>2 DEF Build

-----------------------------------------------------------------------------
(* A packet stands where a route that fits the failures has an entry.      *)
Stands(r, w, b) == \E n \in Cells(r) : w = Place(r.v, r.hops, n - 1) /\ b = Behind(r, n)

OnRoute(R, F, w, b) == \E r \in R : r.failedE \subseteq F /\ Stands(r, w, b)

AllUp(b, F) == b \in Seq(E) /\ \A k \in 1..Len(b) : b[k] \in E \ F

(* A packet that came along edges that are up and can still go on.         *)
GoesOn(R, F, w, b) == w \in V /\ AllUp(b, F) /\ OnRoute(R, F, w, b) /\ ~CutOff(E \ F, w)

(* With at most as many failures as rounds, that leave its source          *)
(* connected, a packet is not dropped: where it is looked up there is a    *)
(* route for it.                                                           *)
Underway(R) ==
  /\ status = "build" => rp = << >>
  /\ status # "build" =>
       /\ dependencies = {} /\ (nextdep = {} \/ i = Rounds)
       /\ failedE \subseteq E /\ src \in V
       /\ Cardinality(failedE) <= Rounds /\ ~CutOff(E \ failedE, src) =>
            /\ status # "dropped"
            /\ v = Dst \/ GoesOn(R, failedE, v, rp)

(* Which pair is about the n-th hop.                                       *)
LEMMA BrokenAt ==
  ASSUME NEW r, RouteOK(r), NEW n \in 1..Len(r.hops), \A k \in 1..(n - 1) : r.hops[k] # r.hops[n]
  PROVE  Breaks(PairOf(r, r.hops[n]), r, n) /\ r.hops[n] \in Range(r.hops)
<1>1. /\ r.hops \in Seq(E) /\ Len(r.hops) \in Nat /\ \A k \in 1..Len(r.hops) : r.hops[k] \in E \ r.failedE
  BY RouteFields
<1>2. r.hops[n] \in Range(r.hops)
  <2>1. n \in DOMAIN r.hops
    BY <1>1
  <2> QED BY <2>1 DEF Range
<1>3. PICK d : d = PairOf(r, r.hops[n])
  OBVIOUS
<1>4. DepOK(d) /\ d.route = r
  BY <1>2, <1>3 DEF DepOK, PairOf
<1>5. PICK m \in 1..Len(r.hops) : Breaks(d, r, m)
  BY <1>4, DepFacts
<1>6. r.hops[m] = r.hops[n]
  <2>1. d.failed = r.failedE \cup {r.hops[m]} /\ d.failed = r.failedE \cup {r.hops[n]}
    BY <1>3, <1>5 DEF Breaks, PairOf
  <2> QED BY <1>1, <2>1
<1>7. ~(m < n)
  <2> SUFFICES ASSUME m < n PROVE FALSE
    OBVIOUS
  <2>1. m \in 1..(n - 1)
    BY <1>1
  <2> QED BY <1>6, <2>1
<1>8. ~(n < m)
  <2> SUFFICES ASSUME n < m PROVE FALSE
    OBVIOUS
  <2>1. n \in 1..(m - 1)
    BY <1>1
  <2> QED BY <1>5, <1>6, <2>1 DEF Breaks
<1>9. m = n
  BY <1>1, <1>7, <1>8
<1> QED BY <1>2, <1>3, <1>5, <1>9

(* Where a route of the finished tables meets a failed edge there is a     *)
(* backup route, if no more edges failed than there were rounds.           *)
LEMMA MendedAt ==
  ASSUME NEW R, Tables(R), dependencies = {}, nextdep = {} \/ i = Rounds,
         failedE \subseteq E, Cardinality(failedE) <= Rounds,
         NEW r \in R, r.failedE \subseteq failedE, NEW n \in 1..Len(r.hops), r.hops[n] \in failedE,
         \A k \in 1..(n - 1) : r.hops[k] \notin failedE,
         ~CutOff(E \ failedE, Place(r.v, r.hops, n - 1))
  PROVE  \E s \in R : /\ s.failedE \subseteq failedE /\ s.failedE = r.failedE \cup {r.hops[n]}
                      /\ Cardinality(s.failedE) = Cardinality(r.failedE) + 1
                      /\ Stands(s, Place(r.v, r.hops, n - 1), Behind(r, n))
<1>1. RouteOK(r)
  BY DEF Tables
<1>2. PICK d : d = PairOf(r, r.hops[n])
  OBVIOUS
<1>3. Breaks(d, r, n) /\ r.hops[n] \in Range(r.hops)
  BY <1>1, <1>2, BrokenAt
<1>4. /\ FailsAt(d) = Place(r.v, r.hops, n - 1) /\ RevPath(d) = Behind(r, n)
      /\ d.failed = r.failedE \cup {r.hops[n]} /\ r.hops[n] \notin r.failedE /\ FailsAt(d) \in V
  BY <1>3 DEF Breaks
<1>5. d.failed \subseteq failedE /\ IsFiniteSet(failedE) /\ IsFiniteSet(d.failed) /\ IsFiniteSet(r.failedE)
  <2>1. d.failed \subseteq failedE /\ r.failedE \subseteq E
    BY <1>4
  <2> QED BY <2>1, TopologyAssumption, FS_Subset
<1>6. Mended(R, dependencies \cup nextdep, d)
  BY <1>2, <1>3 DEF Tables, AllMended
<1>7. d \notin nextdep
  <2> SUFFICES ASSUME d \in nextdep PROVE FALSE
    OBVIOUS
  <2>1. Cardinality(d.failed) = Rounds + 1 /\ i \in Nat /\ i = Rounds
    BY DEF Tables
  <2>2. Cardinality(d.failed) <= Cardinality(failedE) /\ Cardinality(failedE) \in Nat
    BY <1>5, FS_Subset, FS_CardinalityType
  <2> QED BY <2>1, <2>2
<1>8. ShortestPaths(FailsAt(d), E \ d.failed) # {}
  <2> SUFFICES ASSUME ShortestPaths(FailsAt(d), E \ d.failed) = {} PROVE FALSE
    OBVIOUS
  <2>1. CutOff(E \ d.failed, FailsAt(d))
    BY <1>4, ShortestPathsLead
  <2>2. E \ failedE \in SUBSET (E \ d.failed)
    BY <1>5
  <2>3. CutOff(E \ failedE, FailsAt(d))
    BY <1>4, <2>1, <2>2, CutOffKept
  <2> QED BY <1>4, <2>3
<1>9. PICK s \in R : BacksUp(s, d)
  BY <1>6, <1>7, <1>8 DEF Mended
<1>10. s.v = FailsAt(d) /\ s.rp = RevPath(d) /\ s.failedE = d.failed /\ RouteOK(s)
  BY <1>9 DEF BacksUp
<1>11. Stands(s, s.v, s.rp)
  <2>1. Place(s.v, s.hops, 1 - 1) = s.v /\ Behind(s, 1) = s.rp /\ 1 \in Cells(s)
    BY <1>10, AtHead, EntriesAre
  <2> QED BY <2>1 DEF Stands
<1>12. Cardinality(r.failedE \cup {r.hops[n]}) = Cardinality(r.failedE) + 1
  BY <1>4, <1>5, FS_AddElement
<1> QED BY <1>4, <1>5, <1>10, <1>11, <1>12

(* Of the routes that fit the failures the one that knows most of them has *)
(* an entry that matches.                                                  *)
LEMMA EntryMatches ==
  ASSUME NEW R, Tables(R), dependencies = {}, nextdep = {} \/ i = Rounds,
         failedE \subseteq E, Cardinality(failedE) <= Rounds,
         GoesOn(R, failedE, v, rp)
  PROVE  \E r \in R : \E n \in Cells(r) :
           /\ RouteOK(r) /\ r.failedE \subseteq failedE /\ n \in 1..Len(r.hops)
           /\ v = Place(r.v, r.hops, n - 1) /\ rp = Behind(r, n)
           /\ Cell(r, n) \in Matches
<1> DEFINE K == {r \in R : r.failedE \subseteq failedE /\ Stands(r, v, rp)}
           U == {Cardinality(r.failedE) : r \in K}
<1>0. K # {}
  BY DEF GoesOn, OnRoute
<1>1. IsFiniteSet(failedE) /\ Cardinality(failedE) \in Nat
  BY TopologyAssumption, FS_Subset, FS_CardinalityType
<1>2. \A r \in K : IsFiniteSet(r.failedE) /\ Cardinality(r.failedE) \in 0..Cardinality(failedE)
  <2> TAKE r \in K
  <2>1. r.failedE \subseteq failedE
    OBVIOUS
  <2>2. IsFiniteSet(r.failedE) /\ Cardinality(r.failedE) <= Cardinality(failedE)
    BY <1>1, <2>1, FS_Subset
  <2>3. Cardinality(r.failedE) \in Nat
    BY <2>2, FS_CardinalityType
  <2> QED BY <1>1, <2>2, <2>3
<1>3. PICK u \in U : \A z \in U : z <= u
  <2>1. U \subseteq 0..Cardinality(failedE) /\ U # {}
    <3> HIDE DEF K
    <3> QED BY <1>0, <1>2
  <2>2. IsFiniteSet(0..Cardinality(failedE)) /\ 0..Cardinality(failedE) \subseteq Nat
    BY <1>1, FS_Interval
  <2> HIDE DEF U
  <2>3. U \in SUBSET Nat /\ IsFiniteSet(U)
    BY <2>1, <2>2, FS_Subset
  <2> QED BY <2>1, <2>3, GreatestNat
<1>4. PICK r \in K : u = Cardinality(r.failedE)
  BY <1>3
<1>5. \A s \in K : Cardinality(s.failedE) <= Cardinality(r.failedE)
  BY <1>3, <1>4
<1>6. r \in R /\ r.failedE \subseteq failedE /\ RouteOK(r)
  BY DEF Tables
<1>7. PICK n \in Cells(r) : v = Place(r.v, r.hops, n - 1) /\ rp = Behind(r, n)
  BY DEF Stands
<1>8. n \in 1..Len(r.hops)
  BY <1>6, EntriesAre
<1>9. /\ Len(r.hops) \in Nat /\ Walkable(r.v, r.hops) /\ Head_(r) \in Nat
  BY <1>6, RouteFields DEF Head_
<1>10. \A k \in 1..(n - 1) : r.hops[k] \notin failedE
  <2> TAKE k \in 1..(n - 1)
  <2>1. Len(rp) = Head_(r) + (n - 1) /\ \A x \in 1..(Head_(r) + (n - 1)) : rp[x] = Way(r)[Head_(r) + (n - 1) - x + 1]
    BY <1>6, <1>7, <1>8, BehindIs
  <2>2. \A x \in 1..Len(r.hops) : Way(r)[Head_(r) + x] = r.hops[x]
    BY <1>6, WayIs
  <2>3. n - k \in 1..(Head_(r) + (n - 1)) /\ Head_(r) + (n - 1) - (n - k) + 1 = Head_(r) + k /\ k \in 1..Len(r.hops)
    BY <1>8, <1>9, SMTT(30)
  <2>4. rp[n - k] = r.hops[k]
    BY <2>1, <2>2, <2>3
  <2>5. rp[n - k] \notin failedE
    BY <2>1, <2>3 DEF GoesOn, AllUp
  <2> QED BY <2>4, <2>5
<1>11. r.hops[n] \notin failedE
  <2> SUFFICES ASSUME r.hops[n] \in failedE PROVE FALSE
    OBVIOUS
  <2>1. ~CutOff(E \ failedE, Place(r.v, r.hops, n - 1))
    BY <1>7 DEF GoesOn
  <2> HIDE DEF K
  <2>2. PICK s \in R : /\ s.failedE \subseteq failedE /\ s.failedE = r.failedE \cup {r.hops[n]}
                       /\ Cardinality(s.failedE) = Cardinality(r.failedE) + 1
                       /\ Stands(s, Place(r.v, r.hops, n - 1), Behind(r, n))
    BY <1>6, <1>8, <1>10, <2>1, MendedAt
  <2>3. s \in K
    BY <1>7, <2>2 DEF K
  <2>4. Cardinality(r.failedE) \in Nat
    BY <1>1, <1>2
  <2>5. Cardinality(s.failedE) <= Cardinality(r.failedE)
    BY <1>5, <2>3
  <2>6. Cardinality(s.failedE) = Cardinality(r.failedE) + 1
    BY <2>2
  <2>7. PICK x, y : x = Cardinality(r.failedE) /\ y = Cardinality(s.failedE)
    OBVIOUS
  <2>8. x \in Nat /\ y <= x /\ y = x + 1
    BY <2>4, <2>5, <2>6, <2>7
  <2> QED BY <2>8
<1>12. Cell(r, n) \in fwdtable
  <2>1. Cell(r, n) \in Entries(r)
    BY <1>6, EntriesAre
  <2> QED BY <1>6, <2>1 DEF Tables
<1>13. Cell(r, n) \in Matches
  BY <1>6, <1>7, <1>11, <1>12 DEF Matches, Cell
<1> QED BY <1>6, <1>7, <1>8, <1>13

(* Hops over edges that are up.                                            *)
LEMMA Onward ==
  ASSUME NEW w \in V, NEW F, NEW b, AllUp(b, F), NEW hs, AllUp(hs, F), Walkable(w, hs), ~CutOff(E \ F, w)
  PROVE  After(w, hs) \in V /\ AllUp(Reverse(hs) \o b, F) /\ ~CutOff(E \ F, After(w, hs))
<1>1. hs \in Seq(E) /\ b \in Seq(E) /\ \A k \in 1..Len(hs) : hs[k] \in E \ F
  BY DEF AllUp
<1>2. ~CutOff(E \ F, After(w, hs))
  BY <1>1, CutOffAlong
<1>3. After(w, hs) \in V
  <2>1. Len(hs) \in 0..Len(hs)
    BY <1>1
  <2> QED BY <1>1, <2>1, Places
<1> DEFINE c == Reverse(hs) \o b
<1>4. /\ c \in Seq(E) /\ Len(c) = Len(hs) + Len(b)
      /\ \A k \in 1..Len(hs) : c[k] = hs[Len(hs) - k + 1]
      /\ \A k \in 1..Len(b) : c[Len(hs) + k] = b[k]
  BY <1>1, TurnedConcat
<1> HIDE DEF c
<1>5. Len(hs) \in Nat /\ Len(b) \in Nat
  BY <1>1
<1>6. ASSUME NEW k \in 1..Len(c) PROVE c[k] \in E \ F
  <2>1. CASE k <= Len(hs)
    <3>1. k \in 1..Len(hs) /\ Len(hs) - k + 1 \in 1..Len(hs)
      BY <1>4, <1>5, <2>1
    <3> QED BY <1>1, <1>4, <3>1
  <2>2. CASE ~(k <= Len(hs))
    <3>1. PICK j : j = k - Len(hs)
      OBVIOUS
    <3>2. j \in 1..Len(b) /\ Len(hs) + j = k
      BY <1>4, <1>5, <2>2, <3>1
    <3>3. c[Len(hs) + j] = b[j]
      BY <1>4, <3>2
    <3> QED BY <3>2, <3>3 DEF AllUp
  <2> QED BY <2>1, <2>2
<1>7. AllUp(c, F)
  BY <1>4, <1>6 DEF AllUp
<1> QED BY <1>2, <1>3, <1>7 DEF c

-----------------------------------------------------------------------------
(* One hop more.                                                           *)
LEMMA OneHop ==
  ASSUME NEW w \in V, NEW e \in E
  PROVE  /\ <<e>> \in Seq(E) /\ Len(<<e>>) = 1 /\ <<e>>[1] = e
         /\ After(w, <<e>>) = Other(w, e)
         /\ e \in EdgesAt(w) => Walkable(w, <<e>>)
<1>1. PICK s : s = <<e>>
  OBVIOUS
<1>2. s \in Seq(E) /\ Len(s) = 1 /\ s[1] = e
  BY <1>1
<1>3. 1 \in 1..Len(s) /\ \A n \in 1..Len(s) : n = 1 /\ n - 1 = 0
  BY <1>2
<1>4. Place(w, s, 1) = Other(Place(w, s, 1 - 1), s[1]) /\ Place(w, s, 1) = After(w, s) /\ Place(w, s, 0) = w
  BY <1>2, <1>3, Places
<1>5. After(w, s) = Other(w, e)
  BY <1>2, <1>4
<1>6. e \in EdgesAt(w) => Walkable(w, s)
  BY <1>2, <1>3, <1>4 DEF Walkable
<1> QED BY <1>1, <1>2, <1>5, <1>6

(* After one hop more the reverse path is longer by that hop.               *)
LEMMA BehindNext ==
  ASSUME NEW r, RouteOK(r), NEW n \in 1..Len(r.hops), n # Len(r.hops)
  PROVE  /\ Behind(r, n + 1) = Reverse(<<r.hops[n]>>) \o Behind(r, n)
         /\ n + 1 \in 1..Len(r.hops)
<1>1. /\ r.v \in V /\ r.hops \in Seq(E) /\ Len(r.hops) \in Nat /\ Head_(r) \in Nat
      /\ \A k \in 1..Len(r.hops) : r.hops[k] \in E
      /\ Walkable(r.v, r.hops)
      /\ \A k \in 0..(Len(r.hops) - 1) : Place(r.v, r.hops, k) \in V
  BY RouteFields DEF Head_
<1>2. n + 1 \in 1..Len(r.hops) /\ (n + 1) - 1 = n /\ n \in Nat /\ n >= 1
  BY <1>1
<1>3. PICK w : w = Place(r.v, r.hops, n - 1)
  OBVIOUS
<1>4. PICK s : s = <<r.hops[n]>>
  OBVIOUS
<1>5. w \in V /\ s \in Seq(E) /\ Len(s) = 1 /\ s[1] = r.hops[n] /\ Walkable(w, s)
  <2>1. n - 1 \in 0..(Len(r.hops) - 1)
    BY <1>1, <1>2
  <2>2. w \in V /\ r.hops[n] \in E /\ r.hops[n] \in EdgesAt(w)
    BY <1>1, <1>3, <2>1 DEF Walkable
  <2> QED BY <1>4, <2>2, OneHop
<1>6. PICK b : b = Behind(r, n)
  OBVIOUS
<1>7. /\ b \in Seq(E) /\ Len(b) = Head_(r) + (n - 1)
      /\ \A k \in 1..(Head_(r) + (n - 1)) : b[k] = Way(r)[Head_(r) + (n - 1) - k + 1]
  BY <1>6, BehindIs
<1>8. PICK f : f = Behind(r, n + 1)
  OBVIOUS
<1>9. /\ f \in Seq(E) /\ Len(f) = Head_(r) + n
      /\ \A k \in 1..(Head_(r) + n) : f[k] = Way(r)[Head_(r) + n - k + 1]
  <2>1. /\ Behind(r, n + 1) \in Seq(E) /\ Len(Behind(r, n + 1)) = Head_(r) + ((n + 1) - 1)
        /\ \A k \in 1..(Head_(r) + ((n + 1) - 1)) : Behind(r, n + 1)[k] = Way(r)[Head_(r) + ((n + 1) - 1) - k + 1]
    BY <1>2, BehindIs
  <2> QED BY <1>2, <1>8, <2>1
<1>10. PICK c : c = Reverse(s) \o b
  OBVIOUS
<1>11. /\ c \in Seq(E) /\ Len(c) = 1 + Len(b)
       /\ c[1] = r.hops[n]
       /\ \A k \in 1..Len(b) : c[1 + k] = b[k]
  <2>1. /\ c \in Seq(E) /\ Len(c) = Len(s) + Len(b)
        /\ \A k \in 1..Len(s) : c[k] = s[Len(s) - k + 1]
        /\ \A k \in 1..Len(b) : c[Len(s) + k] = b[k]
    BY <1>5, <1>7, <1>10, TurnedConcat
  <2>2. 1 \in 1..Len(s) /\ Len(s) - 1 + 1 = 1
    BY <1>5
  <2> QED BY <1>5, <2>1, <2>2
<1>12. Way(r)[Head_(r) + n] = r.hops[n]
  BY WayIs
<1>13. Len(c) = Len(f) /\ Len(f) = Head_(r) + n
  BY <1>1, <1>2, <1>7, <1>9, <1>11, SMTT(30)
<1>14. ASSUME NEW k \in 1..(Head_(r) + n) PROVE c[k] = f[k]
  <2>1. CASE k = 1
    <3>1. Head_(r) + n - 1 + 1 = Head_(r) + n
      BY <1>1, <1>2
    <3> QED BY <1>9, <1>11, <1>12, <2>1, <3>1
  <2>2. CASE k # 1
    <3>1. PICK j : j = k - 1
      OBVIOUS
    <3>2. /\ j \in 1..(Head_(r) + (n - 1)) /\ 1 + j = k
          /\ Head_(r) + n - k + 1 = Head_(r) + (n - 1) - j + 1
      BY <1>1, <1>2, <2>2, <3>1, SMTT(30)
    <3>3. c[1 + j] = b[j]
      BY <1>7, <1>11, <3>2
    <3> QED BY <1>7, <1>9, <3>2, <3>3
  <2> QED BY <2>1, <2>2
<1>15. c = f
  <2>1. \A k \in 1..Len(c) : c[k] = f[k]
    BY <1>13, <1>14
  <2> QED BY <1>9, <1>11, <1>13, <2>1, SeqEqual
<1> QED BY <1>2, <1>4, <1>6, <1>8, <1>10, <1>15

(* Where the packet gets to there is a route for it again.                 *)
LEMMA ForwardGoesOn ==
  ASSUME NEW R, Tables(R), dependencies = {}, nextdep = {} \/ i = Rounds,
         failedE \subseteq E, Cardinality(failedE) <= Rounds,
         GoesOn(R, failedE, v, rp), NEW o \in Matches,
         NEW done, done = Followed(o.out, failedE)
  PROVE  After(v, done) = Dst \/ GoesOn(R, failedE, After(v, done), Reverse(done) \o rp)
<1>0. PICK r \in R : \E n \in Cells(r) :
           /\ RouteOK(r) /\ r.failedE \subseteq failedE /\ n \in 1..Len(r.hops)
           /\ v = Place(r.v, r.hops, n - 1) /\ rp = Behind(r, n)
           /\ Cell(r, n) \in Matches
  BY EntryMatches
<1>1. PICK n \in Cells(r) :
           /\ RouteOK(r) /\ r.failedE \subseteq failedE /\ n \in 1..Len(r.hops)
           /\ v = Place(r.v, r.hops, n - 1) /\ rp = Behind(r, n)
           /\ Cell(r, n) \in Matches
  BY <1>0
<1>2. o = Cell(r, n)
  <2>1. Exclusive
    BY TablesExclusive
  <2>2. PICK p : p = Cell(r, n)
    OBVIOUS
  <2>3. /\ o \in fwdtable /\ p \in fwdtable /\ o.at = p.at /\ o.rp = p.rp
        /\ o.up \notin (EdgesAt(v) \cap failedE) /\ p.up \notin (EdgesAt(v) \cap failedE)
        /\ o.down \subseteq (EdgesAt(v) \cap failedE) /\ p.down \subseteq (EdgesAt(v) \cap failedE)
    BY <1>1, <2>2 DEF Matches
  <2>4. o = p
    BY <2>1, <2>3 DEF Exclusive
  <2> QED BY <2>2, <2>4
<1>3. PICK w, b : w = v /\ b = rp
  OBVIOUS
<1>4. w \in V /\ AllUp(b, failedE) /\ ~CutOff(E \ failedE, w)
  BY <1>3 DEF GoesOn
<1>5. /\ r.v \in V /\ r.hops \in Seq(E) /\ Len(r.hops) \in Nat
      /\ Walkable(r.v, r.hops) /\ After(r.v, r.hops) = Dst
      /\ \A k \in 1..Len(r.hops) : r.hops[k] \in E \ r.failedE
      /\ Place(r.v, r.hops, Len(r.hops)) = After(r.v, r.hops)
  BY <1>1, RouteFields, Places
<1>6. r.hops[n] \in E \ failedE /\ r.hops[n] \in EdgesAt(w)
  <2>1. r.hops[n] \in EdgesAt(w) /\ r.hops[n] \in E
    BY <1>1, <1>3, <1>5 DEF Walkable
  <2>2. r.hops[n] \notin EdgesAt(v) \cap failedE
    BY <1>1 DEF Matches, Cell
  <2> QED BY <1>3, <2>1, <2>2
<1>7. ASSUME args.fwd_routing # "src"
      PROVE  After(w, done) = Dst \/ GoesOn(R, failedE, After(w, done), Reverse(done) \o b)
  <2>1. PICK hs : hs = <<r.hops[n]>>
    OBVIOUS
  <2>2. o.out = hs /\ n + 1 \in Nat /\ (n + 1) - 1 = n
    <3>1. o.out = hs
      BY <1>2, <1>7, <2>1 DEF Cell
    <3>2. n \in Nat
      BY <1>1, <1>5
    <3> QED BY <3>1, <3>2
  <2>3. hs \in Seq(E) /\ Len(hs) = 1 /\ hs[1] = r.hops[n] /\ After(w, hs) = Other(w, r.hops[n]) /\ Walkable(w, hs)
    BY <1>4, <1>6, <2>1, OneHop
  <2>4. AllUp(hs, failedE)
    BY <1>6, <2>3 DEF AllUp
  <2>5. done = hs
    <3>1. \A k \in 1..Len(hs) : hs[k] \notin failedE
      BY <2>4 DEF AllUp
    <3> QED BY <2>2, <2>3, <3>1, FollowedAt
  <2>6. After(w, hs) \in V /\ AllUp(Reverse(hs) \o b, failedE) /\ ~CutOff(E \ failedE, After(w, hs))
    BY <1>4, <2>3, <2>4, Onward
  <2>7. After(w, hs) = Place(r.v, r.hops, n)
    <3>1. Place(r.v, r.hops, n) = Other(Place(r.v, r.hops, n - 1), r.hops[n])
      BY <1>1, <1>5, Places
    <3> QED BY <1>1, <1>3, <2>3, <3>1
  <2>8. CASE n = Len(r.hops)
    BY <1>5, <2>5, <2>7, <2>8
  <2>9. CASE n # Len(r.hops)
    <3>1. Behind(r, n + 1) = Reverse(hs) \o b /\ n + 1 \in 1..Len(r.hops)
      BY <1>1, <1>3, <2>1, <2>9, BehindNext
    <3>2. n + 1 \in Cells(r)
      BY <1>7, <3>1 DEF Cells
    <3>3. Stands(r, After(w, hs), Reverse(hs) \o b)
      BY <2>2, <2>7, <3>1, <3>2 DEF Stands
    <3> QED BY <1>1, <2>5, <2>6, <3>3 DEF GoesOn, OnRoute
  <2> QED BY <2>8, <2>9
<1>8. ASSUME args.fwd_routing = "src"
      PROVE  After(w, done) = Dst \/ GoesOn(R, failedE, After(w, done), Reverse(done) \o b)
  <2>1. n = 1 /\ o.out = r.hops
    BY <1>1, <1>2, <1>8 DEF Cells, Cell
  <2>2. w = r.v /\ b = r.rp
    BY <1>1, <1>3, <2>1, AtHead
  <2>3. CASE done = r.hops
    BY <1>5, <2>2, <2>3
  <2>4. CASE \E m \in 1..Len(r.hops) : /\ r.hops[m] \in failedE
                                       /\ \A k \in 1..(m - 1) : r.hops[k] \notin failedE
                                       /\ done = SubSeq(r.hops, 1, m - 1)
    <3>1. PICK m \in 1..Len(r.hops) : /\ r.hops[m] \in failedE
                                      /\ \A k \in 1..(m - 1) : r.hops[k] \notin failedE
                                      /\ done = SubSeq(r.hops, 1, m - 1)
      BY <2>4
    <3>2. m - 1 \in 0..Len(r.hops) /\ m - 1 \in Nat /\ m - 1 <= Len(r.hops)
      BY <1>5
    <3>3. done \in Seq(E) /\ Len(done) = m - 1 /\ \A k \in 1..(m - 1) : done[k] = r.hops[k]
      BY <1>5, <3>1, <3>2, FirstHops
    <3>4. AllUp(done, failedE)
      <4> SUFFICES ASSUME NEW k \in 1..(m - 1) PROVE done[k] \in E \ failedE
        BY <3>3 DEF AllUp
      <4>1. k \in 1..Len(r.hops)
        BY <1>5, <3>2
      <4> QED BY <1>5, <3>1, <3>3, <4>1
    <3>5. Walkable(w, done)
      <4>1. PICK rest : rest = SubSeq(r.hops, m, Len(r.hops))
        OBVIOUS
      <4>2. rest \in Seq(E) /\ r.hops = done \o rest
        BY <1>5, <3>1, <4>1, LastHops
      <4> QED BY <1>4, <1>5, <2>2, <3>3, <4>2, WalkConcat
    <3>6. After(w, done) = Place(r.v, r.hops, m - 1)
      BY <2>2, <3>1 DEF Place
    <3>7. Reverse(done) \o b = Behind(r, m)
      BY <2>2, <3>1 DEF Behind
    <3>8. After(w, done) \in V /\ AllUp(Reverse(done) \o b, failedE) /\ ~CutOff(E \ failedE, After(w, done))
      BY <1>4, <3>4, <3>5, Onward
    <3>9. ~CutOff(E \ failedE, Place(r.v, r.hops, m - 1))
      BY <3>6, <3>8
    <3>10. PICK s \in R : /\ s.failedE \subseteq failedE /\ s.failedE = r.failedE \cup {r.hops[m]}
                          /\ Cardinality(s.failedE) = Cardinality(r.failedE) + 1
                          /\ Stands(s, Place(r.v, r.hops, m - 1), Behind(r, m))
      BY <1>1, <3>1, <3>9, MendedAt
    <3> QED BY <3>6, <3>7, <3>8, <3>10 DEF GoesOn, OnRoute
  <2> QED BY <1>5, <2>1, <2>3, <2>4, FollowedAt, SMTT(30)
<1> QED BY <1>3, <1>7, <1>8

-----------------------------------------------------------------------------
(* The inductive invariant: some set of routes explains the tables, the    *)
(* pairs that wait and the packet.                                         *)
PlinkoInv == \E R : Tables(R) /\ Underway(R)

(* The default routes explain the first tables, and no packet is under      *)
(* way.                                                                     *)
LEMMA PlinkoInit == WalkInit => PlinkoInv
<1> SUFFICES ASSUME WalkInit PROVE PlinkoInv
  OBVIOUS
<1>1. PICK R : Tables(R)
  BY TablesInit DEF WalkInit
<1>2. Underway(R)
  BY DEF WalkInit, Underway
<1> QED BY <1>1, <1>2 DEF PlinkoInv

(* Building does not touch the packet.                                     *)
LEMMA InvBuildTables ==
  ASSUME NEW R, Tables(R), Underway(R), BuildTables
  PROVE  PlinkoInv' /\ fwdtable \subseteq fwdtable'
<1>1. Build /\ status' = "build" /\ status = "build" /\ rp' = rp
  BY DEF BuildTables, packet
<1>2. PICK S : Tables(S)'
  BY <1>1, TablesBuild
<1>3. Underway(S)'
  BY <1>1 DEF Underway
<1>4. fwdtable \subseteq fwdtable'
  BY <1>1, TablesBuild
<1> QED BY <1>2, <1>3, <1>4 DEF PlinkoInv

(* A packet is sent on the default route of its source.                    *)
LEMMA InvSend ==
  ASSUME NEW R, Tables(R), Underway(R), Send
  PROVE  PlinkoInv' /\ fwdtable \subseteq fwdtable'
<1>1. /\ status = "build" /\ status' = "walking" /\ failedE' \subseteq E /\ src' \in Sources /\ v' = src'
      /\ UNCHANGED routes /\ rp' = rp /\ Built
  BY DEF Send
<1>2. Tables(R)'
  BY <1>1, TablesKept
<1>3. /\ dependencies' = dependencies /\ nextdep' = nextdep /\ i' = i /\ args' = args /\ fwdtable' = fwdtable
      /\ Rounds' = Rounds
  BY <1>1 DEF routes, Rounds
<1>4. rp' = << >>
  BY <1>1 DEF Underway
<1>5. src' \in V
  <2>1. args \in ArgsType
    BY RoutesAssumption DEF Tables
  <2> QED BY <1>1, <2>1 DEF ArgsType, Sources
<1>6. PICK w, F : w = src' /\ F = failedE'
  OBVIOUS
<1>7. ASSUME ~CutOff(E \ F, w)
      PROVE  GoesOn(R, F, w, << >>)
  <2>1. PICK r \in R : r.v = w /\ r.rp = << >> /\ r.failedE = {}
    BY <1>1, <1>6 DEF Tables
  <2>2. RouteOK(r)
    BY DEF Tables
  <2>3. Place(r.v, r.hops, 1 - 1) = r.v /\ Behind(r, 1) = r.rp /\ 1 \in Cells(r)
    BY <2>2, AtHead, EntriesAre
  <2>4. Stands(r, w, << >>)
    BY <2>1, <2>3 DEF Stands
  <2>5. AllUp(<< >>, F)
    BY DEF AllUp
  <2> QED BY <1>5, <1>6, <1>7, <2>1, <2>4, <2>5 DEF GoesOn, OnRoute
<1>8. GoesOn(R, F, w, << >>)' <=> GoesOn(R, F, w, << >>)
  BY <1>3 DEF GoesOn, OnRoute, Stands, Cells
<1>9. Underway(R)'
  <2>1. ~CutOff(E \ failedE', src') => GoesOn(R, F, w, << >>)'
    BY <1>6, <1>7, <1>8
  <2>2. ~CutOff(E \ failedE', src') => GoesOn(R, failedE, v, rp)'
    BY <1>1, <1>3, <1>4, <1>6, <2>1 DEF GoesOn, OnRoute, Stands, Cells
  <2> QED BY <1>1, <1>3, <1>5, <2>2 DEF Underway, Built
<1> QED BY <1>2, <1>3, <1>9 DEF PlinkoInv

(* The steps of the packet.                                                *)
LEMMA InvWalk ==
  ASSUME NEW R, Tables(R), Underway(R), Walk
  PROVE  PlinkoInv' /\ fwdtable \subseteq fwdtable'
<1>1. status = "walking" /\ status' # "build" /\ UNCHANGED routes /\ failedE' = failedE /\ src' = src
  BY DEF Walk, Drop, Arrive, Forward
<1>2. Tables(R)'
  BY <1>1, TablesKept
<1>3. /\ dependencies' = dependencies /\ nextdep' = nextdep /\ i' = i /\ args' = args /\ fwdtable' = fwdtable
      /\ Rounds' = Rounds
  BY <1>1 DEF routes, Rounds
<1>4. /\ dependencies = {} /\ (nextdep = {} \/ i = Rounds)
      /\ failedE \subseteq E /\ src \in V
  BY <1>1 DEF Underway
<1>5. ASSUME Cardinality(failedE) <= Rounds, ~CutOff(E \ failedE, src)
      PROVE  status' # "dropped" /\ (v' = Dst \/ GoesOn(R, failedE, v', rp'))
  <2>1. v = Dst \/ GoesOn(R, failedE, v, rp)
    BY <1>1, <1>5 DEF Underway
  <2>2. CASE Drop
    <3>1. v # Dst /\ Matches = {}
      BY <2>2 DEF Drop
    <3>2. GoesOn(R, failedE, v, rp)
      BY <2>1, <3>1
    <3>3. \E r \in R : \E n \in Cells(r) :
           /\ RouteOK(r) /\ r.failedE \subseteq failedE /\ n \in 1..Len(r.hops)
           /\ v = Place(r.v, r.hops, n - 1) /\ rp = Behind(r, n)
           /\ Cell(r, n) \in Matches
      BY <1>4, <1>5, <3>2, EntryMatches
    <3> QED BY <3>1, <3>3
  <2>3. CASE Arrive
    BY <2>1, <2>3 DEF Arrive
  <2>4. CASE \E o \in fwdtable : Forward(o)
    <3>1. PICK o \in fwdtable : Forward(o)
      BY <2>4
    <3>2. PICK done : done = Followed(o.out, failedE)
      OBVIOUS
    <3>3. /\ v # Dst /\ o \in Matches /\ status' = status
          /\ v' = After(v, done) /\ rp' = Reverse(done) \o rp
      BY <3>1, <3>2 DEF Forward
    <3>4. After(v, done) = Dst \/ GoesOn(R, failedE, After(v, done), Reverse(done) \o rp)
      BY <1>4, <1>5, <2>1, <3>2, <3>3, ForwardGoesOn
    <3>5. CASE After(v, done) = Dst
      BY <1>1, <3>3, <3>5
    <3>6. CASE GoesOn(R, failedE, After(v, done), Reverse(done) \o rp)
      <4>1. PICK w, b : w = After(v, done) /\ b = Reverse(done) \o rp
        OBVIOUS
      <4>2. GoesOn(R, failedE, w, b) /\ w = v' /\ b = rp'
        BY <3>3, <3>6, <4>1
      <4> QED BY <1>1, <3>3, <4>2
    <3> QED BY <3>4, <3>5, <3>6
  <2> QED BY <2>2, <2>3, <2>4 DEF Walk
<1>6. PICK w, b : w = v' /\ b = rp'
  OBVIOUS
<1>7. GoesOn(R, failedE, w, b) => GoesOn(R, failedE, w, b)'
  BY <1>1, <1>3 DEF GoesOn, OnRoute, Stands, Cells
<1>8. GoesOn(R, failedE, w, b)' => GoesOn(R, failedE, v, rp)'
  BY <1>6 DEF GoesOn, OnRoute, Stands, Cells
<1>9. Underway(R)'
  BY <1>1, <1>3, <1>4, <1>5, <1>6, <1>7, <1>8 DEF Underway
<1> QED BY <1>2, <1>3, <1>9 DEF PlinkoInv

(* The invariant is kept by every step, of the construction and of the      *)
(* packet.                                                                  *)
LEMMA InvNext ==
  ASSUME PlinkoInv, [Next]_vars
  PROVE  PlinkoInv' /\ fwdtable \subseteq fwdtable'
<1>1. PICK R : Tables(R) /\ Underway(R)
  BY DEF PlinkoInv
<1>2. CASE BuildTables
  BY <1>1, <1>2, InvBuildTables
<1>3. CASE Send
  BY <1>1, <1>3, InvSend
<1>4. CASE Walk
  BY <1>1, <1>4, InvWalk
<1>5. CASE UNCHANGED vars
  <2>1. UNCHANGED routes /\ UNCHANGED packet
    BY <1>5 DEF vars
  <2>2. Tables(R)'
    BY <1>1, <2>1, TablesKept
  <2>3. /\ dependencies' = dependencies /\ nextdep' = nextdep /\ i' = i /\ args' = args /\ fwdtable' = fwdtable
        /\ failedE' = failedE /\ src' = src /\ v' = v /\ rp' = rp /\ status' = status /\ Rounds' = Rounds
    BY <2>1 DEF routes, packet, Rounds
  <2>4. GoesOn(R, failedE, v, rp) => GoesOn(R, failedE, v, rp)'
    BY <2>3 DEF GoesOn, OnRoute, Stands, Cells
  <2>5. Underway(R)'
    BY <1>1, <2>3, <2>4 DEF Underway
  <2> QED BY <2>2, <2>3, <2>5 DEF PlinkoInv
<1> QED BY <1>2, <1>3, <1>4, <1>5 DEF Next

(* In every reachable state the tables of main are those of some set of     *)
(* routes that are apart, every failure that a round has looked at is       *)
(* mended or cuts a switch off, and a packet that can still reach Dst       *)
(* stands on one of the routes.                                             *)
THEOREM PlinkoInvariant == Spec => []PlinkoInv
<1>1. PlinkoInv /\ [Next]_vars => PlinkoInv'
  BY InvNext
<1> QED BY PlinkoInit, <1>1, PTL DEF Spec

(* The assert "knownFailedE == edgeDeps" of main never fails: what a        *)
(* switch can know from the reverse path and from its own ports is exactly  *)
(* the set of edges that failed on the way, in every round.                 *)
THEOREM KnowsWhatFailedHolds == Spec => []KnowsWhatFailed
<1>1. PlinkoInv => KnowsWhatFailed
  BY TablesKnow DEF PlinkoInv
<1> QED BY PlinkoInvariant, <1>1, PTL

(* No two entries that one header can reach both apply: the reverse path    *)
(* and the local failures tell all routes through a switch apart.           *)
THEOREM ExclusiveHolds == Spec => []Exclusive
<1>1. PlinkoInv => Exclusive
  BY TablesExclusive DEF PlinkoInv
<1> QED BY PlinkoInvariant, <1>1, PTL

(* A packet is dropped by plinko_walk_path only if more edges have failed   *)
(* than rounds were built for, or its source is cut off from Dst: what      *)
(* --res promises.                                                          *)
THEOREM ResilientHolds == Spec => []Resilient
<1>1. PlinkoInv => Resilient
  <2> SUFFICES ASSUME PlinkoInv, status = "dropped", Cardinality(failedE) <= Rounds
               PROVE  ShortestPaths(src, E \ failedE) = {}
    BY DEF Resilient
  <2>1. PICK R : Underway(R)
    BY DEF PlinkoInv
  <2>2. src \in V /\ CutOff(E \ failedE, src)
    BY <2>1 DEF Underway
  <2> QED BY <2>2, ShortestPathsLead
<1> QED BY PlinkoInvariant, <1>1, PTL

(* No step writes an entry of a forwarding table over another, although     *)
(* v.fwdtable is a dict and main assigns to it without looking.             *)
THEOREM NothingOverwritten == Spec => [][fwdtable \subseteq fwdtable']_vars
<1>1. PlinkoInv /\ [Next]_vars => [fwdtable \subseteq fwdtable']_vars
  BY InvNext
<1> QED BY PlinkoInvariant, <1>1, PTL DEF Spec
=============================================================================

--------------------------- MODULE TreeWalkProofs ---------------------------
(***************************************************************************)
(* Resilience of forwarding on edge- and arc-disjoint trees, for every     *)
(* network, forest, table and set of failures: what a packet marks is      *)
(* broken, one intact tree delivers, k edge-disjoint trees survive any     *)
(* k - 1 failed edges, and so do k arc-disjoint ones up to k = 3, or as    *)
(* far as the tables keep each tree and its reverse together.  Without     *)
(* default trees no walk crosses a link twice the same way.                *)
(***************************************************************************)
EXTENDS TreeWalk, SequenceTheorems, FiniteSetTheorems, TLAPS

-----------------------------------------------------------------------------
(* Rows.                                                                   *)

(* A function on 1..n is a sequence of length n.                           *)
LEMMA FunctionIsSequence ==
  ASSUME NEW S, NEW n \in Nat, NEW f \in [1..n -> S]
  PROVE  f \in Seq(S) /\ Len(f) = n
  OBVIOUS

(* A sorted list of the resilient trees holds all of them.                 *)
LEMMA OrderCovers ==
  ASSUME NEW len, NEW s \in Orders(len)
  PROVE  /\ NumRes \in Nat
         /\ s \in [1..NumRes -> ResilientTrees]
         /\ \A t \in ResilientTrees : \E i \in 1..NumRes : s[i] = t
<1>1. IsFiniteSet(ResilientTrees)
  BY TreesAssumption
<1>2. NumRes \in Nat
  BY <1>1, FS_CardinalityType DEF NumRes
<1>3. s \in [1..NumRes -> ResilientTrees]
  BY DEF Orders
<1>4. ASSUME NEW i \in 1..NumRes, NEW j \in 1..NumRes, s[i] = s[j]
      PROVE  i = j
  <2>1. \A a, b \in 1..NumRes : a < b => s[a] # s[b]
    BY DEF Orders
  <2>2. i \in Nat /\ j \in Nat
    BY <1>2
  <2>3. ~(i < j) /\ ~(j < i)
    BY <1>4, <2>1
  <2> QED BY <2>2, <2>3
<1>5. s \in Injection(1..NumRes, ResilientTrees)
  BY <1>3, <1>4 DEF Injection, IsInjective
<1>6. Cardinality(1..NumRes) = Cardinality(ResilientTrees)
  BY <1>2, FS_Interval DEF NumRes
<1>7. s \in Surjection(1..NumRes, ResilientTrees)
  BY <1>1, <1>5, <1>6, FS_Injection
<1> QED
  BY <1>2, <1>3, <1>7 DEF Surjection

(* The entries of a list of trees mark what stands above them.             *)
LEMMA MarkedOffers ==
  ASSUME NEW n \in Nat, NEW trees \in [1..n -> Trees],
         \A t \in ResilientTrees : \E i \in 1..n : trees[i] = t
  PROVE  OffersAll(Marked(trees)) /\ Marked(trees) \in Seq(Entries)
<1>1. Len(trees) = n
  BY FunctionIsSequence
<1> DEFINE row == Marked(trees)
<1>2. DOMAIN row = 1..n
  BY <1>1 DEF Marked
<1>3. \A i \in 1..n : row[i].up = trees[i]
                      /\ row[i].mark = {trees[j] : j \in 1..(i - 1)}
  BY <1>1 DEF Marked
<1> HIDE DEF row
<1>4. \A i \in 1..n : row[i].up \in Trees
  BY <1>3
<1>5. ASSUME NEW i \in 1..n, NEW t \in row[i].mark
      PROVE  \E j \in 1..n : j < i /\ row[j].up = t
  <2>1. PICK j \in 1..(i - 1) : t = trees[j]
    BY <1>3, <1>5
  <2>2. j \in 1..n /\ j < i
    OBVIOUS
  <2> QED BY <1>3, <2>1, <2>2
<1>6. \A t \in ResilientTrees : \E i \in 1..n : row[i].up = t
  BY <1>3
<1>7. OffersAll(row)
  BY <1>2, <1>4, <1>5, <1>6 DEF OffersAll
<1>8. row \in Seq(Entries)
  <2>3. ASSUME NEW i \in 1..n
        PROVE  row[i] \in Entries
    <3> DEFINE mark == {trees[j] : j \in 1..(i - 1)}
    <3>1. row[i] = [up |-> trees[i], mark |-> mark]
      BY <1>1 DEF row, Marked
    <3>2. 1..(i - 1) \subseteq 1..n
      OBVIOUS
    <3>3. mark \in SUBSET Trees
      BY <3>2
    <3> HIDE DEF mark
    <3> QED BY <3>1, <3>3 DEF Entries
  <2>4. row = [i \in 1..n |-> row[i]]
    BY <1>1 DEF row, Marked
  <2>5. row \in [1..n -> Entries]
    BY <2>3, <2>4
  <2> QED BY <2>5, FunctionIsSequence
<1> QED
  BY <1>7, <1>8 DEF row

(* edst_fwdtable_normal builds rows that offer every resilient tree.       *)
LEMMA EdstRowOffers ==
  ASSUME NEW len, NEW s \in Orders(len), NEW t \in Trees
  PROVE  OffersAll(EdstRow(t, s)) /\ EdstRow(t, s) \in Seq(Entries)
<1> DEFINE n == NumRes
<1>1. /\ n \in Nat
      /\ s \in [1..n -> ResilientTrees]
      /\ \A u \in ResilientTrees : \E i \in 1..n : s[i] = u
  BY OrderCovers
<1> HIDE DEF n
<1>2. CASE t \in DefaultTrees
  <2> DEFINE trees == [i \in 1..(n + 1) |-> IF i = 1 THEN t ELSE s[i - 1]]
  <2>1. \A i \in 1..(n + 1) : i # 1 => i - 1 \in 1..n
    BY <1>1
  <2>2. trees \in [1..(n + 1) -> Trees]
    BY <1>1, <2>1 DEF Trees
  <2>3. ASSUME NEW u \in ResilientTrees
        PROVE  \E i \in 1..(n + 1) : trees[i] = u
    <3>1. PICK k \in 1..n : s[k] = u
      BY <1>1
    <3>2. k + 1 \in 1..(n + 1) /\ k + 1 # 1 /\ (k + 1) - 1 = k
      BY <1>1
    <3>3. trees[k + 1] = u
      BY <3>1, <3>2
    <3> QED BY <3>2, <3>3
  <2>4. EdstRow(t, s) = Marked(trees)
    BY <1>2 DEF EdstRow, n
  <2> HIDE DEF trees
  <2> QED BY <1>1, <2>2, <2>3, <2>4, MarkedOffers
<1>3. CASE t \notin DefaultTrees
  <2> DEFINE at    == CHOOSE i \in 1..n : s[i] = t
             trees == [i \in 1..n |->
                         IF i = 1 THEN t ELSE IF i <= at THEN s[i - 1] ELSE s[i]]
  <2>1. t \in ResilientTrees
    BY <1>3 DEF Trees
  <2>2. at \in 1..n /\ s[at] = t
    BY <1>1, <2>1
  <2>3. EdstRow(t, s) = Marked(trees)
    BY <1>3 DEF EdstRow, n
  <2> HIDE DEF at
  <2>4. \A i \in 1..n : i # 1 => i - 1 \in 1..n
    BY <1>1
  <2>5. trees \in [1..n -> Trees]
    BY <1>1, <2>1, <2>4 DEF Trees
  <2>6. ASSUME NEW u \in ResilientTrees
        PROVE  \E i \in 1..n : trees[i] = u
    <3>1. PICK k \in 1..n : s[k] = u
      BY <1>1
    <3>2. CASE k = at
      <4>1. 1 \in 1..n /\ trees[1] = t
        BY <1>1, <2>2
      <4> QED BY <2>2, <3>1, <3>2, <4>1
    <3>3. CASE k < at
      <4>1. k + 1 \in 1..n /\ k + 1 # 1 /\ k + 1 <= at /\ (k + 1) - 1 = k
        BY <1>1, <2>2, <3>3
      <4>2. trees[k + 1] = u
        BY <3>1, <4>1
      <4> QED BY <4>1, <4>2
    <3>4. CASE k > at
      <4>1. k # 1 /\ ~(k <= at)
        BY <1>1, <2>2, <3>4
      <4>2. trees[k] = u
        BY <3>1, <4>1
      <4> QED BY <4>2
    <3>5. k \in Int /\ at \in Int
      BY <1>1, <2>2
    <3> QED BY <3>2, <3>3, <3>4, <3>5
  <2> HIDE DEF trees
  <2> QED BY <1>1, <2>3, <2>5, <2>6, MarkedOffers
<1> QED BY <1>2, <1>3

-----------------------------------------------------------------------------
(* Rows of arc-disjoint trees.                                             *)

(* No tree is listed twice.                                                *)
Different(trees) == \A i, j \in 1..Len(trees) : i # j => trees[i] # trees[j]

(* Appending a tree that is not there.                                     *)
LEMMA AppendDifferent ==
  ASSUME NEW trees \in Seq(Trees), Different(trees), NEW t \in Trees,
         \A i \in 1..Len(trees) : trees[i] # t
  PROVE  /\ Append(trees, t) \in Seq(Trees)
         /\ Len(Append(trees, t)) = Len(trees) + 1
         /\ \A i \in 1..Len(trees) : Append(trees, t)[i] = trees[i]
         /\ Append(trees, t)[Len(trees) + 1] = t
         /\ Different(Append(trees, t))
<1>1. /\ Append(trees, t) \in Seq(Trees)
      /\ Len(Append(trees, t)) = Len(trees) + 1
      /\ \A i \in 1..Len(trees) : Append(trees, t)[i] = trees[i]
      /\ Append(trees, t)[Len(trees) + 1] = t
  OBVIOUS
<1> DEFINE longer == Append(trees, t)
<1> HIDE DEF longer
<1>2. ASSUME NEW i \in 1..(Len(trees) + 1), NEW j \in 1..(Len(trees) + 1), i # j
      PROVE  longer[i] # longer[j]
  <2>1. \A k \in 1..Len(trees) : longer[k] = trees[k]
    BY <1>1 DEF longer
  <2>2. longer[Len(trees) + 1] = t
    BY <1>1 DEF longer
  <2>3. Len(trees) \in Nat
    OBVIOUS
  <2>4. i \in 1..Len(trees) \/ i = Len(trees) + 1
    BY <2>3
  <2>5. j \in 1..Len(trees) \/ j = Len(trees) + 1
    BY <2>3
  <2> QED BY <1>2, <2>1, <2>2, <2>4, <2>5 DEF Different
<1>3. Different(longer)
  BY <1>1, <1>2 DEF Different, longer
<1> QED BY <1>1, <1>3 DEF longer

(* The reverse tree of the i-th tree stands right behind it or above.      *)
Followed(f, w, trees, i) ==
  \A u \in ReverseTrees(f, w, trees[i]) :
    \E j \in 1..Len(trees) : j <= i + 1 /\ trees[j] = u

(* No tree has two reverse trees at w.                                     *)
OneReverse(f, w) == \A t \in Trees : \A x, y \in ReverseTrees(f, w, t) : x = y

(* What one iteration of adst_fwdtable does to the list.                   *)
Appended(f, w, trees, t, row) ==
  /\ row \in Seq(Trees) /\ Different(row)
  /\ Len(row) >= Len(trees)
  /\ \A i \in 1..Len(trees) : row[i] = trees[i]
  /\ \E i \in 1..Len(row) : row[i] = t
  /\ \A i \in (Len(trees) + 1)..Len(row) :
       \/ row[i] = t /\ Followed(f, w, row, i)
       \/ i >= 2 /\ row[i] \in ReverseTrees(f, w, row[i - 1])

(* It appends the tree unless it is there, and its reverse tree if there   *)
(* is one that is not.                                                     *)
LEMMA WithReverseAppends ==
  ASSUME NEW f, NEW w, OneReverse(f, w),
         NEW trees \in Seq(Trees), Different(trees), NEW t \in Trees
  PROVE  Appended(f, w, trees, t, WithReverse(f, w, trees, t))
<1> DEFINE used == {trees[i] : i \in 1..Len(trees)}
           longer == Append(trees, t)
           rev == ReverseTrees(f, w, t) \ {longer[i] : i \in 1..Len(longer)}
           row == WithReverse(f, w, trees, t)
<1>1. row =
        IF t \in used THEN trees ELSE IF rev = {} THEN longer
        ELSE Append(longer, CHOOSE u \in rev : TRUE)
  BY DEF WithReverse
<1>2. rev \subseteq ResilientTrees
  BY DEF ReverseTrees
<1>3. CASE t \in used
  <2>1. row = trees /\ Len(trees) \in Nat
    BY <1>1, <1>3
  <2> HIDE DEF row
  <2> QED BY <1>3, <2>1 DEF Appended, row
<1>4. ASSUME t \notin used
      PROVE  /\ longer \in Seq(Trees) /\ Len(longer) = Len(trees) + 1
             /\ \A i \in 1..Len(trees) : longer[i] = trees[i]
             /\ longer[Len(trees) + 1] = t
             /\ Different(longer)
  BY <1>4, AppendDifferent
<1>5. CASE t \notin used /\ rev = {}
  <2>1. row = longer
    BY <1>1, <1>5
  <2>2. Len(trees) \in Nat
    OBVIOUS
  <2>3. ReverseTrees(f, w, t) \subseteq {longer[i] : i \in 1..Len(longer)}
    BY <1>5
  <2> HIDE DEF longer, row
  <2>4. /\ row \in Seq(Trees) /\ Len(row) = Len(trees) + 1
        /\ \A i \in 1..Len(trees) : row[i] = trees[i]
        /\ row[Len(trees) + 1] = t
        /\ Different(row)
    BY <1>4, <1>5, <2>1
  <2>5. \A u \in ReverseTrees(f, w, t) : \E j \in 1..Len(row) : row[j] = u
    BY <2>1, <2>3
  <2>6. Followed(f, w, row, Len(trees) + 1)
    BY <2>2, <2>4, <2>5 DEF Followed
  <2>7. \A i \in (Len(trees) + 1)..Len(row) : i = Len(trees) + 1
    BY <2>2, <2>4
  <2>8. row[Len(trees) + 1] = t /\ Len(trees) + 1 \in 1..Len(row)
    BY <2>2, <2>4
  <2> QED BY <2>2, <2>4, <2>6, <2>7, <2>8 DEF row, Appended
<1>6. CASE t \notin used /\ rev # {}
  <2> DEFINE u == CHOOSE u \in rev : TRUE
  <2>1. u \in rev
    BY <1>6
  <2>2. row = Append(longer, u)
    BY <1>1, <1>6
  <2>3. /\ u \in ResilientTrees /\ u \in Trees
        /\ \A i \in 1..Len(longer) : longer[i] # u
    BY <1>2, <2>1 DEF Trees
  <2>10. u \in ReverseTrees(f, w, t)
    BY <2>1
  <2> HIDE DEF u, longer
  <2>4. /\ row \in Seq(Trees) /\ Len(row) = Len(longer) + 1
        /\ \A i \in 1..Len(longer) : row[i] = longer[i]
        /\ row[Len(longer) + 1] = u
        /\ Different(row)
    <3> HIDE DEF row
    <3> QED BY <1>4, <1>6, <2>2, <2>3, AppendDifferent
  <2>5. Len(trees) \in Nat
    OBVIOUS
  <2>6. Len(longer) = Len(trees) + 1
    BY <1>4, <1>6
  <2> HIDE DEF row
  <2>7. \A i \in 1..Len(trees) : row[i] = trees[i]
    BY <1>4, <1>6, <2>4, <2>5
  <2>8. row[Len(trees) + 1] = t /\ Len(trees) + 1 \in 1..Len(row)
    BY <1>4, <1>6, <2>4, <2>5, <2>6
  <2>9. Followed(f, w, row, Len(trees) + 1)
    <3>1. \A x \in ReverseTrees(f, w, t) : x = u
      BY <2>10 DEF OneReverse
    <3>2. Len(trees) + 2 \in 1..Len(row) /\ row[Len(trees) + 2] = u
      BY <2>4, <2>5, <2>6
    <3> QED BY <2>5, <2>8, <3>1, <3>2 DEF Followed
  <2>11. ASSUME NEW i \in (Len(trees) + 1)..Len(row)
         PROVE  \/ row[i] = t /\ Followed(f, w, row, i)
                \/ i >= 2 /\ row[i] \in ReverseTrees(f, w, row[i - 1])
    <3>1. i = Len(trees) + 1 \/ (i = Len(longer) + 1 /\ i - 1 = Len(trees) + 1 /\ i >= 2)
      BY <2>4, <2>5, <2>6
    <3> QED BY <2>4, <2>8, <2>9, <2>10, <3>1
  <2> QED BY <2>4, <2>5, <2>6, <2>7, <2>8, <2>11 DEF row, Appended
<1> QED BY <1>3, <1>5, <1>6

(* A set of numbers with 0 that is closed under successors is all of Nat.  *)
LEMMA NatSet ==
  ASSUME NEW S, 0 \in S, \A n \in Nat : n \in S => n + 1 \in S
  PROVE  Nat \subseteq S
<1> DEFINE R == {p \in Nat \X Nat : p[1] < p[2]}
<1> SUFFICES ASSUME Nat \ S # {} PROVE FALSE
  OBVIOUS
<1>1. IsWellFoundedOn(R, Nat)
  BY NatLessThanWellFounded DEF OpToRel
<1>2. PICK n \in Nat \ S : \A m \in Nat \ S : <<m, n>> \notin R
  <2> HIDE DEF R
  <2> QED  BY <1>1, WFMin
<1>3. n # 0 /\ n - 1 \in Nat
  BY <1>2
<1>4. <<n - 1, n>> \in R
  BY <1>3
<1> HIDE DEF R
<1>5. n - 1 \in S
  BY <1>2, <1>3, <1>4
<1>6. (n - 1) + 1 = n
  BY <1>3
<1> QED BY <1>2, <1>3, <1>5, <1>6

(* The rows of adst_fwdtable after each iteration of its loop.             *)
RowsBuilt(f, w, t, s, n, row) ==
  row = [i \in 0..n |->
           IF i = 0 THEN WithReverse(f, w, << >>, t)
           ELSE WithReverse(f, w, row[i - 1], s[i])]

(* The loop of adst_fwdtable has a result.                                 *)
LEMMA AdstRowBuilt ==
  ASSUME NEW f, NEW w, NEW t, NEW s, NumRes \in Nat
  PROVE  \E row : /\ RowsBuilt(f, w, t, s, NumRes, row)
                  /\ AdstRow(f, w, t, s) = Marked(row[NumRes])
<1> DEFINE S == {n \in Nat : \E row : RowsBuilt(f, w, t, s, n, row)}
<1>1. 0 \in S
  <2> DEFINE row == [i \in 0..0 |-> WithReverse(f, w, << >>, t)]
  <2>1. row = [i \in 0..0 |-> IF i = 0 THEN WithReverse(f, w, << >>, t)
                              ELSE WithReverse(f, w, row[i - 1], s[i])]
    BY \A i \in 0..0 : i = 0
  <2>2. RowsBuilt(f, w, t, s, 0, row)
    BY <2>1 DEF RowsBuilt
  <2> QED BY <2>2
<1>2. ASSUME NEW n \in Nat, n \in S
      PROVE  n + 1 \in S
  <2>1. PICK row : RowsBuilt(f, w, t, s, n, row)
    BY <1>2
  <2> DEFINE next == [i \in 0..(n + 1) |->
                        IF i = n + 1 THEN WithReverse(f, w, row[n], s[n + 1]) ELSE row[i]]
  <2>2. \A i \in 0..n : next[i] = row[i]
    OBVIOUS
  <2>3. ASSUME NEW i \in 0..(n + 1)
        PROVE  next[i] = IF i = 0 THEN WithReverse(f, w, << >>, t)
                         ELSE WithReverse(f, w, next[i - 1], s[i])
    <3>1. CASE i = n + 1
      <4>1. next[n] = row[n] /\ i - 1 = n /\ i # 0
        BY <2>2, <3>1
      <4>2. next[i] = WithReverse(f, w, row[n], s[n + 1])
        BY <3>1
      <4> QED BY <3>1, <4>1, <4>2
    <3>2. CASE i # n + 1
      <4>1. i \in 0..n /\ (i # 0 => i - 1 \in 0..n)
        BY <3>2
      <4>2. row[i] = IF i = 0 THEN WithReverse(f, w, << >>, t)
                     ELSE WithReverse(f, w, row[i - 1], s[i])
        BY <2>1, <4>1 DEF RowsBuilt
      <4> HIDE DEF next
      <4> QED BY <2>2, <4>1, <4>2
    <3> QED BY <3>1, <3>2
  <2>4. next = [i \in 0..(n + 1) |-> next[i]]
    OBVIOUS
  <2>5. RowsBuilt(f, w, t, s, n + 1, next)
    <3> HIDE DEF next
    <3> QED BY <2>3, <2>4 DEF RowsBuilt
  <2> QED BY <2>5
<1>3. NumRes \in S
  <2> HIDE DEF S
  <2> QED BY <1>1, <1>2, NatSet
<1> DEFINE Row0(row) == row = [i \in 0..NumRes |->
                               IF i = 0 THEN WithReverse(f, w, << >>, t)
                               ELSE WithReverse(f, w, row[i - 1], s[i])]
           last == CHOOSE row : Row0(row)
<1>4. \E row : Row0(row)
  BY <1>3 DEF RowsBuilt
<1>5. Row0(last)
  <2> HIDE DEF Row0
  <2> QED BY <1>4
<1>6. AdstRow(f, w, t, s) = Marked(last[NumRes])
  BY DEF AdstRow
<1>7. RowsBuilt(f, w, t, s, NumRes, last)
  <2> HIDE DEF last
  <2> QED BY <1>5 DEF RowsBuilt
<1> QED BY <1>6, <1>7

(* What adst_fwdtable lists for current tree t: t itself, then resilient   *)
(* trees, each of them once, each with its reverse tree behind it or being *)
(* a reverse tree itself.                                                  *)
RowListed(f, w, t, row) ==
  /\ row \in Seq(Trees) /\ Different(row) /\ Len(row) >= 1
  /\ row[1] = t
  /\ \A i \in 1..Len(row) : i # 1 => row[i] \in ResilientTrees
  /\ \A i \in 1..Len(row) :
       Followed(f, w, row, i) \/ (i >= 2 /\ row[i] \in ReverseTrees(f, w, row[i - 1]))

(* The list begins so ...                                                  *)
LEMMA FirstIteration ==
  ASSUME NEW f, NEW w, NEW t \in Trees, OneReverse(f, w)
  PROVE  RowListed(f, w, t, WithReverse(f, w, << >>, t))
<1> DEFINE row == WithReverse(f, w, << >>, t)
           none == << >>
<1>1. none \in Seq(Trees) /\ Len(none) = 0
  OBVIOUS
<1>2. Different(none)
  BY <1>1 DEF Different
<1> HIDE DEF row, none
<1>4. row = WithReverse(f, w, none, t)
  BY DEF row, none
<1>5. /\ row \in Seq(Trees) /\ Different(row)
      /\ \E i \in 1..Len(row) : row[i] = t
      /\ \A i \in (Len(none) + 1)..Len(row) :
           \/ row[i] = t /\ Followed(f, w, row, i)
           \/ i >= 2 /\ row[i] \in ReverseTrees(f, w, row[i - 1])
  <2>1. Appended(f, w, none, t, row)
    BY <1>1, <1>2, <1>4, WithReverseAppends
  <2> QED BY <2>1 DEF Appended
<1>6. Len(row) \in Nat /\ Len(row) >= 1
  BY <1>5
<1>7. \A i \in 1..Len(row) :
        \/ row[i] = t /\ Followed(f, w, row, i)
        \/ i >= 2 /\ row[i] \in ReverseTrees(f, w, row[i - 1])
  BY <1>1, <1>5
<1>8. row[1] = t
  BY <1>6, <1>7
<1>9. ASSUME NEW i \in 1..Len(row), i # 1
      PROVE  row[i] \in ResilientTrees
  <2>1. row[i] # t
    BY <1>5, <1>6, <1>8, <1>9 DEF Different
  <2> QED BY <1>7, <2>1 DEF ReverseTrees
<1> QED BY <1>5, <1>6, <1>7, <1>8, <1>9 DEF RowListed, row

(* The whole list, with every tree of the sorted list s on it.             *)
ListOf(f, w, t, s, row) ==
  /\ AdstRow(f, w, t, s) = Marked(row)
  /\ RowListed(f, w, t, row)
  /\ \A k \in 1..NumRes : \E i \in 1..Len(row) : row[i] = s[k]

(* ... and stays so, with every tree of the sorted list on it at the end.  *)
LEMMA AdstRowListed ==
  ASSUME NEW f, NEW w, OneReverse(f, w), NEW t \in Trees, NumRes \in Nat,
         NEW s \in [1..NumRes -> ResilientTrees]
  PROVE  \E row : ListOf(f, w, t, s, row)
<1>1. PICK row : /\ RowsBuilt(f, w, t, s, NumRes, row)
                 /\ AdstRow(f, w, t, s) = Marked(row[NumRes])
  BY AdstRowBuilt
<1>2. row[0] = WithReverse(f, w, << >>, t)
  BY <1>1 DEF RowsBuilt
<1>3. \A n \in 0..NumRes : n # 0 => row[n] = WithReverse(f, w, row[n - 1], s[n])
  BY <1>1 DEF RowsBuilt
<1> DEFINE Good(n) == /\ RowListed(f, w, t, row[n])
                      /\ \A k \in 1..n : \E i \in 1..Len(row[n]) : row[n][i] = s[k]
           S == {n \in Nat : n <= NumRes => Good(n)}
<1>4. 0 \in S
  BY <1>2, FirstIteration
<1>5. ASSUME NEW n \in Nat, n \in S
      PROVE  n + 1 \in S
  <2> SUFFICES ASSUME n + 1 <= NumRes PROVE Good(n + 1)
    OBVIOUS
  <2> DEFINE old == row[n]
             new == row[n + 1]
  <2>1. RowListed(f, w, t, old) /\ \A k \in 1..n : \E i \in 1..Len(old) : old[i] = s[k]
    BY <1>5
  <2>2. n + 1 \in 0..NumRes /\ n + 1 # 0 /\ (n + 1) - 1 = n /\ n + 1 \in 1..NumRes
    OBVIOUS
  <2>3. new = WithReverse(f, w, old, s[n + 1])
    BY <1>3, <2>2
  <2>4. s[n + 1] \in ResilientTrees /\ s[n + 1] \in Trees
    BY <2>2 DEF Trees
  <2> HIDE DEF old, new
  <2>5. old \in Seq(Trees) /\ Different(old) /\ Len(old) \in Nat /\ Len(old) >= 1
    BY <2>1 DEF RowListed
  <2>6. /\ new \in Seq(Trees) /\ Different(new)
        /\ Len(new) >= Len(old)
        /\ \A i \in 1..Len(old) : new[i] = old[i]
        /\ \E i \in 1..Len(new) : new[i] = s[n + 1]
        /\ \A i \in (Len(old) + 1)..Len(new) :
             \/ new[i] = s[n + 1] /\ Followed(f, w, new, i)
             \/ i >= 2 /\ new[i] \in ReverseTrees(f, w, new[i - 1])
    <3>1. Appended(f, w, old, s[n + 1], new)
      BY <2>3, <2>4, <2>5, WithReverseAppends
    <3> QED BY <3>1 DEF Appended
  <2>7. Len(new) \in Nat
    BY <2>6
  <2>10. ASSUME NEW i \in 1..Len(new)
         PROVE  /\ i # 1 => new[i] \in ResilientTrees
                /\ \/ Followed(f, w, new, i)
                   \/ i >= 2 /\ new[i] \in ReverseTrees(f, w, new[i - 1])
    <3>1. CASE i \in 1..Len(old)
      <4>1. new[i] = old[i] /\ (i >= 2 => new[i - 1] = old[i - 1])
        BY <2>5, <2>6, <3>1
      <4>2. i # 1 => old[i] \in ResilientTrees
        BY <2>1, <3>1 DEF RowListed
      <4>3. CASE Followed(f, w, old, i)
        <5>1. ASSUME NEW u \in ReverseTrees(f, w, new[i])
              PROVE  \E j \in 1..Len(new) : j <= i + 1 /\ new[j] = u
          <6>1. PICK j \in 1..Len(old) : j <= i + 1 /\ old[j] = u
            BY <4>1, <4>3 DEF Followed
          <6> QED BY <2>5, <2>6, <2>7, <6>1, SMTT(30)
        <5> QED BY <4>1, <4>2, <5>1 DEF Followed
      <4>4. CASE i >= 2 /\ old[i] \in ReverseTrees(f, w, old[i - 1])
        BY <4>1, <4>2, <4>4
      <4> QED BY <2>1, <3>1, <4>3, <4>4 DEF RowListed
    <3>2. CASE i \notin 1..Len(old)
      <4>1. i \in (Len(old) + 1)..Len(new)
        BY <2>5, <2>7, <3>2
      <4> QED BY <2>4, <2>6, <4>1 DEF ReverseTrees
    <3> QED BY <3>1, <3>2
  <2>8. RowListed(f, w, t, new)
    BY <2>1, <2>5, <2>6, <2>7, <2>10 DEF RowListed
  <2>9. ASSUME NEW k \in 1..(n + 1)
        PROVE  \E i \in 1..Len(new) : new[i] = s[k]
    <3>1. CASE k = n + 1
      BY <2>6, <3>1
    <3>2. CASE k # n + 1
      <4>1. k \in 1..n
        BY <3>2
      <4>2. PICK i \in 1..Len(old) : old[i] = s[k]
        BY <2>1, <4>1
      <4> QED BY <2>5, <2>6, <2>7, <4>2
    <3> QED BY <3>1, <3>2
  <2> QED BY <2>8, <2>9 DEF new
<1>6. NumRes \in S
  <2> HIDE DEF S
  <2> QED BY <1>4, <1>5, NatSet
<1>7. ListOf(f, w, t, s, row[NumRes])
  BY <1>1, <1>6 DEF ListOf
<1> QED BY <1>7

(* The two ends of an edge.                                                *)
LEMMA OtherEnd ==
  ASSUME NEW e \in E, NEW w \in Ends[e]
  PROVE  /\ w \in V /\ Other(w, e) \in V /\ Other(w, e) # w
         /\ Other(w, e) \in Ends[e] /\ Other(Other(w, e), e) = w
<1>1. PICK a, b \in V : a # b /\ Ends[e] = {a, b}
  BY TopologyAssumption
<1>2. \E u \in Ends[e] : u # w
  BY <1>1
<1>3. Other(w, e) \in Ends[e] /\ Other(w, e) # w
  BY <1>2 DEF Other
<1>4. \E u \in Ends[e] : u # Other(w, e)
  BY <1>3
<1>5. Other(Other(w, e), e) \in Ends[e] /\ Other(Other(w, e), e) # Other(w, e)
  BY <1>4 DEF Other
<1> QED BY <1>1, <1>3, <1>5

(* No tree crosses an edge both ways, and of arc-disjoint trees one at     *)
(* most is the reverse of another.                                         *)
LEMMA ReverseIsOneOther ==
  ASSUME NEW f \in [Trees -> Branchings], NEW w \in Sources, NEW t \in Trees,
         NEW u \in ReverseTrees(f, w, t)
  PROVE  /\ u # t
         /\ ArcDisjoint(f) => \A x \in ReverseTrees(f, w, t) : x = u
<1> DEFINE e == f[t][w]
           ov == Other(w, e)
<1>1. e \in E /\ w \in Ends[e]
  BY DEF Branchings, Branching
<1>2. ov # Dst /\ u \in ResilientTrees /\ f[u][ov] = e
  BY DEF ReverseTrees
<1>3. ov \in V /\ ov # w /\ Other(ov, e) = w
  BY <1>1, OtherEnd
<1>4. ov \in Sources
  BY <1>2, <1>3 DEF Sources
<1> HIDE DEF e, ov
<1>5. ASSUME u = t
      PROVE  FALSE
  <2>1. Branching(f[t])
    BY DEF Branchings
  <2>2. {w, ov} \in SUBSET Sources /\ {w, ov} # {}
    BY <1>4
  <2>3. PICK x \in {w, ov} : Other(x, f[t][x]) \notin {w, ov}
    BY <2>1, <2>2 DEF Branching
  <2>4. CASE x = w
    BY <2>3, <2>4 DEF ov, e
  <2>5. CASE x = ov
    <3>1. f[t][ov] = e
      BY <1>2, <1>5
    <3> QED BY <1>3, <2>3, <2>5, <3>1
  <2> QED BY <2>4, <2>5
<1>6. ASSUME ArcDisjoint(f), NEW x \in ReverseTrees(f, w, t)
      PROVE  x = u
  <2>1. x \in ResilientTrees /\ f[x][ov] = e
    BY DEF ReverseTrees, ov, e
  <2> QED BY <1>2, <1>4, <1>6, <2>1 DEF ArcDisjoint
<1> QED BY <1>5, <1>6

(* adst_fwdtable builds rows that offer every resilient tree.              *)
LEMMA AdstRowOffers ==
  ASSUME NEW f, NEW w, OneReverse(f, w), NEW len, NEW s \in Orders(len), NEW t \in Trees
  PROVE  OffersAll(AdstRow(f, w, t, s)) /\ AdstRow(f, w, t, s) \in Seq(Entries)
<1>1. /\ NumRes \in Nat
      /\ s \in [1..NumRes -> ResilientTrees]
      /\ \A u \in ResilientTrees : \E i \in 1..NumRes : s[i] = u
  BY OrderCovers
<1>0. PICK row : ListOf(f, w, t, s, row)
  BY <1>1, AdstRowListed
<1>2. /\ AdstRow(f, w, t, s) = Marked(row)
      /\ RowListed(f, w, t, row)
      /\ \A k \in 1..NumRes : \E i \in 1..Len(row) : row[i] = s[k]
  BY <1>0 DEF ListOf
<1>3. row \in Seq(Trees)
  BY <1>2 DEF RowListed
<1>4. Len(row) \in Nat /\ row \in [1..Len(row) -> Trees]
  BY <1>3
<1>5. \A u \in ResilientTrees : \E i \in 1..Len(row) : row[i] = u
  BY <1>1, <1>2
<1> QED BY <1>2, <1>4, <1>5, MarkedOffers

(* A row of arc-disjoint trees begins with its tree and marks what is      *)
(* above; its length and how it pairs trees.                               *)
LEMMA AdstRowShape ==
  ASSUME NEW f, NEW w, OneReverse(f, w), NEW len, NEW s \in Orders(len), NEW t \in Trees
  PROVE  /\ RowOrdered(t, AdstRow(f, w, t, s))
         /\ \A i \in DOMAIN AdstRow(f, w, t, s) :
              \/ \A u \in ReverseTrees(f, w, AdstRow(f, w, t, s)[i].up) :
                   \E j \in DOMAIN AdstRow(f, w, t, s) :
                     j <= i + 1 /\ AdstRow(f, w, t, s)[j].up = u
              \/ /\ i >= 2
                 /\ AdstRow(f, w, t, s)[i].up \in
                      ReverseTrees(f, w, AdstRow(f, w, t, s)[i - 1].up)
<1>1. /\ NumRes \in Nat
      /\ s \in [1..NumRes -> ResilientTrees]
  BY OrderCovers
<1>0. PICK row : ListOf(f, w, t, s, row)
  BY <1>1, AdstRowListed
<1>2. AdstRow(f, w, t, s) = Marked(row) /\ RowListed(f, w, t, row)
  BY <1>0 DEF ListOf
<1> DEFINE n == Len(row)
           table == Marked(row)
<1>3. /\ row \in Seq(Trees) /\ Different(row) /\ n \in Nat /\ n >= 1 /\ row[1] = t
      /\ \A i \in 1..n : i # 1 => row[i] \in ResilientTrees
  BY <1>2 DEF RowListed
<1>4. /\ DOMAIN table = 1..n /\ Len(table) = n
      /\ \A i \in 1..n : /\ table[i].up = row[i]
                          /\ table[i].mark = {row[j] : j \in 1..(i - 1)}
  BY <1>3 DEF Marked
<1>5. n - 1 <= IF t \in ResilientTrees THEN NumRes - 1 ELSE NumRes
  <2> DEFINE T == ResilientTrees \ {t}
             g == [i \in 1..(n - 1) |-> row[i + 1]]
  <2>1. \A i \in 1..(n - 1) : i + 1 \in 1..n /\ i + 1 # 1
    BY <1>3
  <2>2. g \in [1..(n - 1) -> T]
    BY <1>3, <2>1 DEF Different
  <2>3. \A i, j \in 1..(n - 1) : g[i] = g[j] => i = j
    <3>1. ASSUME NEW i \in 1..(n - 1), NEW j \in 1..(n - 1), i # j
          PROVE  g[i] # g[j]
      <4>1. i + 1 # j + 1
        BY <3>1
      <4> QED BY <1>3, <2>1, <4>1 DEF Different
    <3> QED BY <3>1
  <2>4. IsFiniteSet(ResilientTrees) /\ IsFiniteSet(T)
    BY TreesAssumption, FS_Subset
  <2> HIDE DEF g
  <2>5. g \in Injection(1..(n - 1), T)
    BY <2>2, <2>3 DEF Injection, IsInjective
  <2>6. Cardinality(1..(n - 1)) <= Cardinality(T)
    BY <2>4, <2>5, FS_Injection
  <2>7. Cardinality(1..(n - 1)) = n - 1
    <3>1. 1 \in Int /\ n - 1 \in Int
      BY <1>3
    <3>2. Cardinality(1..(n - 1)) = IF 1 > n - 1 THEN 0 ELSE (n - 1) - 1 + 1
      BY <3>1, FS_Interval
    <3> QED BY <1>3, <3>2
  <2>8. t \in ResilientTrees => Cardinality(T) = NumRes - 1
    BY <2>4, FS_RemoveElement DEF NumRes
  <2>9. t \notin ResilientTrees => T = ResilientTrees
    OBVIOUS
  <2> HIDE DEF T
  <2> QED BY <2>6, <2>7, <2>8, <2>9 DEF NumRes
<1>6. n <= IF t \in ResilientTrees THEN NumRes ELSE NumRes + 1
  BY <1>1, <1>3, <1>5
<1>7. table # << >>
  BY <1>3, <1>4
<1>8. 1 \in 1..n
  BY <1>3
<1>9. \A i \in 1..n : {table[j].up : j \in 1..(i - 1)} = {row[j] : j \in 1..(i - 1)}
  BY <1>3, <1>4
<1>10. \A i \in 1..n :
         Followed(f, w, row, i) \/ (i >= 2 /\ row[i] \in ReverseTrees(f, w, row[i - 1]))
  BY <1>2 DEF RowListed
<1> HIDE DEF table
<1>11. \A i \in DOMAIN table : table[i].mark = {table[j].up : j \in 1..(i - 1)}
  BY <1>4, <1>9
<1>12. table[1].up = t
  BY <1>3, <1>4, <1>8
<1>15. \A i \in DOMAIN table : i # 1 => table[i].up \in ResilientTrees
  BY <1>3, <1>4
<1>13. RowOrdered(t, table)
  BY <1>4, <1>6, <1>7, <1>11, <1>12, <1>15 DEF RowOrdered
<1>14. ASSUME NEW i \in DOMAIN table
       PROVE  \/ \A u \in ReverseTrees(f, w, table[i].up) :
                   \E j \in DOMAIN table : j <= i + 1 /\ table[j].up = u
              \/ i >= 2 /\ table[i].up \in ReverseTrees(f, w, table[i - 1].up)
  <2>1. i \in 1..n
    BY <1>4
  <2>2. CASE Followed(f, w, row, i)
    <3>1. ASSUME NEW u \in ReverseTrees(f, w, table[i].up)
          PROVE  \E j \in DOMAIN table : j <= i + 1 /\ table[j].up = u
      <4>1. u \in ReverseTrees(f, w, row[i])
        BY <1>4, <2>1
      <4>2. PICK j \in 1..n : j <= i + 1 /\ row[j] = u
        BY <2>2, <4>1 DEF Followed
      <4> QED BY <1>4, <4>2
    <3> QED BY <3>1
  <2>3. CASE i >= 2 /\ row[i] \in ReverseTrees(f, w, row[i - 1])
    <3>1. i - 1 \in 1..n
      BY <1>3, <2>1, <2>3
    <3> QED BY <1>4, <2>1, <2>3, <3>1
  <2> QED BY <1>10, <2>1, <2>2, <2>3
<1> QED BY <1>2, <1>13, <1>14 DEF table

(* Reverses are unique among arc-disjoint trees.                           *)
LEMMA ReversesUnique ==
  ASSUME NEW f \in [Trees -> Branchings], ArcDisjoint(f), NEW w \in Sources
  PROVE  OneReverse(f, w)
<1> SUFFICES ASSUME NEW t \in Trees, NEW x \in ReverseTrees(f, w, t),
                    NEW y \in ReverseTrees(f, w, t)
             PROVE  x = y
  BY DEF OneReverse
<1> QED BY ReverseIsOneOther

(* Either kind of row offers every resilient tree.                         *)
LEMMA RowOffers ==
  ASSUME ForestStays, NEW w \in Sources, NEW t \in Trees, NEW len, NEW s \in Orders(len)
  PROVE  /\ OffersAll(RowOf(Model, nh, w, t, s))
         /\ RowOf(Model, nh, w, t, s) \in Seq(Entries)
<1>1. CASE Model = "edst"
  BY <1>1, EdstRowOffers DEF RowOf
<1>2. CASE Model = "adst"
  <2>1. OneReverse(nh, w)
    BY <1>2, ReversesUnique DEF ForestStays
  <2> QED BY <1>2, <2>1, AdstRowOffers DEF RowOf
<1> QED BY <1>1, <1>2, WalkAssumption

-----------------------------------------------------------------------------
(* Steps.                                                                  *)

(* The first edge of a tree at a switch.                                   *)
LEMMA FirstEdge ==
  ASSUME ForestStays, NEW t \in Trees, NEW w \in Sources
  PROVE  nh[t][w] \in E /\ w \in Ends[nh[t][w]]
<1>1. nh[t] \in Branchings
  BY DEF ForestStays
<1> QED BY <1>1 DEF Branchings, Branching

(* Nothing is marked or failed at the start.                               *)
LEMMA InitInvariant ==
  ASSUME Init
  PROVE  HeadersRight
<1>1. ForestStays
  BY DEF Init, ForestStays
<1>2. RowsOffer
  BY DEF Init, RowsOffer
<1>3. PacketPlaced
  BY TreesAssumption DEF Init, PacketPlaced
<1>4. MarkedAreBroken
  BY DEF Init, MarkedAreBroken
<1>5. IntactTreeDelivers
  BY DEF Init, IntactTreeDelivers
<1> QED BY <1>1, <1>2, <1>3, <1>4, <1>5 DEF HeadersRight

(* The tables are built once, before anything fails.                       *)
LEMMA BuildTablesInvariant ==
  ASSUME HeadersRight, BuildTables
  PROVE  HeadersRight'
<1> USE DEF HeadersRight
<1>1. ForestStays'
  BY DEF BuildTables, ForestStays, EdgeDisjoint, ArcDisjoint
<1>2. ASSUME NEW w \in Sources, NEW t \in Trees
      PROVE  OffersAll(rows'[w][t])
  <2>1. PICK s \in [Sources -> UNION {Orders([u \in Trees |-> lens'[u][x]]) : x \in Sources}] :
          /\ \A x \in Sources : s[x] \in Orders([u \in Trees |-> lens'[u][x]])
          /\ rows' = [x \in Sources |-> [u \in Trees |-> RowOf(Model, nh, x, u, s[x])]]
    BY DEF BuildTables
  <2>2. rows'[w][t] = RowOf(Model, nh, w, t, s[w])
    BY <2>1
  <2> QED BY <2>1, <2>2, RowOffers
<1>3. RowsOffer'
  BY <1>2 DEF RowsOffer
<1>4. PacketPlaced'
  BY DEF BuildTables, PacketPlaced, round, packet
<1>5. MarkedAreBroken'
  BY DEF BuildTables, PacketPlaced, MarkedAreBroken, round, packet
<1>6. IntactTreeDelivers'
  BY DEF BuildTables, IntactTreeDelivers
<1> QED BY <1>1, <1>3, <1>4, <1>5, <1>6

(* New failures meet fresh packets.                                        *)
LEMMA StartRoundInvariant ==
  ASSUME HeadersRight, StartRound
  PROVE  HeadersRight'
<1> USE DEF HeadersRight
<1>1. ForestStays'
  BY DEF StartRound, ForestStays, EdgeDisjoint, ArcDisjoint, tables
<1>2. RowsOffer'
  BY DEF StartRound, RowsOffer, tables
<1>3. failedE' \subseteq E
  BY DEF StartRound, EdgesDown, EdgesAt
<1>4. PacketPlaced'
  BY <1>3 DEF StartRound, PacketPlaced
<1>5. MarkedAreBroken'
  BY DEF StartRound, PacketPlaced, MarkedAreBroken
<1>6. IntactTreeDelivers'
  BY DEF StartRound, IntactTreeDelivers
<1> QED BY <1>1, <1>2, <1>4, <1>5, <1>6

(* Steps that leave tables, failures and marks alone.                      *)
LEMMA ForestAndMarksStay ==
  ASSUME HeadersRight, UNCHANGED <<tables, round, failed_trees>>,
         status # "build"
  PROVE  ForestStays' /\ RowsOffer' /\ MarkedAreBroken'
BY DEF HeadersRight, ForestStays, EdgeDisjoint, ArcDisjoint, RowsOffer,
       MarkedAreBroken, Broken, tables, round

(* A flow within a switch meets no table.                                  *)
LEMMA SameSwitchInvariant ==
  ASSUME HeadersRight, SameSwitch
  PROVE  HeadersRight'
<1>1. ForestStays' /\ RowsOffer' /\ MarkedAreBroken'
  BY ForestAndMarksStay DEF SameSwitch
<1>2. PacketPlaced'
  BY DEF HeadersRight, SameSwitch, PacketPlaced, round
<1>3. IntactTreeDelivers'
  BY DEF SameSwitch, IntactTreeDelivers
<1> QED BY <1>1, <1>2, <1>3 DEF HeadersRight

(* A packet starts with no mark.                                           *)
LEMMA StartInvariant ==
  ASSUME HeadersRight, Start
  PROVE  HeadersRight'
<1>1. ForestStays' /\ RowsOffer' /\ MarkedAreBroken'
  BY ForestAndMarksStay DEF Start
<1>2. ctree' \in Trees
  BY DEF Start, TopK, StartTrees, Trees
<1>3. PacketPlaced'
  BY <1>2 DEF HeadersRight, Start, PacketPlaced, round
<1>4. IntactTreeDelivers'
  BY DEF Start, IntactTreeDelivers, round
<1> QED BY <1>1, <1>3, <1>4 DEF HeadersRight

(* The entry used is the first that matches: each tree above it is already *)
(* marked or has its edge down here, so marking it is right.               *)
LEMMA ForwardInvariant ==
  ASSUME HeadersRight, Forward
  PROVE  HeadersRight'
<1> USE DEF HeadersRight
<1>1. /\ status = "walking" /\ v \in Sources /\ ctree \in Trees
      /\ OffersAll(Row)
  BY DEF Forward, Walking, PacketPlaced, Sources, RowsOffer, Row
<1>2. UNCHANGED <<tables, round, status>>
  BY DEF Forward
<1>3. PICK i \in DOMAIN Row :
        /\ \A j \in DOMAIN Row : j < i => ~Matches(Row[j])
        /\ v' = Other(v, nh[Row[i].up][v])
        /\ ctree' = Row[i].up
        /\ failed_trees' = failed_trees \cup Row[i].mark
  BY DEF Forward
<1>4. Row[i].up \in Trees
  BY <1>1, <1>3 DEF OffersAll
<1>5. ForestStays'
  BY <1>2 DEF ForestStays, EdgeDisjoint, ArcDisjoint, tables
<1>6. RowsOffer'
  BY <1>2 DEF RowsOffer, tables
<1>7. PacketPlaced'
  <2>1. v' \in V
    BY <1>1, <1>3, <1>4, FirstEdge, OtherEnd
  <2> QED BY <1>1, <1>2, <1>3, <1>4, <2>1 DEF PacketPlaced, round
<1>8. ASSUME NEW t \in Row[i].mark
      PROVE  Broken(t)
  <2>1. PICK j \in DOMAIN Row : j < i /\ Row[j].up = t
    BY <1>1, <1>3 DEF OffersAll
  <2>2. ~Matches(Row[j])
    BY <1>3, <2>1
  <2>3. CASE t \in failed_trees
    BY <2>3 DEF MarkedAreBroken
  <2>4. CASE nh[t][v] \in failedE
    BY <1>1, <2>4 DEF Broken
  <2> QED BY <2>1, <2>2, <2>3, <2>4 DEF Matches
<1>9. MarkedAreBroken'
  <2>1. \A t \in failed_trees' : Broken(t)
    BY <1>3, <1>8 DEF MarkedAreBroken
  <2> QED BY <1>2, <2>1 DEF MarkedAreBroken, Broken, tables, round
<1>10. IntactTreeDelivers'
  BY <1>1, <1>2 DEF IntactTreeDelivers
<1> QED BY <1>5, <1>6, <1>7, <1>9, <1>10, SMTT(30)

(* Every resilient tree is in the row, so one that is intact would match.  *)
LEMMA DropInvariant ==
  ASSUME HeadersRight, Drop
  PROVE  HeadersRight'
<1> USE DEF HeadersRight
<1>1. /\ status = "walking" /\ v \in Sources /\ ctree \in Trees
      /\ OffersAll(Row)
  BY DEF Drop, Walking, PacketPlaced, Sources, RowsOffer, Row
<1>2. ForestStays' /\ RowsOffer' /\ MarkedAreBroken'
  BY <1>1, ForestAndMarksStay DEF Drop
<1>3. PacketPlaced'
  BY DEF Drop, PacketPlaced, round
<1>4. ASSUME NEW t \in ResilientTrees
      PROVE  Broken(t)
  <2>1. PICK i \in DOMAIN Row : Row[i].up = t
    BY <1>1 DEF OffersAll
  <2>2. t \in failed_trees \/ nh[t][v] \in failedE
    BY <2>1 DEF Drop, Matches
  <2> QED BY <1>1, <2>2 DEF MarkedAreBroken, Broken
<1>5. IntactTreeDelivers'
  BY <1>4 DEF Drop, IntactTreeDelivers, Broken, tables, round
<1> QED BY <1>2, <1>3, <1>5

(* Arriving changes no mark.                                               *)
LEMMA ArriveInvariant ==
  ASSUME HeadersRight, Arrive
  PROVE  HeadersRight'
<1>1. ForestStays' /\ RowsOffer' /\ MarkedAreBroken'
  BY ForestAndMarksStay DEF Arrive
<1>2. PacketPlaced'
  BY DEF HeadersRight, Arrive, PacketPlaced, round
<1>3. IntactTreeDelivers'
  BY DEF Arrive, IntactTreeDelivers
<1> QED BY <1>1, <1>2, <1>3 DEF HeadersRight

(* Nor does doing nothing.                                                 *)
LEMMA StutterInvariant ==
  ASSUME HeadersRight, UNCHANGED vars
  PROVE  HeadersRight'
BY DEF HeadersRight, ForestStays, EdgeDisjoint, ArcDisjoint, RowsOffer, PacketPlaced,
       MarkedAreBroken, IntactTreeDelivers, Broken, vars, tables, round, packet

-----------------------------------------------------------------------------
(* Types.                                                                  *)

(* The distances are counts.                                               *)
LEMMA CountIsNat ==
  ASSUME NEW P \in SUBSET (0..Cardinality(V))
  PROVE  Cardinality(P) \in Nat
<1>1. Cardinality(V) \in Nat
  BY TopologyAssumption, FS_CardinalityType
<1>2. IsFiniteSet(0..Cardinality(V))
  BY <1>1, FS_Interval
<1> QED BY <1>2, FS_Subset, FS_CardinalityType

(* Lengths of paths along a tree.                                          *)
LEMMA PathLensType ==
  ASSUME NEW f
  PROVE  PathLens(f) \in [V -> Nat]
<1> DEFINE within[n \in 0..Cardinality(V)] ==
             IF n = 0 THEN {Dst}
             ELSE LET near == within[n - 1]
                  IN  near \cup {w \in Sources : Other(w, f[w]) \in near}
<1>1. PathLens(f) = [w \in V |-> Cardinality({n \in 0..Cardinality(V) : w \notin within[n]})]
  BY DEF PathLens
<1> HIDE DEF within
<1>2. ASSUME NEW w \in V
      PROVE  Cardinality({n \in 0..Cardinality(V) : w \notin within[n]}) \in Nat
  BY CountIsNat
<1> QED BY <1>1, <1>2

(* Shortest distances.                                                     *)
LEMMA DistanceType == Distance \in [V -> Nat]
<1> DEFINE within[n \in 0..Cardinality(V)] ==
             IF n = 0 THEN {Dst}
             ELSE LET near == within[n - 1]
                  IN  near \cup {u \in V : \E e \in EdgesAt(u) : Other(u, e) \in near}
<1>1. Distance = [w \in V |-> Cardinality({n \in 0..Cardinality(V) : w \notin within[n]})]
  BY DEF Distance
<1> HIDE DEF within
<1>2. ASSUME NEW w \in V
      PROVE  Cardinality({n \in 0..Cardinality(V) : w \notin within[n]}) \in Nat
  BY CountIsNat
<1> QED BY <1>1, <1>2

(* A forest, no table and no packet.                                       *)
LEMMA InitType ==
  ASSUME Init
  PROVE  TypeOK
<1>1. nh \in [Trees -> [Sources -> E]]
  BY DEF Init, Branchings
<1>2. shortest \in [V -> Nat]
  BY DistanceType DEF Init
<1>3. rows \in [Sources -> [Trees -> Seq(Entries)]]
  BY DEF Init
<1>4. lens \in [Trees -> [V -> Nat]]
  BY DEF Init
<1>5. /\ failedE \subseteq E /\ failedV \subseteq V
      /\ src \in V /\ v \in V
      /\ ctree \in Trees \cup {NoTree}
      /\ failed_trees \subseteq Trees
      /\ fail_exp \in BOOLEAN
      /\ status \in {"build", "ready", "idle", "walking", "delivered", "dropped"}
  BY TreesAssumption DEF Init
<1>6. hops \in Seq(E)
  BY DEF Init
<1> QED BY <1>1, <1>2, <1>3, <1>4, <1>5, <1>6 DEF TypeOK

(* Every step keeps the types.                                             *)
LEMMA TypeStays ==
  ASSUME TypeOK, HeadersRight, [Next]_vars
  PROVE  TypeOK'
<1>1. CASE BuildTables
  <2>1. \A t \in Trees : PathLens(nh[t]) \in [V -> Nat]
    BY PathLensType
  <2>2. lens' \in [Trees -> [V -> Nat]]
    BY <1>1, <2>1 DEF BuildTables
  <2>3. PICK s \in [Sources -> UNION {Orders([u \in Trees |-> lens'[u][x]]) : x \in Sources}] :
          /\ \A x \in Sources : s[x] \in Orders([u \in Trees |-> lens'[u][x]])
          /\ rows' = [x \in Sources |-> [u \in Trees |-> RowOf(Model, nh, x, u, s[x])]]
    BY <1>1 DEF BuildTables
  <2>4. ASSUME NEW w \in Sources, NEW t \in Trees
        PROVE  RowOf(Model, nh, w, t, s[w]) \in Seq(Entries)
    BY <2>3, RowOffers DEF HeadersRight
  <2>5. rows' \in [Sources -> [Trees -> Seq(Entries)]]
    BY <2>3, <2>4
  <2> QED BY <1>1, <2>2, <2>5 DEF BuildTables, TypeOK, round, packet
<1>2. CASE StartRound
  <2>1. failedE' \subseteq E /\ failedV' \subseteq V
    BY <1>2 DEF StartRound, EdgesDown, EdgesAt
  <2> QED BY <1>2, <2>1 DEF StartRound, TypeOK, tables
<1>3. CASE SameSwitch
  BY <1>3 DEF SameSwitch, TypeOK, tables, round
<1>4. CASE Start
  <2>1. ctree' \in Trees
    BY <1>4 DEF Start, TopK, StartTrees, Trees
  <2> QED BY <1>4, <2>1 DEF Start, TypeOK, tables, round
<1>5. CASE Forward
  <2>1. v \in Sources /\ ctree \in Trees
    BY <1>5 DEF Forward, Walking, HeadersRight, PacketPlaced, Sources
  <2>2. Row \in Seq(Entries)
    BY <2>1 DEF TypeOK, Row
  <2>3. PICK i \in DOMAIN Row :
          LET next == Row[i].up
              edge == nh[next][v]
          IN  /\ v' = Other(v, edge)
              /\ hops' = Append(hops, edge)
              /\ ctree' = next
              /\ fail_exp' = Changed(next)
              /\ failed_trees' = failed_trees \cup Row[i].mark
    BY <1>5 DEF Forward
  <2>4. Row[i] \in Entries
    BY <2>2
  <2>5. Row[i].up \in Trees /\ Row[i].mark \subseteq Trees
    BY <2>4 DEF Entries
  <2>6. nh[Row[i].up][v] \in E /\ Other(v, nh[Row[i].up][v]) \in V
    BY <2>1, <2>5, FirstEdge, OtherEnd DEF HeadersRight
  <2>7. hops' \in Seq(E)
    BY <2>3, <2>6 DEF TypeOK
  <2>8. Changed(Row[i].up) \in BOOLEAN
    BY DEF Changed, TypeOK
  <2> QED BY <1>5, <2>3, <2>5, <2>6, <2>7, <2>8 DEF Forward, TypeOK, tables, round
<1>6. CASE Drop
  BY <1>6 DEF Drop, TypeOK, tables, round
<1>7. CASE Arrive
  BY <1>7 DEF Arrive, TypeOK, tables, round
<1>8. CASE UNCHANGED vars
  BY <1>8 DEF vars, TypeOK, tables, round, packet
<1> QED BY <1>1, <1>2, <1>3, <1>4, <1>5, <1>6, <1>7, <1>8 DEF Next

(* The inductive invariant of the walk.                                    *)
THEOREM WalkInvariant == Spec => []IInv
<1>1. Init => IInv
  BY InitInvariant, InitType DEF IInv
<1>2. IInv /\ [Next]_vars => HeadersRight'
  BY BuildTablesInvariant, StartRoundInvariant, SameSwitchInvariant,
     StartInvariant, ForwardInvariant, DropInvariant, ArriveInvariant,
     StutterInvariant DEF Next, IInv
<1>3. IInv /\ [Next]_vars => TypeOK'
  BY TypeStays DEF IInv
<1> QED BY <1>1, <1>2, <1>3, PTL DEF Spec, IInv

-----------------------------------------------------------------------------
(* What follows.                                                           *)

(* Every entry of a table names a tree and marks trees, and a packet is at *)
(* a switch, on a tree, with marks that are trees.                         *)
THEOREM TypeCorrect == Spec => []TypeOK
<1>1. IInv => TypeOK
  BY DEF IInv
<1> QED BY <1>1, WalkInvariant, PTL

(* The trees marked in a header each have a failed edge, although an entry *)
(* marks trees by their place in the row and not by what the packet saw    *)
(* (the mark_failed sets of edst_fwdtable_normal and adst_fwdtable).       *)
THEOREM MarksAreRight == Spec => []MarkedAreBroken
<1>1. IInv => MarkedAreBroken
  BY DEF IInv, HeadersRight
<1> QED BY <1>1, WalkInvariant, PTL

(* fwdtable_walk_path_internal gives a packet up only when no resilient    *)
(* tree is intact.                                                         *)
THEOREM OneIntactTreeDelivers == Spec => []IntactTreeDelivers
<1>1. IInv => IntactTreeDelivers
  BY DEF IInv, HeadersRight
<1> QED BY <1>1, WalkInvariant, PTL

(* Fewer failed edges than trees drop nothing: each failed edge is on one  *)
(* tree at most (edst_forest), so some tree is intact.                     *)
THEOREM ResilienceIsTreesMinusOne ==
  ASSUME Model = "edst"
  PROVE  Spec => []Resilient
<1>1. IInv => Resilient
  <2> SUFFICES ASSUME IInv, Cardinality(failedE) < NumRes, src \notin failedV,
                      status = "dropped"
               PROVE  FALSE
    BY DEF Resilient
  <2>1. \A t \in ResilientTrees : \E w \in Sources : nh[t][w] \in failedE
    BY DEF IInv, HeadersRight, IntactTreeDelivers, Broken
  <2> DEFINE hit == [t \in ResilientTrees |->
                       nh[t][CHOOSE w \in Sources : nh[t][w] \in failedE]]
  <2>2. \A t \in ResilientTrees :
          hit[t] \in failedE /\ \E w \in Sources : hit[t] = nh[t][w]
    BY <2>1
  <2> HIDE DEF hit
  <2>3. hit \in [ResilientTrees -> failedE]
    BY <2>2 DEF hit
  <2>4. IsFiniteSet(failedE) /\ IsFiniteSet(ResilientTrees)
    BY TopologyAssumption, TreesAssumption, FS_Subset DEF IInv, HeadersRight, PacketPlaced
  <2>5. PICK t, u \in ResilientTrees : t # u /\ hit[t] = hit[u]
    BY <2>3, <2>4, FS_PigeonHole DEF NumRes
  <2>6. EdgeDisjoint(nh)
    BY DEF IInv, HeadersRight, ForestStays
  <2> QED BY <2>2, <2>5, <2>6 DEF EdgeDisjoint
<1> QED BY <1>1, WalkInvariant, PTL

-----------------------------------------------------------------------------
(* Failed switches.                                                        *)

(* A failed switch has every cable down, and the packet is not at one.     *)
SwitchesDown ==
  /\ \A w \in failedV : EdgesAt(w) \subseteq failedE
  /\ status = "idle" => v = src
  /\ TransitAvoidsFailures

(* The edge crossed is up, so the switch behind it is not a failed one.    *)
LEMMA SwitchesDownStays ==
  ASSUME IInv, SwitchesDown, [Next]_vars
  PROVE  SwitchesDown'
<1> USE DEF SwitchesDown, TransitAvoidsFailures
<1>1. CASE BuildTables
  BY <1>1 DEF BuildTables, round
<1>2. CASE StartRound
  BY <1>2 DEF StartRound, EdgesDown
<1>3. CASE SameSwitch
  BY <1>3 DEF SameSwitch, round
<1>4. CASE Start
  BY <1>4 DEF Start, round
<1>5. CASE Forward
  <2>1. /\ status = "walking" /\ v \in Sources /\ ctree \in Trees
        /\ OffersAll(Row) /\ ForestStays
    BY <1>5 DEF Forward, Walking, IInv, HeadersRight, PacketPlaced, Sources, RowsOffer, Row
  <2>2. PICK i \in DOMAIN Row : Matches(Row[i]) /\ v' = Other(v, nh[Row[i].up][v])
    BY <1>5 DEF Forward, Matching
  <2> DEFINE edge == nh[Row[i].up][v]
  <2>3. edge \in E /\ v \in Ends[edge] /\ edge \notin failedE
    BY <2>1, <2>2, FirstEdge DEF OffersAll, Matches
  <2> HIDE DEF edge
  <2>4. Other(v, edge) \in Ends[edge]
    BY <2>3, OtherEnd
  <2>5. edge \in EdgesAt(v')
    BY <2>2, <2>3, <2>4 DEF EdgesAt, edge
  <2>6. v' \notin failedV
    BY <2>3, <2>5
  <2> QED BY <1>5, <2>1, <2>6, SMTT(30) DEF Forward, round
<1>6. CASE Drop
  BY <1>6 DEF Drop, round
<1>7. CASE Arrive
  BY <1>7 DEF Arrive, round
<1>8. CASE UNCHANGED vars
  BY <1>8 DEF vars, round, packet
<1> QED BY <1>1, <1>2, <1>3, <1>4, <1>5, <1>6, <1>7, <1>8 DEF Next

(* fwdtable_walk_path_internal looks at cables only, and yet a packet      *)
(* between different switches never stands on a failed switch.             *)
THEOREM NoFailedSwitchOnPath == Spec => []TransitAvoidsFailures
<1>1. Init => SwitchesDown
  BY DEF Init, SwitchesDown, TransitAvoidsFailures
<1>2. IInv /\ SwitchesDown /\ [Next]_vars => SwitchesDown'
  BY SwitchesDownStays
<1>3. SwitchesDown => TransitAvoidsFailures
  BY DEF SwitchesDown
<1> QED BY <1>1, <1>2, <1>3, WalkInvariant, PTL DEF Spec

-----------------------------------------------------------------------------
(* Arc-disjoint trees: one failed edge may break two of them.              *)

(* Beyond the edge that leads a tree into w from b there is no way of this *)
(* tree back to b: the switches that lead to b would lead nowhere else.    *)
LEMMA NoWayBack ==
  ASSUME NEW f \in Branchings, NEW b \in Sources
  PROVE  NeverMeets(f, Other(b, f[b]), b)
<1> DEFINE a == Other(b, f[b])
           Safe == {x \in V : NeverMeets(f, x, b)}
           C == V \ Safe
<1>1. \A x \in Sources : Other(x, f[x]) \in V
  BY OtherEnd DEF Branchings, Branching
<1>2. b \in V /\ b # Dst /\ Dst \in V
  BY TreesAssumption DEF Sources
<1>3. Dst \in Safe
  <2>1. \A y \in {Dst} \cap Sources : Other(y, f[y]) \in {Dst}
    BY DEF Sources
  <2>2. NeverMeets(f, Dst, b)
    <3>1. {Dst} \in SUBSET V /\ Dst \in {Dst} /\ b \notin {Dst}
      BY <1>2
    <3> QED BY <2>1, <3>1 DEF NeverMeets
  <2> QED BY <1>2, <2>2
<1>4. b \notin Safe
  BY DEF NeverMeets
<1>5. C \in SUBSET Sources /\ C # {}
  BY <1>2, <1>3, <1>4 DEF Sources
<1>6. PICK x \in C : Other(x, f[x]) \notin C
  BY <1>5 DEF Branchings, Branching
<1>7. Other(x, f[x]) \in Safe
  BY <1>1, <1>5, <1>6
<1>8. CASE x = b
  BY <1>7, <1>8
<1>9. CASE x # b
  <2>1. PICK S \in SUBSET V :
          /\ Other(x, f[x]) \in S /\ b \notin S
          /\ \A y \in S \cap Sources : Other(y, f[y]) \in S
    BY <1>7 DEF NeverMeets
  <2> DEFINE T == S \cup {x}
  <2>2. T \in SUBSET V /\ x \in T /\ b \notin T
    BY <1>9, <2>1
  <2>3. \A y \in T \cap Sources : Other(y, f[y]) \in T
    BY <2>1
  <2>4. NeverMeets(f, x, b)
    BY <2>2, <2>3 DEF NeverMeets
  <2> QED BY <2>4
<1> QED BY <1>8, <1>9

(* Going on stays away from b.                                             *)
LEMMA NeverMeetsOn ==
  ASSUME NEW f, NEW w \in Sources, NEW b, NeverMeets(f, w, b)
  PROVE  w # b /\ NeverMeets(f, Other(w, f[w]), b)
BY DEF NeverMeets

(* Where the marked trees were found failed, and v for the trees of N.     *)
Extended(at, N) == [t \in Marks \cup N |-> IF t \in Marks THEN at[t] ELSE v]

(* A packet at v that finds further trees failed there: none of them over  *)
(* an edge over which a marked tree was found failed.                      *)
LEMMA FoundDiffer ==
  ASSUME ForestStays, Model = "adst", v \in Sources,
         NEW at \in [Marks -> Sources], FoundAt(at),
         NEW N \in SUBSET (ResilientTrees \ failed_trees),
         \A t \in N : nh[t][v] \in failedE
  PROVE  /\ Extended(at, N) \in [Marks \cup N -> Sources]
         /\ \A t \in Marks \cup N : nh[t][Extended(at, N)[t]] \in failedE
         /\ \A t, u \in Marks \cup N : t # u =>
              nh[t][Extended(at, N)[t]] # nh[u][Extended(at, N)[u]]
<1> DEFINE ext == Extended(at, N)
<1>1. nh \in [Trees -> Branchings] /\ ArcDisjoint(nh)
  BY DEF ForestStays
<1>2. Marks \cap N = {} /\ Marks \subseteq ResilientTrees /\ N \subseteq ResilientTrees
  BY DEF Marks
<1>3. /\ \A t \in Marks : ext[t] = at[t]
      /\ \A t \in N : ext[t] = v
  BY <1>2 DEF Extended
<1>4. ext \in [Marks \cup N -> Sources]
  BY DEF Extended
<1>5. \A t \in Marks \cup N : nh[t][ext[t]] \in failedE
  BY <1>3 DEF FoundAt
<1>6. ASSUME NEW t \in Marks, NEW u \in N
      PROVE  nh[t][at[t]] # nh[u][v]
  <2> SUFFICES ASSUME nh[t][at[t]] = nh[u][v]
               PROVE  FALSE
    OBVIOUS
  <2> DEFINE a == at[t]
             e == nh[u][v]
  <2>1. a \in Sources /\ t \in Trees /\ u \in Trees /\ t # u
    BY <1>2 DEF Trees
  <2>2. a # v
    BY <1>1, <1>2, <2>1 DEF ArcDisjoint
  <2>3. e \in E /\ v \in Ends[e] /\ a \in Ends[e]
    BY <2>1, FirstEdge
  <2>4. v = Other(a, e)
    <3>1. PICK x, y \in V : x # y /\ Ends[e] = {x, y}
      BY <2>3, TopologyAssumption
    <3>2. Other(a, e) \in Ends[e] /\ Other(a, e) # a
      BY <2>3, OtherEnd
    <3> QED BY <2>2, <2>3, <3>1, <3>2
  <2>5. u \in ReverseTrees(nh, a, t)
    <3>1. Other(a, nh[t][a]) = v /\ v # Dst
      BY <2>4 DEF Sources
    <3> QED BY <1>2, <3>1 DEF ReverseTrees
  <2>6. u \notin failed_trees
    BY DEF Marks
  <2>7. NeverMeets(nh[u], v, Other(a, nh[t][a]))
    BY <2>5, <2>6 DEF FoundAt
  <2> QED BY <2>4, <2>7, NeverMeetsOn
<1>7. ASSUME NEW t \in Marks \cup N, NEW u \in Marks \cup N, t # u
      PROVE  nh[t][ext[t]] # nh[u][ext[u]]
  <2>1. CASE t \in Marks /\ u \in Marks
    BY <1>3, <1>7, <2>1 DEF FoundAt
  <2>2. CASE t \in Marks /\ u \in N
    BY <1>3, <1>6, <2>2
  <2>3. CASE t \in N /\ u \in Marks
    BY <1>3, <1>6, <2>3
  <2>4. CASE t \in N /\ u \in N
    BY <1>1, <1>2, <1>3, <1>7, <2>4 DEF ArcDisjoint
  <2> QED BY <2>1, <2>2, <2>3, <2>4
<1> QED BY <1>4, <1>5, <1>7

(* The default tree and the tree behind it fail here over two edges, all   *)
(* there are: a third tree that goes on from here is intact.               *)
LEMMA ThirdIntact ==
  ASSUME ForestStays, Model = "adst", v \in Sources,
         IsFiniteSet(failedE), Cardinality(failedE) <= 2,
         NEW d \in Trees, NEW r \in ReverseTrees(nh, v, d),
         NEW u \in ReverseTrees(nh, v, r),
         NEW x \in ResilientTrees, x # u,
         nh[d][v] \in failedE, nh[r][v] \in failedE, nh[x][v] \notin failedE
  PROVE  ~Broken(x)
<1> DEFINE a == nh[d][v]
           b == nh[r][v]
<1>1. nh \in [Trees -> Branchings] /\ ArcDisjoint(nh)
  BY DEF ForestStays
<1>2. r \in ResilientTrees /\ u \in ResilientTrees /\ r \in Trees /\ x \in Trees
  BY DEF ReverseTrees, Trees
<1>3. a \in E /\ v \in Ends[a] /\ b \in E /\ v \in Ends[b]
  BY <1>2, FirstEdge
<1>4. /\ Other(v, a) # Dst /\ nh[r][Other(v, a)] = a
      /\ Other(v, b) # Dst /\ nh[u][Other(v, b)] = b
  BY DEF ReverseTrees
<1>5. /\ Other(v, a) \in Sources /\ Other(v, a) # v /\ Other(Other(v, a), a) = v
      /\ Other(v, b) \in Sources
  BY <1>3, <1>4, OtherEnd DEF Sources
<1>6. a # b
  <2> SUFFICES ASSUME a = b PROVE FALSE
    OBVIOUS
  <2> DEFINE S == {v, Other(v, a)}
  <2>1. S \in SUBSET Sources /\ S # {}
    BY <1>5
  <2>2. Branching(nh[r])
    BY <1>1, <1>2 DEF Branchings
  <2> HIDE DEF S
  <2>3. PICK y \in S : Other(y, nh[r][y]) \notin S
    BY <2>1, <2>2 DEF Branching
  <2> QED BY <1>4, <1>5, <2>3 DEF S
<1>7. failedE = {a, b}
  <2>1. {a, b} \subseteq failedE
    OBVIOUS
  <2>2. Cardinality({a, b}) = 2
    <3> HIDE DEF a, b
    <3>1. IsFiniteSet({a}) /\ Cardinality({a}) = 1
      BY FS_Singleton
    <3>2. b \notin {a}
      BY <1>6
    <3>3. Cardinality({a} \cup {b}) = 1 + 1
      BY <3>1, <3>2, FS_AddElement
    <3>4. {a} \cup {b} = {a, b}
      OBVIOUS
    <3> QED BY <3>3, <3>4
  <2>3. Cardinality(failedE) \in Nat /\ Cardinality({a, b}) <= Cardinality(failedE)
    BY <2>1, FS_Subset, FS_CardinalityType
  <2> HIDE DEF a, b
  <2> QED BY <2>1, <2>2, <2>3, FS_Subset
<1>8. ASSUME NEW y \in Sources, nh[x][y] \in failedE
      PROVE  FALSE
  <2>1. y # v
    BY <1>8
  <2>2. nh[x][y] \in E /\ y \in Ends[nh[x][y]]
    BY <1>2, FirstEdge
  <2>3. \A e \in E : v \in Ends[e] /\ y \in Ends[e] => y = Other(v, e)
    <3> TAKE e \in E
    <3> HAVE v \in Ends[e] /\ y \in Ends[e]
    <3>1. PICK p, q \in V : p # q /\ Ends[e] = {p, q}
      BY TopologyAssumption
    <3>2. Other(v, e) \in Ends[e] /\ Other(v, e) # v
      BY OtherEnd
    <3> QED BY <2>1, <3>1, <3>2
  <2>4. CASE nh[x][y] = a
    <3>1. nh[r][y] = a
      BY <1>3, <1>4, <2>2, <2>3, <2>4
    <3>2. x # r
      OBVIOUS
    <3> QED BY <1>1, <1>2, <2>4, <3>1, <3>2 DEF ArcDisjoint
  <2>5. CASE nh[x][y] = b
    <3>1. nh[u][y] = b
      BY <1>3, <1>4, <2>2, <2>3, <2>5
    <3> QED BY <1>1, <1>2, <2>5, <3>1 DEF ArcDisjoint
  <2> QED BY <1>7, <1>8, <2>4, <2>5
<1> QED BY <1>8 DEF Broken

(* The condition on the tables for the resilience of arc-disjoint trees.   *)
TablesPair == NumRes <= 3 \/ ReversesFollow

(* A tree that the packet finds failed here has its reverse tree marked    *)
(* too, or it is the one that carries the packet on.                       *)
LEMMA ReverseTaken ==
  ASSUME IInv, Model = "adst", RowsPaired, FreshOnDefault, TablesPair,
         Walking, Cardinality(failedE) < NumRes,
         \A t \in ResilientTrees : Broken(t),
         NEW i \in DOMAIN Row, Matches(Row[i]),
         \A k \in DOMAIN Row : k < i => ~Matches(Row[k]),
         NEW j \in DOMAIN Row, j < i,
         NEW u \in ReverseTrees(nh, v, Row[j].up)
  PROVE  u \in Row[i].mark \/ u = Row[i].up
<1> DEFINE n == Len(Row)
<1>1. /\ v \in Sources /\ ctree \in Trees /\ OffersAll(Row) /\ status = "walking"
      /\ RowOrdered(ctree, Row) /\ RowPaired(v, Row)
      /\ ForestStays
      /\ ReversesFollow => ReverseFollows(v, Row, j)
  BY DEF IInv, Walking, HeadersRight, PacketPlaced, Sources, RowsOffer, Row, RowsPaired,
         ReversesFollow
<1>2. Row \in Seq(Entries)
  BY <1>1 DEF IInv, TypeOK, Row
<1>3. n \in Nat /\ DOMAIN Row = 1..n /\ i \in 1..n /\ j \in 1..n
  BY <1>2
<1>4. Row[1].up = ctree /\ Row[i].mark = {Row[k].up : k \in 1..(i - 1)}
  BY <1>1 DEF RowOrdered
<1>5. u \in ResilientTrees
  BY DEF ReverseTrees
<1>6. PICK m \in 1..n : Row[m].up = u
  BY <1>1, <1>3, <1>5 DEF OffersAll
<1>7. CASE m <= i
  <2>1. m \in 1..(i - 1) \/ m = i
    BY <1>3, <1>7
  <2> QED BY <1>4, <1>6, <2>1
<1>8. CASE ReverseFollows(v, Row, j)
  <2>1. PICK k \in 1..n : k <= j + 1 /\ Row[k].up = u
    BY <1>3, <1>8 DEF ReverseFollows
  <2>2. k \in 1..(i - 1) \/ k = i
    BY <1>3, <2>1
  <2> QED BY <1>4, <2>1, <2>2
<1>9. ASSUME m > i, NumRes <= 3,
             j >= 2, Row[j].up \in ReverseTrees(nh, v, Row[j - 1].up)
      PROVE  u = Row[i].up
  <2>1. NumRes \in Nat
    BY TreesAssumption, FS_CardinalityType DEF NumRes
  <2>2. n <= IF ctree \in ResilientTrees THEN NumRes ELSE NumRes + 1
    BY <1>1 DEF RowOrdered
  <2>3. i >= 3 /\ m >= 4
    BY <1>3, <1>6, <1>9
  <2>4. n = 4 /\ ctree \notin ResilientTrees
    <3>1. n >= 4
      BY <1>3, <1>6, <2>3
    <3> HIDE DEF n
    <3> QED BY <1>3, <1>9, <2>1, <2>2, <3>1
  <2>5. i = 3 /\ j = 2 /\ j - 1 = 1
    BY <1>3, <1>6, <1>9, <2>3, <2>4
  <2>6. failed_trees = {}
    BY <1>1, <2>4 DEF FreshOnDefault, Trees
  <2>7. Row[1].up = ctree /\ Row[2].up \in ReverseTrees(nh, v, ctree)
    BY <1>4, <1>9, <2>5
  <2>8. nh[ctree][v] \in failedE /\ nh[Row[2].up][v] \in failedE
    <3>1. ~Matches(Row[1]) /\ ~Matches(Row[2])
      BY <1>3, <2>5
    <3> QED BY <2>6, <2>7, <3>1 DEF Matches
  <2>9. Row[3].up \in ResilientTrees /\ nh[Row[3].up][v] \notin failedE
    <3>1. 3 \in DOMAIN Row /\ 3 # 1
      BY <1>3, <2>5
    <3> QED BY <1>1, <2>5, <3>1 DEF RowOrdered, Matches
  <2>10. IsFiniteSet(failedE) /\ Cardinality(failedE) <= 2
    <3>1. IsFiniteSet(failedE)
      BY TopologyAssumption, FS_Subset DEF IInv, TypeOK
    <3>2. Cardinality(failedE) \in Nat
      BY <3>1, FS_CardinalityType
    <3> QED BY <1>9, <2>1, <3>1, <3>2
  <2>11. Broken(Row[3].up)
    BY <2>9
  <2>12. u \in ReverseTrees(nh, v, Row[2].up)
    BY <2>5
  <2> QED BY <1>1, <2>5, <2>7, <2>8, <2>9, <2>10, <2>11, <2>12, ThirdIntact
<1>10. j \in Nat /\ i \in Nat /\ m \in Nat
  BY <1>3
<1>11. \/ ReverseFollows(v, Row, j)
       \/ j >= 2 /\ Row[j].up \in ReverseTrees(nh, v, Row[j - 1].up)
  BY <1>1 DEF RowPaired
<1> QED BY <1>1, <1>7, <1>8, <1>9, <1>10, <1>11 DEF TablesPair

(* The trees the packet leaves at a switch are found failed there.         *)
LEMMA ForwardFinds ==
  ASSUME IInv, Model = "adst", RowsPaired, FreshOnDefault, TablesPair, MarksFound,
         Forward
  PROVE  MarksFound'
<1> SUFFICES ASSUME Cardinality(failedE) < NumRes,
                    \A t \in ResilientTrees : Broken(t)
             PROVE  \E at \in [Marks' -> Sources] : FoundAt(at)'
  <2>1. UNCHANGED <<nh, failedE>>
    BY SMTT(30) DEF Forward, tables, round
  <2> QED BY <2>1 DEF MarksFound, Broken
<1>1. /\ v \in Sources /\ ctree \in Trees /\ OffersAll(Row) /\ status = "walking"
      /\ RowOrdered(ctree, Row) /\ ForestStays /\ Walking
  BY DEF Forward, IInv, Walking, HeadersRight, PacketPlaced, Sources, RowsOffer, Row,
         RowsPaired
<1>2. PICK i \in DOMAIN Row :
        /\ Matches(Row[i])
        /\ \A j \in DOMAIN Row : j < i => ~Matches(Row[j])
        /\ v' = Other(v, nh[Row[i].up][v])
        /\ ctree' = Row[i].up
        /\ failed_trees' = failed_trees \cup Row[i].mark
  BY DEF Forward, Matching
<1>3. Row \in Seq(Entries)
  BY <1>1 DEF IInv, TypeOK, Row
<1>4. /\ Row[1].up = ctree /\ Row[i].mark = {Row[j].up : j \in 1..(i - 1)}
      /\ i \in Nat /\ i >= 1 /\ \A j \in 1..(i - 1) : j \in DOMAIN Row /\ j < i
  BY <1>1, <1>2, <1>3, SMTT(30) DEF RowOrdered
<1>5. UNCHANGED <<nh, failedE>>
  BY DEF Forward, tables, round
<1>6. PICK at \in [Marks -> Sources] : FoundAt(at)
  BY <1>1 DEF MarksFound
<1> DEFINE N == (Row[i].mark \ failed_trees) \cap ResilientTrees
           ext == Extended(at, N)
<1>7. \A t \in N : nh[t][v] \in failedE
  BY <1>2, <1>4 DEF Matches
<1>8. /\ ext \in [Marks \cup N -> Sources]
      /\ \A t \in Marks \cup N : nh[t][ext[t]] \in failedE
      /\ \A t, u \in Marks \cup N : t # u => nh[t][ext[t]] # nh[u][ext[u]]
  <2>1. N \in SUBSET (ResilientTrees \ failed_trees)
    OBVIOUS
  <2> HIDE DEF N
  <2> QED BY <1>1, <1>6, <1>7, <2>1, FoundDiffer
<1>9. Marks' = Marks \cup N
  BY <1>2 DEF Marks
<1>10. /\ \A t \in Marks : ext[t] = at[t]
       /\ \A t \in N : ext[t] = v /\ t \notin Marks
  BY DEF Extended, Marks
<1> HIDE DEF N, ext
<1>11. ASSUME NEW t \in Marks, NEW u \in ReverseTrees(nh, at[t], t)
       PROVE  \/ u \in failed_trees'
              \/ ctree' = u /\ NeverMeets(nh[u], v', Other(at[t], nh[t][at[t]]))
  <2>1. CASE u \in failed_trees
    BY <1>2, <2>1
  <2>2. CASE ctree = u /\ NeverMeets(nh[u], v, Other(at[t], nh[t][at[t]]))
    <3>1. CASE i = 1
      <4>1. ctree' = u /\ v' = Other(v, nh[u][v])
        BY <1>2, <1>4, <2>2, <3>1
      <4> QED BY <1>1, <2>2, <4>1, NeverMeetsOn
    <3>2. CASE i # 1
      <4>1. 1 \in 1..(i - 1)
        BY <1>4, <3>2
      <4> QED BY <1>2, <1>4, <2>2, <4>1
    <3> QED BY <3>1, <3>2
  <2> QED BY <1>6, <2>1, <2>2 DEF FoundAt
<1>12. ASSUME NEW t \in N, NEW u \in ReverseTrees(nh, v, t)
       PROVE  \/ u \in failed_trees'
              \/ ctree' = u /\ NeverMeets(nh[u], v', Other(v, nh[t][v]))
  <2>1. PICK j \in 1..(i - 1) : t = Row[j].up
    BY <1>4 DEF N
  <2>2. u \in Row[i].mark \/ u = Row[i].up
    BY <1>1, <1>2, <1>4, <2>1, ReverseTaken
  <2>3. ASSUME u = Row[i].up
        PROVE  ctree' = u /\ NeverMeets(nh[u], v', Other(v, nh[t][v]))
    <3> DEFINE b == Other(v, nh[t][v])
    <3>1. t \in Trees /\ u \in Trees /\ u \in ResilientTrees
      BY DEF N, ReverseTrees, Trees
    <3>2. nh[t][v] \in E /\ v \in Ends[nh[t][v]]
      BY <1>1, <3>1, FirstEdge
    <3>3. b \in Sources /\ nh[u][b] = nh[t][v] /\ Other(b, nh[u][b]) = v
      <4>1. b # Dst /\ nh[u][b] = nh[t][v]
        BY DEF ReverseTrees
      <4>2. b \in V /\ Other(b, nh[t][v]) = v
        BY <3>2, OtherEnd
      <4> HIDE DEF b
      <4> QED BY <4>1, <4>2 DEF Sources
    <3>4. nh[u] \in Branchings
      BY <1>1, <3>1 DEF ForestStays
    <3> HIDE DEF b
    <3>5. NeverMeets(nh[u], v, b)
      BY <3>3, <3>4, NoWayBack
    <3>6. NeverMeets(nh[u], Other(v, nh[u][v]), b)
      BY <1>1, <3>5, NeverMeetsOn
    <3> QED BY <1>2, <2>3, <3>6 DEF b
  <2> QED BY <1>2, <2>2, <2>3
<1>13. PICK found : found = ext
  OBVIOUS
<1>14. PICK to : to = Marks \cup N
  OBVIOUS
<1>15. /\ found \in [to -> Sources] /\ Marks' = to
       /\ \A t \in to : nh[t][found[t]] \in failedE
       /\ \A t, u \in to : t # u => nh[t][found[t]] # nh[u][found[u]]
  BY <1>8, <1>9, <1>13, <1>14
<1>16. ASSUME NEW t \in to, NEW u \in ReverseTrees(nh, found[t], t)
       PROVE  \/ u \in failed_trees'
              \/ ctree' = u /\ NeverMeets(nh[u], v', Other(found[t], nh[t][found[t]]))
  <2>1. CASE t \in Marks
    <3>1. found[t] = at[t]
      BY <1>10, <1>13, <2>1
    <3> QED BY <1>11, <1>16, <2>1, <3>1
  <2>2. CASE t \in N
    <3>1. found[t] = v
      BY <1>10, <1>13, <2>2
    <3> QED BY <1>12, <1>16, <2>2, <3>1
  <2> QED BY <1>14, <2>1, <2>2
<1>17. FoundAt(found)'
  <2>1. DOMAIN found = to
    BY <1>15
  <2> QED BY <1>5, <1>15, <1>16, <2>1 DEF FoundAt
<1> QED BY <1>15, <1>17

(* Fewer failed edges than trees: a packet in transit is not given up.     *)
LEMMA DropNever ==
  ASSUME IInv, Model = "adst", MarksFound, Drop, Cardinality(failedE) < NumRes
  PROVE  FALSE
<1>1. /\ v \in Sources /\ ctree \in Trees /\ OffersAll(Row) /\ status = "walking"
      /\ ForestStays
  BY DEF Drop, IInv, Walking, HeadersRight, PacketPlaced, Sources, RowsOffer, Row
<1>2. \A t \in ResilientTrees : t \in failed_trees \/ nh[t][v] \in failedE
  BY <1>1 DEF Drop, Matches, OffersAll
<1>3. \A t \in ResilientTrees : Broken(t)
  BY <1>1, <1>2 DEF IInv, HeadersRight, MarkedAreBroken, Broken
<1>4. PICK at \in [Marks -> Sources] : FoundAt(at)
  BY <1>1, <1>3 DEF MarksFound
<1> DEFINE N == ResilientTrees \ failed_trees
           ext == Extended(at, N)
<1>5. /\ ext \in [Marks \cup N -> Sources]
      /\ \A t \in Marks \cup N : nh[t][ext[t]] \in failedE
      /\ \A t, u \in Marks \cup N : t # u => nh[t][ext[t]] # nh[u][ext[u]]
  <2>1. N \in SUBSET (ResilientTrees \ failed_trees) /\ \A t \in N : nh[t][v] \in failedE
    BY <1>2
  <2> HIDE DEF N
  <2> QED BY <1>1, <1>4, <2>1, FoundDiffer
<1>6. Marks \cup N = ResilientTrees
  BY DEF Marks
<1> DEFINE hit == [t \in ResilientTrees |-> nh[t][ext[t]]]
<1> HIDE DEF ext
<1>7. /\ hit \in [ResilientTrees -> failedE]
      /\ \A t, u \in ResilientTrees : t # u => hit[t] # hit[u]
  BY <1>5, <1>6
<1>8. IsFiniteSet(failedE) /\ IsFiniteSet(ResilientTrees)
  BY TopologyAssumption, TreesAssumption, FS_Subset DEF IInv, TypeOK
<1> HIDE DEF hit
<1> QED BY <1>7, <1>8, FS_PigeonHole DEF NumRes

(* The rows adst_fwdtable builds pair the trees.                           *)
LEMMA AdstRowsPaired ==
  ASSUME ForestStays, Model = "adst", BuildTables
  PROVE  RowsPaired'
<1>1. nh \in [Trees -> Branchings] /\ ArcDisjoint(nh) /\ nh' = nh
  BY DEF ForestStays, BuildTables
<1>2. PICK s \in [Sources -> UNION {Orders([u \in Trees |-> lens'[u][x]]) : x \in Sources}] :
        /\ \A x \in Sources : s[x] \in Orders([u \in Trees |-> lens'[u][x]])
        /\ rows' = [x \in Sources |-> [u \in Trees |-> RowOf(Model, nh, x, u, s[x])]]
  BY DEF BuildTables
<1>3. ASSUME NEW w \in Sources, NEW c \in Trees
      PROVE  RowOrdered(c, rows[w][c])' /\ RowPaired(w, rows[w][c])'
  <2> DEFINE row == AdstRow(nh, w, c, s[w])
  <2>1. rows'[w][c] = row
    BY <1>2 DEF RowOf
  <2>2. OneReverse(nh, w) /\ s[w] \in Orders([u \in Trees |-> lens'[u][w]])
    BY <1>1, <1>2, ReversesUnique
  <2>3. PICK r : r = row
    OBVIOUS
  <2>4. /\ RowOrdered(c, r)
        /\ \A i \in DOMAIN r :
             \/ \A u \in ReverseTrees(nh, w, r[i].up) :
                  \E j \in DOMAIN r : j <= i + 1 /\ r[j].up = u
             \/ i >= 2 /\ r[i].up \in ReverseTrees(nh, w, r[i - 1].up)
    <3>1. PICK o : o = s[w]
      OBVIOUS
    <3>2. OneReverse(nh, w) /\ o \in Orders([u \in Trees |-> lens'[u][w]]) /\ r = AdstRow(nh, w, c, o)
      BY <2>2, <2>3, <3>1
    <3> QED BY <3>2, AdstRowShape, ZenonT(30)
  <2>5. RowPaired(w, r)'
    BY <1>1, <2>4 DEF RowPaired, ReverseFollows
  <2>6. r = rows'[w][c]
    BY <2>1, <2>3
  <2> QED BY <2>4, <2>5, <2>6
<1> QED BY <1>3 DEF RowsPaired

(* Steps that leave tables, failures and marks alone.                      *)
LEMMA RowsStay ==
  ASSUME RowsPaired, UNCHANGED tables, status # "build"
  PROVE  RowsPaired'
<1>1. nh' = nh /\ rows' = rows
  BY DEF tables
<1>2. ASSUME NEW w \in Sources, NEW c \in Trees
      PROVE  /\ RowOrdered(c, rows[w][c])' /\ RowPaired(w, rows[w][c])'
  <2>1. RowOrdered(c, rows[w][c]) /\ RowPaired(w, rows[w][c])
    BY DEF RowsPaired
  <2>2. PICK r : r = rows[w][c]
    OBVIOUS
  <2>3. RowOrdered(c, r) /\ RowPaired(w, r)'
    BY <1>1, <2>1, <2>2 DEF RowPaired, ReverseFollows
  <2> QED BY <1>1, <2>2, <2>3
<1> QED BY <1>2 DEF RowsPaired

(* A packet without marks has found nothing.                               *)
LEMMA NoMarksFound ==
  ASSUME failed_trees' = {}
  PROVE  FreshOnDefault' /\ MarksFound'
<1> DEFINE none == [t \in {} |-> v]
<1>1. Marks' = {}
  BY DEF Marks
<1>2. PICK at : at = [t \in {} |-> Dst]
  OBVIOUS
<1>3. at \in [{} -> Sources] /\ DOMAIN at = {}
  BY <1>2
<1>4. FoundAt(at)'
  BY <1>3 DEF FoundAt
<1> QED BY <1>1, <1>3, <1>4 DEF FreshOnDefault, MarksFound

(* Every step of a packet on arc-disjoint trees keeps the invariant.       *)
LEMMA ArcInvStays ==
  ASSUME Model = "adst", IInv, ArcInv, TablesPair, [Next]_vars
  PROVE  ArcInv'
<1> USE DEF ArcInv
<1>1. CASE BuildTables
  <2>1. RowsPaired'
    BY <1>1, AdstRowsPaired DEF IInv, HeadersRight
  <2>2. status' = "ready"
    BY <1>1 DEF BuildTables
  <2> QED BY <2>1, <2>2 DEF FreshOnDefault, MarksFound, Resilient
<1>2. CASE StartRound
  <2>1. RowsPaired'
    BY <1>2, RowsStay DEF StartRound
  <2>2. status' = "idle"
    BY <1>2 DEF StartRound
  <2> QED BY <2>1, <2>2 DEF FreshOnDefault, MarksFound, Resilient
<1>3. CASE SameSwitch
  <2>1. RowsPaired'
    BY <1>3, RowsStay DEF SameSwitch
  <2>2. status' = "delivered"
    BY <1>3 DEF SameSwitch
  <2> QED BY <2>1, <2>2 DEF FreshOnDefault, MarksFound, Resilient
<1>4. CASE Start
  <2>1. RowsPaired'
    BY <1>4, RowsStay DEF Start
  <2>2. failed_trees' = {}
    BY <1>4 DEF Start, IInv, HeadersRight, PacketPlaced
  <2>3. FreshOnDefault' /\ MarksFound'
    BY <2>2, NoMarksFound
  <2>4. Resilient'
    BY <1>4 DEF Start, Resilient, round
  <2> QED BY <2>1, <2>3, <2>4
<1>5. CASE Forward
  <2>1. RowsPaired'
    BY <1>5, RowsStay DEF Forward, Walking
  <2>2. MarksFound'
    BY <1>5, ForwardFinds
  <2>3. FreshOnDefault'
    <3>1. PICK i \in DOMAIN Row :
            /\ ctree' = Row[i].up
            /\ failed_trees' = failed_trees \cup Row[i].mark
      BY <1>5 DEF Forward
    <3>2. v \in Sources /\ ctree \in Trees /\ status = "walking"
      BY <1>5 DEF Forward, Walking, IInv, HeadersRight, PacketPlaced, Sources
    <3>3. /\ Row[1].up = ctree
          /\ i # 1 => Row[i].up \in ResilientTrees
          /\ Row[i].mark = {Row[j].up : j \in 1..(i - 1)}
      BY <3>2 DEF RowsPaired, RowOrdered, Row
    <3>4. CASE i # 1
      BY <3>1, <3>3, <3>4, TreesAssumption DEF FreshOnDefault
    <3>5. CASE i = 1
      <4>1. Row[i].mark = {}
        BY <3>3, <3>5
      <4> QED BY <3>1, <3>2, <3>3, <3>5, <4>1 DEF FreshOnDefault
    <3> QED BY <3>4, <3>5
  <2>4. Resilient'
    BY <1>5 DEF Forward, Walking, Resilient
  <2> QED BY <2>1, <2>2, <2>3, <2>4
<1>6. CASE Drop
  <2>1. RowsPaired'
    BY <1>6, RowsStay DEF Drop, Walking
  <2>2. status' = "dropped" /\ failedE' = failedE
    BY <1>6 DEF Drop, round
  <2>3. ~(Cardinality(failedE) < NumRes)
    BY <1>6, DropNever
  <2> QED BY <2>1, <2>2, <2>3 DEF FreshOnDefault, MarksFound, Resilient
<1>7. CASE Arrive
  <2>1. RowsPaired'
    BY <1>7, RowsStay DEF Arrive
  <2>2. status' = "delivered"
    BY <1>7 DEF Arrive
  <2> QED BY <2>1, <2>2 DEF FreshOnDefault, MarksFound, Resilient
<1>8. CASE UNCHANGED vars
  <2> USE <1>8
  <2>1. RowsPaired'
    <3>1. CASE status = "build"
      BY <3>1 DEF RowsPaired, vars
    <3> QED BY <3>1, RowsStay DEF vars
  <2>2. FreshOnDefault' /\ Resilient'
    BY DEF FreshOnDefault, Resilient, vars, packet, round
  <2>3. MarksFound'
    <3> SUFFICES ASSUME status = "walking", Cardinality(failedE) < NumRes,
                        \A t \in ResilientTrees : Broken(t)
                 PROVE  \E at \in [Marks' -> Sources] : FoundAt(at)'
      BY DEF MarksFound, Broken, vars, tables, round
    <3>1. PICK at \in [Marks -> Sources] : FoundAt(at)
      BY DEF MarksFound
    <3>2. Marks' = Marks
      BY DEF Marks, vars, packet
    <3>3. FoundAt(at)'
      BY <3>1 DEF FoundAt, vars, packet, tables, round
    <3> QED BY <3>1, <3>2, <3>3
  <2> QED BY <2>1, <2>2, <2>3
<1> QED BY <1>1, <1>2, <1>3, <1>4, <1>5, <1>6, <1>7, <1>8 DEF Next

(* adst_fwdtable: k arc-disjoint trees survive any k - 1 failed edges as   *)
(* long as every row has each tree and its reverse tree together.          *)
THEOREM PairedReversesSurvive ==
  ASSUME Model = "adst"
  PROVE  Spec /\ []ReversesFollow => []Resilient
<1>1. Init => ArcInv
  BY DEF Init, ArcInv, RowsPaired, FreshOnDefault, MarksFound, Resilient
<1>2. IInv /\ ArcInv /\ ReversesFollow /\ [Next]_vars => ArcInv'
  BY ArcInvStays DEF TablesPair
<1>3. ArcInv => Resilient
  BY DEF ArcInv
<1> QED BY <1>1, <1>2, <1>3, WalkInvariant, PTL DEF Spec

(* Up to three trees, whatever tables adst_fwdtable builds, with default   *)
(* trees or without: where it does not keep a reverse tree with its tree,  *)
(* the two trees above have used up the failed edges.                      *)
THEOREM ThreeArcDisjointTreesSurvive ==
  ASSUME Model = "adst", NumRes <= 3
  PROVE  Spec => []Resilient
<1>1. Init => ArcInv
  BY DEF Init, ArcInv, RowsPaired, FreshOnDefault, MarksFound, Resilient
<1>2. IInv /\ ArcInv /\ [Next]_vars => ArcInv'
  BY ArcInvStays DEF TablesPair
<1>3. ArcInv => Resilient
  BY DEF ArcInv
<1> QED BY <1>1, <1>2, <1>3, WalkInvariant, PTL DEF Spec

-----------------------------------------------------------------------------
(* No link is crossed twice the same way.                                  *)

(* The switches of the path h from u.                                      *)
IsWay(u, h, f) == f = [k \in 0..Len(h) |-> IF k = 0 THEN u ELSE Other(f[k - 1], h[k])]

(* One switch after the other, without the recursion.                      *)
LEMMA WaySteps ==
  ASSUME NEW u, NEW h \in Seq(E), NEW f, IsWay(u, h, f)
  PROVE  f[0] = u /\ \A k \in 1..Len(h) : f[k] = Other(f[k - 1], h[k])
<1>1. Len(h) \in Nat
  OBVIOUS
<1>2. \A k \in 0..Len(h) : f[k] = IF k = 0 THEN u ELSE Other(f[k - 1], h[k])
  BY DEF IsWay
<1> QED BY <1>1, <1>2

(* Every path has its switches.                                            *)
LEMMA WayExists ==
  ASSUME NEW u, NEW h \in Seq(E)
  PROVE  \E f : IsWay(u, h, f)
<1> DEFINE Upto(f, n) == f = [k \in 0..n |-> IF k = 0 THEN u ELSE Other(f[k - 1], h[k])]
           S == {n \in Nat : \E f : Upto(f, n)}
<1>1. 0 \in S
  <2>1. Upto([k \in 0..0 |-> u], 0)
    OBVIOUS
  <2> QED BY <2>1
<1>2. ASSUME NEW n \in Nat, n \in S PROVE n + 1 \in S
  <2>1. PICK f : Upto(f, n)
    BY <1>2
  <2> DEFINE g == [k \in 0..n + 1 |-> IF k = n + 1 THEN Other(f[n], h[n + 1]) ELSE f[k]]
  <2>2. ASSUME NEW k \in 0..n + 1
        PROVE  g[k] = IF k = 0 THEN u ELSE Other(g[k - 1], h[k])
    <3>1. CASE k = n + 1
      <4>1. k - 1 \in 0..n + 1 /\ k - 1 # n + 1 /\ k - 1 = n /\ k # 0
        BY <3>1
      <4>2. g[k - 1] = f[n] /\ g[k] = Other(f[n], h[n + 1])
        BY <3>1, <4>1
      <4> HIDE DEF g
      <4> QED BY <3>1, <4>1, <4>2
    <3>2. CASE k # n + 1
      <4>1. k \in 0..n /\ g[k] = f[k]
        BY <3>2
      <4>2. f[k] = IF k = 0 THEN u ELSE Other(f[k - 1], h[k])
        BY <2>1, <4>1
      <4>3. k # 0 => g[k - 1] = f[k - 1]
        BY <4>1
      <4> HIDE DEF g
      <4> QED BY <4>1, <4>2, <4>3
    <3> QED BY <3>1, <3>2
  <2>3. Upto(g, n + 1)
    <3>1. g = [k \in 0..n + 1 |-> g[k]]
      OBVIOUS
    <3> HIDE DEF g
    <3> QED BY <2>2, <3>1
  <2> HIDE DEF Upto, g
  <2> QED BY <2>3
<1>3. Len(h) \in S
  <2> HIDE DEF S
  <2>1. Len(h) \in Nat
    OBVIOUS
  <2> QED BY <1>1, <1>2, <2>1, NatSet
<1> QED BY <1>3 DEF IsWay

(* One hop more: the switches up to there stay the same.                   *)
LEMMA WayLonger ==
  ASSUME NEW u, NEW h \in Seq(E), NEW e \in E,
         NEW f, IsWay(u, h, f), NEW g, IsWay(u, Append(h, e), g)
  PROVE  /\ \A k \in 0..Len(h) : g[k] = f[k]
         /\ g[Len(h) + 1] = Other(f[Len(h)], e)
<1> DEFINE n == Len(h)
           longer == Append(h, e)
           S == {k \in Nat : k <= n => g[k] = f[k]}
<1>1. /\ n \in Nat /\ longer \in Seq(E) /\ Len(longer) = n + 1 /\ longer[n + 1] = e
      /\ \A k \in 1..n : longer[k] = h[k]
  OBVIOUS
<1>2. /\ f[0] = u /\ \A k \in 1..n : f[k] = Other(f[k - 1], h[k])
      /\ g[0] = u /\ \A k \in 1..Len(longer) : g[k] = Other(g[k - 1], longer[k])
  <2>1. f[0] = u /\ \A k \in 1..n : f[k] = Other(f[k - 1], h[k])
    BY WaySteps
  <2>2. PICK m \in Seq(E) : m = longer /\ IsWay(u, m, g)
    BY <1>1
  <2>3. IsWay(u, m, g)
    BY <2>2
  <2> HIDE DEF n, longer, S
  <2>4. g[0] = u /\ \A k \in 1..Len(m) : g[k] = Other(g[k - 1], m[k])
    <3> DEFINE P(p, q, r) == r[0] = p /\ \A k \in 1..Len(q) : r[k] = Other(r[k - 1], q[k])
    <3>1. \A p, r : \A q \in Seq(E) : IsWay(p, q, r) => P(p, q, r)
      BY WaySteps
    <3> HIDE DEF P
    <3>2. P(u, m, g)
      BY <2>3, <3>1
    <3> QED BY <3>2 DEF P
  <2> QED BY <2>1, <2>2, <2>4
<1> HIDE DEF n, longer
<1>3. 0 \in S
  BY <1>2
<1>4. ASSUME NEW k \in Nat, k \in S PROVE k + 1 \in S
  <2> SUFFICES ASSUME k + 1 <= n PROVE g[k + 1] = f[k + 1]
    OBVIOUS
  <2>1. k + 1 \in 1..n /\ k + 1 \in 1..Len(longer) /\ (k + 1) - 1 = k /\ k <= n
    BY <1>1
  <2>2. g[k] = f[k]
    BY <1>4, <2>1
  <2>3. g[k + 1] = Other(g[k], longer[k + 1]) /\ f[k + 1] = Other(f[k], h[k + 1])
    BY <1>2, <2>1
  <2> QED BY <1>1, <2>1, <2>2, <2>3
<1>5. \A k \in 0..n : g[k] = f[k]
  <2>1. Nat \subseteq S
    <3> HIDE DEF S
    <3> QED BY <1>3, <1>4, NatSet
  <2> QED BY <1>1, <2>1
<1>6. g[n + 1] = Other(f[n], e)
  <2>1. n + 1 \in 1..Len(longer) /\ (n + 1) - 1 = n /\ n \in 0..n
    BY <1>1
  <2>2. g[n + 1] = Other(g[n], longer[n + 1])
    BY <1>2, <2>1
  <2> QED BY <1>1, <1>5, <2>1, <2>2
<1> QED BY <1>5, <1>6 DEF n

(* An entry goes on along the current tree or marks it.                    *)
Begins(c, row) == \A k \in DOMAIN row : row[k].up = c \/ c \in row[k].mark

RowsBegin ==
  status # "build" => \A w \in Sources, c \in Trees : Begins(c, rows[w][c])

(* The tree of each hop, and the switch where it was taken.  A tree that a *)
(* hop was taken on is marked, or is still the current one and does not    *)
(* lead back there.                                                        *)
Crossed(at, tree) ==
  /\ \A k \in 1..Len(hops) :
       /\ at[k - 1] \in Sources /\ hops[k] = nh[tree[k]][at[k - 1]]
       /\ at[k] = Other(at[k - 1], hops[k])
       /\ \/ tree[k] \in failed_trees
          \/ tree[k] = ctree /\ NeverMeets(nh[ctree], v, at[k - 1])
  /\ \A k, l \in 1..Len(hops) : k # l => <<at[k - 1], tree[k]>> # <<at[l - 1], tree[l]>>

(* The packet is where its hops lead, and each of them has its tree.       *)
HopsTaken ==
  /\ Vertices[Len(hops)] = v
  /\ \E tree \in [1..Len(hops) -> ResilientTrees] : Crossed(Vertices, tree)

PathInv ==
  /\ RowsBegin
  /\ status \in {"build", "ready", "idle"} => hops = << >> /\ v = src
  /\ status # "build" => HopsTaken

(* The switches of the packet's path are its Vertices.                     *)
LEMMA WayChosen ==
  ASSUME NEW u, NEW h \in Seq(E), NEW f, f = CHOOSE g : IsWay(u, h, g)
  PROVE  IsWay(u, h, f)
<1>1. \E g : IsWay(u, h, g)
  BY WayExists
<1> QED BY <1>1

(* Rows of either kind begin with the current tree.                        *)
LEMMA MarkedBegins ==
  ASSUME NEW n \in Nat, NEW trees \in [1..n -> Trees]
  PROVE  n >= 1 => Begins(trees[1], Marked(trees))
<1>1. Len(trees) = n
  BY FunctionIsSequence
<1> DEFINE row == Marked(trees)
<1>2. DOMAIN row = 1..n
  BY <1>1 DEF Marked
<1>3. \A i \in 1..n : row[i].up = trees[i]
                      /\ row[i].mark = {trees[j] : j \in 1..(i - 1)}
  BY <1>1 DEF Marked
<1> HIDE DEF row
<1>4. ASSUME NEW i \in 1..n PROVE row[i].up = trees[1] \/ trees[1] \in row[i].mark
  <2>1. i = 1 \/ 1 \in 1..(i - 1)
    OBVIOUS
  <2> QED BY <1>3, <2>1
<1>5. Begins(trees[1], row)
  BY <1>2, <1>4 DEF Begins
<1> QED BY <1>5 DEF row

(* So do the rows of edst_fwdtable_normal.                                 *)
LEMMA EdstRowBegins ==
  ASSUME NEW len, NEW s \in Orders(len), NEW t \in Trees
  PROVE  Begins(t, EdstRow(t, s))
<1> DEFINE n == NumRes
<1>1. /\ n \in Nat
      /\ s \in [1..n -> ResilientTrees]
      /\ \A u \in ResilientTrees : \E i \in 1..n : s[i] = u
  BY OrderCovers
<1> HIDE DEF n
<1>2. CASE t \in DefaultTrees
  <2> DEFINE trees == [i \in 1..(n + 1) |-> IF i = 1 THEN t ELSE s[i - 1]]
  <2>1. \A i \in 1..(n + 1) : i # 1 => i - 1 \in 1..n
    BY <1>1
  <2>2. trees \in [1..(n + 1) -> Trees] /\ trees[1] = t /\ n + 1 \in Nat /\ n + 1 >= 1
    BY <1>1, <2>1 DEF Trees
  <2>3. EdstRow(t, s) = Marked(trees)
    BY <1>2 DEF EdstRow, n
  <2> HIDE DEF trees
  <2> QED BY <2>2, <2>3, MarkedBegins
<1>3. CASE t \notin DefaultTrees
  <2> DEFINE at    == CHOOSE i \in 1..n : s[i] = t
             trees == [i \in 1..n |->
                         IF i = 1 THEN t ELSE IF i <= at THEN s[i - 1] ELSE s[i]]
  <2>1. t \in ResilientTrees
    BY <1>3 DEF Trees
  <2>2. at \in 1..n /\ s[at] = t
    BY <1>1, <2>1
  <2>3. EdstRow(t, s) = Marked(trees)
    BY <1>3 DEF EdstRow, n
  <2> HIDE DEF at
  <2>4. \A i \in 1..n : i # 1 => i - 1 \in 1..n
    BY <1>1
  <2>5. trees \in [1..n -> Trees] /\ trees[1] = t /\ n >= 1
    BY <1>1, <2>1, <2>2, <2>4 DEF Trees
  <2> HIDE DEF trees
  <2> QED BY <1>1, <2>3, <2>5, MarkedBegins
<1> QED BY <1>2, <1>3

(* And those of adst_fwdtable.                                             *)
LEMMA OrderedBegins ==
  ASSUME NEW c, NEW n \in Nat, NEW row, DOMAIN row = 1..n, RowOrdered(c, row)
  PROVE  Begins(c, row)
<1>1. row[1].up = c
  BY DEF RowOrdered
<1>2. \A i \in 1..n : row[i].mark = {row[j].up : j \in 1..(i - 1)}
  BY DEF RowOrdered
<1>3. ASSUME NEW i \in 1..n PROVE row[i].up = c \/ c \in row[i].mark
  <2>1. i = 1 \/ 1 \in 1..(i - 1)
    OBVIOUS
  <2> QED BY <1>1, <1>2, <2>1
<1> QED BY <1>3 DEF Begins

(* Every row that is built begins with its tree.                           *)
LEMMA RowsBuiltBegin ==
  ASSUME ForestStays, BuildTables
  PROVE  RowsBegin'
<1>1. PICK s \in [Sources -> UNION {Orders([u \in Trees |-> lens'[u][x]]) : x \in Sources}] :
        /\ \A x \in Sources : s[x] \in Orders([u \in Trees |-> lens'[u][x]])
        /\ rows' = [x \in Sources |-> [u \in Trees |-> RowOf(Model, nh, x, u, s[x])]]
  BY DEF BuildTables
<1>2. ASSUME NEW w \in Sources, NEW c \in Trees
      PROVE  Begins(c, rows'[w][c])
  <2>1. /\ rows'[w][c] = RowOf(Model, nh, w, c, s[w])
        /\ s[w] \in Orders([u \in Trees |-> lens'[u][w]])
    BY <1>1
  <2>2. CASE Model = "edst"
    BY <2>1, <2>2, EdstRowBegins DEF RowOf
  <2>3. CASE Model = "adst"
    <3>1. PICK row : row = AdstRow(nh, w, c, s[w])
      OBVIOUS
    <3>2. OneReverse(nh, w)
      BY <2>3, ReversesUnique DEF ForestStays
    <3>3. RowOrdered(c, row) /\ row \in Seq(Entries)
      BY <2>1, <3>1, <3>2, AdstRowShape, AdstRowOffers
    <3>4. DOMAIN row = 1..Len(row) /\ Len(row) \in Nat
      BY <3>3
    <3>5. Begins(c, row)
      BY <3>3, <3>4, OrderedBegins
    <3> QED BY <2>1, <2>3, <3>1, <3>5 DEF RowOf
  <2> QED BY <2>2, <2>3, WalkAssumption
<1> QED BY <1>2 DEF RowsBegin, Begins

(* The entry that forwards the packet: its tree is not marked, and either  *)
(* it is the current tree or it marks the current tree.                    *)
LEMMA EntryTaken ==
  ASSUME IInv, RowsBegin, Forward, DefaultTrees = {}
  PROVE  \E next \in ResilientTrees :
           /\ next \notin failed_trees
           /\ v' = Other(v, nh[next][v]) /\ hops' = Append(hops, nh[next][v])
           /\ ctree' = next
           /\ failed_trees \subseteq failed_trees'
           /\ next = ctree \/ ctree \in failed_trees'
<1>1. /\ status = "walking" /\ v \in Sources /\ ctree \in Trees
      /\ OffersAll(Row)
  BY DEF Forward, Walking, IInv, HeadersRight, PacketPlaced, Sources, RowsOffer, Row
<1>2. PICK i \in DOMAIN Row :
        /\ Matches(Row[i])
        /\ v' = Other(v, nh[Row[i].up][v])
        /\ hops' = Append(hops, nh[Row[i].up][v])
        /\ ctree' = Row[i].up
        /\ failed_trees' = failed_trees \cup Row[i].mark
  BY DEF Forward, Matching
<1>3. Row[i].up \in ResilientTrees
  BY <1>1, <1>2 DEF OffersAll, Trees
<1>4. Row[i].up = ctree \/ ctree \in Row[i].mark
  BY <1>1 DEF RowsBegin, Begins, Row
<1>5. Row[i].up \notin failed_trees
  BY <1>2 DEF Matches
<1> QED BY <1>2, <1>3, <1>4, <1>5, SMTT(30)

(* The hop taken is on no tree that was left, and on the current one only  *)
(* at a new switch.                                                        *)
LEMMA ForwardPath ==
  ASSUME IInv, PathInv, Forward, DefaultTrees = {}
  PROVE  HopsTaken'
<1>1. /\ status = "walking" /\ v \in Sources /\ ForestStays /\ hops \in Seq(E)
      /\ src' = src /\ nh' = nh
  BY DEF Forward, Walking, IInv, TypeOK, HeadersRight, PacketPlaced, Sources, tables, round
<1>2. PICK next \in ResilientTrees :
           /\ next \notin failed_trees
           /\ v' = Other(v, nh[next][v]) /\ hops' = Append(hops, nh[next][v])
           /\ ctree' = next
           /\ failed_trees \subseteq failed_trees'
           /\ next = ctree \/ ctree \in failed_trees'
  BY EntryTaken DEF PathInv
<1>3. PICK n \in Nat : n = Len(hops)
  BY <1>1
<1>4. PICK edge : edge = nh[next][v]
  OBVIOUS
<1>5. edge \in E /\ v \in Ends[edge] /\ next \in Trees
  BY <1>1, <1>2, <1>4, FirstEdge DEF Trees
<1>6. PICK f : f = Vertices
  OBVIOUS
<1>7. PICK g : g = Vertices'
  OBVIOUS
<1>8. IsWay(src, hops, f)
  <2>1. f = CHOOSE h : IsWay(src, hops, h)
    BY <1>6 DEF Vertices, IsWay
  <2> QED BY <1>1, <2>1, WayChosen
<1>9. IsWay(src, Append(hops, edge), g)
  <2>1. g = CHOOSE h : IsWay(src, Append(hops, edge), h)
    BY <1>1, <1>2, <1>4, <1>7 DEF Vertices, IsWay
  <2>2. Append(hops, edge) \in Seq(E)
    BY <1>1, <1>5
  <2> QED BY <2>1, <2>2, WayChosen
<1>10. /\ \A k \in 0..n : g[k] = f[k]
       /\ g[n + 1] = Other(f[n], edge)
  BY <1>1, <1>3, <1>5, <1>8, <1>9, WayLonger
<1>11. PICK tree \in [1..n -> ResilientTrees] : Crossed(f, tree)
  BY <1>1, <1>3, <1>6 DEF PathInv, HopsTaken
<1>12. f[n] = v
  BY <1>1, <1>3, <1>6 DEF PathInv, HopsTaken
<1>13. /\ Len(hops') = n + 1 /\ hops'[n + 1] = edge
       /\ \A k \in 1..n : hops'[k] = hops[k]
  BY <1>1, <1>2, <1>3, <1>4, <1>5
<1> DEFINE longer == [k \in 1..(n + 1) |-> IF k = n + 1 THEN next ELSE tree[k]]
<1>14. /\ longer \in [1..(n + 1) -> ResilientTrees] /\ longer[n + 1] = next
       /\ \A k \in 1..n : longer[k] = tree[k]
  <2>1. \A k \in 1..(n + 1) : k # n + 1 => k \in 1..n
    OBVIOUS
  <2>2. n + 1 \in 1..(n + 1) /\ \A k \in 1..n : k # n + 1 /\ k \in 1..(n + 1)
    OBVIOUS
  <2> QED BY <2>1, <2>2
<1>15. PICK on : on = longer
  OBVIOUS
<1>16. /\ on \in [1..(n + 1) -> ResilientTrees] /\ on[n + 1] = next
       /\ \A k \in 1..n : on[k] = tree[k]
  BY <1>14, <1>15
<1> HIDE DEF longer
<1>17. \A k \in 1..n :
         /\ f[k - 1] \in Sources /\ hops[k] = nh[tree[k]][f[k - 1]]
         /\ f[k] = Other(f[k - 1], hops[k])
         /\ \/ tree[k] \in failed_trees
            \/ tree[k] = ctree /\ NeverMeets(nh[ctree], v, f[k - 1])
  BY <1>3, <1>11 DEF Crossed
<1>18. \A k, l \in 1..n : k # l => <<f[k - 1], tree[k]>> # <<f[l - 1], tree[l]>>
  BY <1>3, <1>11 DEF Crossed
<1>19. ASSUME NEW k \in 1..n
       PROVE  /\ k \in 0..n /\ k - 1 \in 0..n /\ g[k] = f[k] /\ g[k - 1] = f[k - 1]
              /\ on[k] = tree[k] /\ hops'[k] = hops[k]
  <2>1. k \in 0..n /\ k - 1 \in 0..n
    OBVIOUS
  <2> QED BY <1>10, <1>13, <1>16, <2>1
<1>20. g[n] = v /\ (n + 1) - 1 = n
  BY <1>10, <1>12
<1>21. ASSUME NEW k \in 1..(n + 1)
       PROVE  /\ g[k - 1] \in Sources /\ hops'[k] = nh[on[k]][g[k - 1]]
              /\ g[k] = Other(g[k - 1], hops'[k])
              /\ \/ on[k] \in failed_trees'
                 \/ on[k] = ctree' /\ NeverMeets(nh[ctree'], v', g[k - 1])
  <2>1. CASE k = n + 1
    <3>1. nh[next] \in Branchings
      BY <1>1, <1>5 DEF ForestStays
    <3>2. NeverMeets(nh[next], Other(v, nh[next][v]), v)
      BY <1>1, <3>1, NoWayBack
    <3>3. g[k - 1] = v /\ on[k] = next /\ hops'[k] = edge /\ g[k] = Other(v, edge)
      BY <1>10, <1>12, <1>13, <1>16, <1>20, <2>1
    <3> QED BY <1>1, <1>2, <1>4, <3>2, <3>3
  <2>2. CASE k # n + 1
    <3>1. k \in 1..n
      BY <2>2
    <3>2. /\ g[k] = f[k] /\ g[k - 1] = f[k - 1]
          /\ on[k] = tree[k] /\ hops'[k] = hops[k]
      BY <1>19, <3>1
    <3>3. CASE tree[k] \in failed_trees
      BY <1>2, <1>17, <3>1, <3>2, <3>3
    <3>4. CASE tree[k] = ctree /\ NeverMeets(nh[ctree], v, f[k - 1])
      <4>1. CASE next = ctree
        <5>1. NeverMeets(nh[next], Other(v, nh[next][v]), f[k - 1])
          BY <1>1, <3>4, <4>1, NeverMeetsOn
        <5> QED BY <1>2, <1>17, <3>1, <3>2, <3>4, <4>1, <5>1
      <4>2. CASE ctree \in failed_trees'
        BY <1>17, <3>1, <3>2, <3>4, <4>2
      <4> QED BY <1>2, <4>1, <4>2
    <3> QED BY <1>17, <3>1, <3>3, <3>4
  <2> QED BY <2>1, <2>2
<1>22. ASSUME NEW k \in 1..n
       PROVE  <<f[k - 1], tree[k]>> # <<v, next>>
  <2>1. tree[k] \in failed_trees \/ NeverMeets(nh[ctree], v, f[k - 1])
    BY <1>17
  <2>2. CASE tree[k] \in failed_trees
    BY <1>2, <2>2
  <2>3. CASE NeverMeets(nh[ctree], v, f[k - 1])
    <3>1. v # f[k - 1]
      BY <2>3 DEF NeverMeets
    <3> QED BY <3>1
  <2> QED BY <2>1, <2>2, <2>3
<1>23. ASSUME NEW k \in 1..(n + 1), NEW l \in 1..(n + 1), k # l
       PROVE  <<g[k - 1], on[k]>> # <<g[l - 1], on[l]>>
  <2>1. (k = n + 1 \/ k \in 1..n) /\ (l = n + 1 \/ l \in 1..n)
    OBVIOUS
  <2>2. k = n + 1 => <<g[k - 1], on[k]>> = <<v, next>>
    BY <1>16, <1>20
  <2>3. l = n + 1 => <<g[l - 1], on[l]>> = <<v, next>>
    BY <1>16, <1>20
  <2>4. k \in 1..n => <<g[k - 1], on[k]>> = <<f[k - 1], tree[k]>>
    BY <1>19
  <2>5. l \in 1..n => <<g[l - 1], on[l]>> = <<f[l - 1], tree[l]>>
    BY <1>19
  <2>6. CASE k \in 1..n /\ l \in 1..n
    BY <1>18, <1>23, <2>4, <2>5, <2>6
  <2>7. CASE k = n + 1 /\ l \in 1..n
    BY <1>22, <2>2, <2>5, <2>7
  <2>8. CASE k \in 1..n /\ l = n + 1
    BY <1>22, <2>3, <2>4, <2>8
  <2> QED BY <1>23, <2>1, <2>6, <2>7, <2>8
<1>24. Crossed(g, on)'
  BY <1>1, <1>13, <1>21, <1>23 DEF Crossed
<1>25. g[n + 1] = v'
  BY <1>2, <1>4, <1>10, <1>12
<1> QED BY <1>7, <1>13, <1>16, <1>24, <1>25 DEF HopsTaken

(* A packet that has not moved is where its flow starts.                   *)
LEMMA NoHopsTaken ==
  ASSUME hops' = << >>, v' = src'
  PROVE  HopsTaken'
<1>1. Len(hops') = 0 /\ hops' \in Seq(E)
  OBVIOUS
<1>2. PICK g : g = Vertices'
  OBVIOUS
<1>3. g = CHOOSE h : IsWay(src', hops', h)
  BY <1>2 DEF Vertices, IsWay
<1>4. IsWay(src', hops', g)
  BY <1>1, <1>3, WayChosen
<1>5. g[0] = src'
  BY <1>1, <1>4, WaySteps, ZenonT(30)
<1>6. PICK none : none = [k \in 1..0 |-> {}]
  OBVIOUS
<1>7. none \in [1..0 -> ResilientTrees]
  BY <1>6
<1>8. Crossed(g, none)'
  <2>1. 1..0 = {}
    OBVIOUS
  <2> QED BY <1>1, <2>1 DEF Crossed
<1> QED BY <1>1, <1>2, <1>5, <1>7, <1>8 DEF HopsTaken

(* A packet that does not move has the same path, with its marks.          *)
LEMMA HopsStay ==
  ASSUME HopsTaken, UNCHANGED <<nh, src, v, ctree, failed_trees, hops>>
  PROVE  HopsTaken'
BY SMTT(30) DEF HopsTaken, Crossed, Vertices

(* Each step keeps the record of the hops.                                 *)
LEMMA PathInvStays ==
  ASSUME DefaultTrees = {}, IInv, PathInv, [Next]_vars
  PROVE  PathInv'
<1> USE DEF PathInv
<1>1. CASE BuildTables
  <2>1. RowsBegin'
    BY <1>1, RowsBuiltBegin DEF IInv, HeadersRight
  <2>2. hops' = << >> /\ v' = src'
    BY <1>1 DEF BuildTables, round, packet
  <2> QED BY <2>1, <2>2, NoHopsTaken
<1>2. ASSUME UNCHANGED tables, status # "build"
      PROVE  RowsBegin'
  BY <1>2 DEF RowsBegin, Begins, tables
<1>3. CASE StartRound
  <2>1. RowsBegin' /\ hops' = << >> /\ v' = src'
    BY <1>2, <1>3 DEF StartRound
  <2> QED BY <2>1, NoHopsTaken
<1>4. CASE SameSwitch
  <2>1. RowsBegin' /\ status' = "delivered"
    BY <1>2, <1>4 DEF SameSwitch
  <2>2. HopsTaken'
    BY <1>4, HopsStay DEF SameSwitch, tables, round
  <2> QED BY <2>1, <2>2
<1>5. CASE Start
  <2>1. RowsBegin' /\ status' \in {"dropped", "walking"}
    BY <1>2, <1>5 DEF Start
  <2>2. hops' = << >> /\ v' = src'
    BY <1>5 DEF Start, round
  <2> QED BY <2>1, <2>2, NoHopsTaken
<1>6. CASE Forward
  <2>1. RowsBegin' /\ status' = "walking"
    BY <1>2, <1>6 DEF Forward, Walking
  <2> QED BY <1>6, <2>1, ForwardPath
<1>7. CASE Drop
  <2>1. RowsBegin' /\ status' = "dropped"
    BY <1>2, <1>7 DEF Drop, Walking
  <2>2. HopsTaken'
    BY <1>7, HopsStay DEF Drop, Walking, tables, round
  <2> QED BY <2>1, <2>2
<1>8. CASE Arrive
  <2>1. RowsBegin' /\ status' = "delivered"
    BY <1>2, <1>8 DEF Arrive
  <2>2. HopsTaken'
    BY <1>8, HopsStay DEF Arrive, tables, round
  <2> QED BY <2>1, <2>2
<1>9. CASE UNCHANGED vars
  <2>1. RowsBegin' /\ (status' # "build" => HopsTaken')
    <3>1. UNCHANGED <<nh, rows, src, v, ctree, failed_trees, hops, status>>
      BY <1>9 DEF vars, tables, round, packet
    <3>2. RowsBegin'
      BY <3>1 DEF RowsBegin, Begins
    <3>3. status' # "build" => HopsTaken'
      BY <3>1, HopsStay
    <3> QED BY <3>2, <3>3
  <2> QED BY <1>9, <2>1 DEF vars, packet, round
<1> QED BY <1>1, <1>3, <1>4, <1>5, <1>6, <1>7, <1>8, <1>9 DEF Next

(* Two hops over one link the same way would be two hops of one tree from  *)
(* one switch.                                                             *)
LEMMA HopsDiffer ==
  ASSUME IInv, HopsTaken
  PROVE  NoArcTwice
<1> SUFFICES ASSUME NEW i \in DOMAIN hops, NEW j \in DOMAIN hops, i # j,
                    <<Vertices[i], hops[i]>> = <<Vertices[j], hops[j]>>
             PROVE  FALSE
  BY DEF NoArcTwice
<1>1. hops \in Seq(E) /\ ForestStays
  BY DEF IInv, TypeOK, HeadersRight
<1>2. i \in 1..Len(hops) /\ j \in 1..Len(hops)
  BY <1>1
<1>3. PICK at : at = Vertices
  OBVIOUS
<1>4. PICK tree \in [1..Len(hops) -> ResilientTrees] : Crossed(at, tree)
  BY <1>3 DEF HopsTaken
<1>5. /\ at[i - 1] \in Sources /\ hops[i] = nh[tree[i]][at[i - 1]]
      /\ at[i] = Other(at[i - 1], hops[i])
      /\ at[j - 1] \in Sources /\ hops[j] = nh[tree[j]][at[j - 1]]
      /\ at[j] = Other(at[j - 1], hops[j])
      /\ <<at[i - 1], tree[i]>> # <<at[j - 1], tree[j]>>
  BY <1>2, <1>4 DEF Crossed
<1>6. tree[i] \in Trees /\ tree[j] \in Trees /\ tree[i] \in ResilientTrees /\ tree[j] \in ResilientTrees
  BY <1>2, <1>4 DEF Trees
<1>7. at[i] = at[j] /\ hops[i] = hops[j]
  BY <1>3
<1>8. /\ hops[i] \in E /\ at[i - 1] \in Ends[hops[i]]
      /\ hops[j] \in E /\ at[j - 1] \in Ends[hops[j]]
  BY <1>1, <1>5, <1>6, FirstEdge
<1>9. at[i - 1] = Other(at[i], hops[i]) /\ at[j - 1] = Other(at[j], hops[j])
  <2>1. Other(Other(at[i - 1], hops[i]), hops[i]) = at[i - 1]
    BY <1>8, OtherEnd, Zenon
  <2>2. Other(Other(at[j - 1], hops[j]), hops[j]) = at[j - 1]
    BY <1>8, OtherEnd, Zenon
  <2> QED BY <1>5, <2>1, <2>2, Zenon
<1>10. at[i - 1] = at[j - 1]
  BY <1>7, <1>9
<1>11. tree[i] = tree[j]
  BY <1>1, <1>5, <1>6, <1>7, <1>10, ZenonT(30) DEF ForestStays, EdgeDisjoint, ArcDisjoint
<1> QED BY <1>5, <1>10, <1>11

(* Without default trees, whose cables are anybody's, no walk uses a link  *)
(* twice the same way, however often it changes trees and whatever tables  *)
(* it meets: a tree that was left is marked for good, and the current one  *)
(* does not come back to a switch it has passed                            *)
(* (fwdtable_walk_path_internal, mark_failed).                             *)
THEOREM NoLinkTwice ==
  ASSUME DefaultTrees = {}
  PROVE  Spec => []NoArcTwice
<1>1. Init => PathInv
  BY DEF Init, PathInv, RowsBegin
<1>2. IInv /\ PathInv /\ [Next]_vars => PathInv'
  BY PathInvStays
<1>3. IInv /\ PathInv => NoArcTwice
  <2> SUFFICES ASSUME IInv, PathInv PROVE NoArcTwice
    OBVIOUS
  <2>1. CASE status = "build"
    <3>1. DOMAIN hops = {}
      BY <2>1 DEF PathInv
    <3> QED BY <3>1 DEF NoArcTwice
  <2>2. CASE status # "build"
    BY <2>2, HopsDiffer DEF PathInv
  <2> QED BY <2>1, <2>2
<1> QED BY <1>1, <1>2, <1>3, WalkInvariant, PTL DEF Spec
=============================================================================

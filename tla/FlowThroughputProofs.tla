------------------------ MODULE FlowThroughputProofs ------------------------
(***************************************************************************)
(* For every set of ports and flows, every choice of paths and every       *)
(* capacity: no port is given away twice, and rates are given in rising    *)
(* order.                                                                  *)
(***************************************************************************)
EXTENDS FlowThroughput, FiniteSetTheorems, TLAPS

-----------------------------------------------------------------------------
(* Arithmetic of an equal share.                                           *)

LEMMA DivBelow ==
  ASSUME NEW a \in Nat, NEW m \in Nat \ {0}
  PROVE  a \div m \in Nat /\ (a \div m) * m <= a
OBVIOUS

(* What fits m times into a is at most the quotient.                       *)
LEMMA DivAbove ==
  ASSUME NEW a \in Nat, NEW m \in Nat \ {0}, NEW r \in Nat, r * m <= a
  PROVE  r <= a \div m
OBVIOUS

(* A port that could give each of its m flows at least r still can after   *)
(* k of them got r.                                                        *)
LEMMA Share ==
  ASSUME NEW u \in 0..Cap, NEW m \in Nat \ {0}, NEW k \in 0..m, NEW r \in Nat,
         r <= (Cap - u) \div m
  PROVE  /\ u + r * k \in 0..Cap
         /\ k < m => r <= (Cap - (u + r * k)) \div (m - k)
<1>0. Cap \in Nat
  BY FlowAssumption
<1>1. ((Cap - u) \div m) * m <= Cap - u /\ (Cap - u) \div m \in Nat
  BY <1>0, DivBelow
<1>2. r * m <= Cap - u
  BY <1>0, <1>1
<1>3. r * k <= r * m /\ r * k \in Nat /\ r * m \in Nat
  OBVIOUS
<1>4. u + r * k \in 0..Cap
  BY <1>0, <1>2, <1>3
<1>5. ASSUME k < m PROVE r <= (Cap - (u + r * k)) \div (m - k)
  <2>1. r * (m - k) = r * m - r * k
    OBVIOUS
  <2>2. r * (m - k) <= Cap - (u + r * k)
    BY <1>0, <1>2, <1>3, <2>1
  <2>3. Cap - (u + r * k) \in Nat /\ m - k \in Nat \ {0}
    BY <1>0, <1>3, <1>4, <1>5
  <2> QED  BY <2>2, <2>3, DivAbove
<1> QED  BY <1>4, <1>5

(* Flows on a port are finitely many.                                      *)
LEMMA FlowsFinite ==
  ASSUME NEW S \in SUBSET Flow
  PROVE  /\ IsFiniteSet(S)
         /\ Cardinality(S) \in Nat
         /\ S # {} => Cardinality(S) # 0
BY FlowAssumption, FS_Subset, FS_CardinalityType, FS_EmptySet

(* What a port offers its flows.                                           *)
LEMMA FlowRateType ==
  ASSUME NEW p \in Port, NEW u \in [Port -> Nat], u[p] <= Cap,
         NEW fs \in [Port -> SUBSET Flow]
  PROVE  FlowRate(p, u, fs) \in Nat
<1>1. CASE fs[p] = {}
  BY <1>1 DEF FlowRate
<1>2. CASE fs[p] # {}
  <2>1. Cardinality(fs[p]) \in Nat \ {0}
    BY <1>2, FlowsFinite
  <2>2. Cap - u[p] \in Nat
    BY FlowAssumption
  <2> QED  BY <1>2, <2>1, <2>2, DivBelow DEF FlowRate
<1> QED  BY <1>1, <1>2

-----------------------------------------------------------------------------
(* A fresh start, at Init and for the second path model.                   *)

LEMMA FreshStart ==
  ASSUME NEW routes \in [Flow -> SUBSET Port]
  PROVE  /\ FlowsOn(routes) \in [Port -> SUBSET Flow]
         /\ Idle \in [Port -> Nat]
         /\ \A p \in Port : Idle[p] <= Cap
         /\ \A p \in Port : FlowRate(p, Idle, FlowsOn(routes)) \in Nat
<1>1. /\ FlowsOn(routes) \in [Port -> SUBSET Flow]
      /\ Idle \in [Port -> Nat]
      /\ \A p \in Port : Idle[p] <= Cap
  BY FlowAssumption DEF FlowsOn, Idle
<1> QED  BY <1>1, FlowRateType

(* The first evaluation starts with fresh ports.                           *)
LEMMA InitAccounted == Init => Accounted
<1> SUFFICES ASSUME Init PROVE Accounted
  OBVIOUS
<1>1. ports \in [Flow -> SUBSET Port]
  BY FlowAssumption DEF Init
<1>2. TypeOK
  BY <1>1, FreshStart DEF Init, TypeOK
<1>3. CapacityKept
  BY <1>1, FreshStart DEF Init, CapacityKept
<1>4. OnAllOrNone
  BY <1>1 DEF Init, OnAllOrNone, FlowsOn
<1>5. QueueCurrent
  <2>1. \A p \in Port : portpq[p] = FlowRate(p, used, flows) /\ portpq[p] \in Nat
    BY <1>1, FreshStart DEF Init
  <2> QED  BY <2>1, FlowAssumption DEF QueueCurrent
<1>6. RatesBelow
  BY <1>1, FreshStart DEF Init, RatesBelow
<1> QED  BY <1>2, <1>3, <1>4, <1>5, <1>6 DEF Accounted

(* The second evaluation starts as the first one did.                      *)
LEMMA NextModelAccounted == Accounted /\ NextModel => Accounted'
<1> SUFFICES ASSUME Accounted, NextModel PROVE Accounted'
  OBVIOUS
<1>1. ports' \in [Flow -> SUBSET Port]
  BY FlowAssumption DEF NextModel
<1>2. TypeOK'
  BY <1>1, FreshStart DEF NextModel, TypeOK
<1>3. CapacityKept'
  BY <1>1, FreshStart DEF NextModel, CapacityKept
<1>4. OnAllOrNone'
  BY <1>1 DEF NextModel, OnAllOrNone, FlowsOn
<1>5. QueueCurrent'
  <2>1. \A p \in Port : portpq'[p] = FlowRate(p, used', flows') /\ portpq'[p] \in Nat
    BY <1>1, FreshStart DEF NextModel
  <2> QED  BY <2>1, FlowAssumption DEF QueueCurrent
<1>6. RatesBelow'
  BY <1>1, FreshStart DEF NextModel, RatesBelow
<1> QED  BY <1>2, <1>3, <1>4, <1>5, <1>6 DEF Accounted

-----------------------------------------------------------------------------
(* The two steps of the loop.                                              *)

LEMMA PopAccounted ==
  ASSUME Accounted, NEW p \in Port, Pop(p)
  PROVE  Accounted'
<1>1. TypeOK'
  BY DEF Accounted, TypeOK, Pop
<1>2. QueueCurrent'
  <2>1. ASSUME NEW q \in Port
        PROVE  /\ portpq'[q] # Absent => portpq'[q] = FlowRate(q, used, flows)
               /\ portpq'[q] = Absent => flows[q] = {}
    BY DEF Accounted, TypeOK, QueueCurrent, Pop
  <2> QED  BY <2>1 DEF QueueCurrent, Pop, FlowRate
<1> QED  BY <1>1, <1>2 DEF Accounted, CapacityKept, OnAllOrNone, RatesBelow, Pop, FlowRate

(* The popped port offers least of all ports that have flows left.         *)
LEMMA PoppedIsLeast ==
  ASSUME Accounted, NEW p \in Port, Assign(p), NEW q \in Port, flows[q] # {}
  PROVE  FlowRate(p, used, flows) <= FlowRate(q, used, flows)
<1>1. p \in PQ!Present /\ q \in PQ!Present
  BY DEF Assign, Accounted, QueueCurrent, PQ!Lowest, PQ!Present
<1>2. portpq[p] <= portpq[q]
  BY <1>1 DEF Assign, PQ!Lowest
<1> QED  BY <1>1, <1>2 DEF Accounted, QueueCurrent, PQ!Present

(* What one assignment does to a port: k of its m flows get the rate.      *)
LEMMA AssignShares ==
  ASSUME Accounted, NEW p \in Port, Assign(p), NEW q \in Port
  PROVE  LET r == FlowRate(p, used, flows)
         IN  /\ r \in Nat
             /\ used'[q] \in 0..Cap
             /\ flows'[q] = flows[q] \ flows[p]
             /\ flows'[q] # {} => r <= FlowRate(q, used', flows')
<1> DEFINE r == FlowRate(p, used, flows)
           S == {f \in flows[p] : q \in ports[f]}
<1>1. r \in Nat
  BY FlowRateType DEF Accounted, TypeOK, CapacityKept
<1>2. /\ used'[q] = used[q] + r * Cardinality(S)
      /\ flows'[q] = flows[q] \ flows[p]
      /\ flows[p] \in SUBSET Flow /\ flows[q] \in SUBSET Flow
      /\ used[q] \in 0..Cap
  BY FlowAssumption DEF Assign, Charged, Accounted, TypeOK, CapacityKept
<1>3. S = flows[q] \cap flows[p]
  <2>1. ASSUME NEW f \in S PROVE f \in flows[q]
    BY <1>2, <2>1 DEF Accounted, OnAllOrNone
  <2>2. ASSUME NEW f \in flows[q], f \in flows[p] PROVE q \in ports[f]
    BY DEF Accounted, OnAllOrNone
  <2> QED  BY <2>1, <2>2
<1>4. /\ IsFiniteSet(flows[q])
      /\ Cardinality(flows'[q]) = Cardinality(flows[q]) - Cardinality(S)
      /\ Cardinality(flows[q]) \in Nat /\ Cardinality(S) \in Nat
      /\ Cardinality(flows'[q]) \in Nat
  <2>1. IsFiniteSet(flows[q]) /\ IsFiniteSet(flows[p])
    BY <1>2, FlowsFinite
  <2>2. Cardinality(flows[q] \ flows[p])
          = Cardinality(flows[q]) - Cardinality(flows[q] \cap flows[p])
    BY <2>1, FS_Difference
  <2>3. S \in SUBSET Flow /\ flows'[q] \in SUBSET Flow
    BY <1>2, <1>3
  <2> QED  BY <1>2, <1>3, <2>1, <2>2, <2>3, FlowsFinite
<1>5. CASE flows[q] = {}
  <2>1. S = {} /\ Cardinality(S) = 0
    BY <1>3, <1>5, FS_EmptySet
  <2>2. used'[q] = used[q] /\ flows'[q] = {}
    BY <1>1, <1>2, <1>5, <2>1
  <2> QED  BY <1>1, <1>2, <1>5, <2>2
<1>6. CASE flows[q] # {}
  <2>1. Cardinality(flows[q]) \in Nat \ {0}
    BY <1>2, <1>6, FlowsFinite
  <2>2. r <= (Cap - used[q]) \div Cardinality(flows[q])
    BY <1>6, PoppedIsLeast DEF FlowRate
  <2>3. Cardinality(S) \in 0..Cardinality(flows[q])
    BY <1>4
  <2>4. /\ used'[q] \in 0..Cap
        /\ Cardinality(S) < Cardinality(flows[q]) =>
             r <= (Cap - used'[q]) \div Cardinality(flows'[q])
    <3> DEFINE m == Cardinality(flows[q])
               k == Cardinality(S)
    <3>1. m \in Nat \ {0} /\ k \in 0..m /\ r <= (Cap - used[q]) \div m
      BY <2>1, <2>2, <2>3
    <3>2. used'[q] = used[q] + r * k /\ Cardinality(flows'[q]) = m - k
      BY <1>2, <1>4
    <3> HIDE DEF m, k, r
    <3>3. /\ used[q] + r * k \in 0..Cap
          /\ k < m => r <= (Cap - (used[q] + r * k)) \div (m - k)
      BY <1>1, <1>2, <3>1, Share
    <3> QED  BY <3>2, <3>3 DEF m, k
  <2>5. ASSUME flows'[q] # {} PROVE r <= FlowRate(q, used', flows')
    <3>1. Cardinality(flows'[q]) # 0
      BY <1>2, <2>5, FlowsFinite
    <3>2. Cardinality(S) < Cardinality(flows[q])
      BY <1>4, <3>1
    <3> QED  BY <2>4, <2>5, <3>2 DEF FlowRate
  <2> QED  BY <1>1, <1>2, <2>4, <2>5
<1> QED  BY <1>5, <1>6

(* Rating the flows of the tightest port.                                  *)
LEMMA AssignAccounted ==
  ASSUME Accounted, NEW p \in Port, Assign(p)
  PROVE  Accounted'
<1> DEFINE r == FlowRate(p, used, flows)
           touched == UNION {ports[f] : f \in flows[p]}
<1>1. /\ r \in Nat
      /\ \A q \in Port : /\ used'[q] \in 0..Cap
                         /\ flows'[q] = flows[q] \ flows[p]
                         /\ flows'[q] # {} => r <= FlowRate(q, used', flows')
  BY AssignShares
<1>2. /\ used' \in [Port -> Nat] /\ \A q \in Port : used'[q] <= Cap
      /\ flows' \in [Port -> SUBSET Flow]
      /\ rate' \in [Flow -> Nat]
      /\ model' = model /\ ports' = ports
  <2>1. used' = [q \in Port |-> used'[q]]
    BY DEF Assign, Charged
  <2>2. flows' \in [Port -> SUBSET Flow] /\ rate' \in [Flow -> Nat]
    BY <1>1 DEF Assign, Accounted, TypeOK
  <2> QED  BY <1>1, <2>1, <2>2, FlowAssumption DEF Assign
<1>3. \A q \in Port : FlowRate(q, used', flows') \in Nat
  BY <1>2, FlowRateType
<1>4. portpq' = Requeued(p, touched)
  BY DEF Assign
<1>5. TypeOK'
  <2>1. portpq' \in [Port -> Nat \cup {Absent}]
    BY <1>3, <1>4 DEF Requeued, Accounted, TypeOK
  <2> QED  BY <1>2, <2>1 DEF Accounted, TypeOK
<1>6. CapacityKept'
  BY <1>2 DEF CapacityKept
<1>7. OnAllOrNone'
  <2>1. \A f \in Flow : ports[f] \subseteq Port
    BY DEF Accounted, TypeOK
  <2> QED  BY <1>1, <1>2, <2>1 DEF Accounted, OnAllOrNone
<1>8. QueueCurrent'
  <2>1. ASSUME NEW q \in Port, q \notin touched
        PROVE  flows'[q] = flows[q] /\ used'[q] = used[q] /\ flows[q] \cap flows[p] = {}
    <3>1. flows[q] \cap flows[p] = {}
      BY <2>1 DEF Accounted, OnAllOrNone
    <3>2. {f \in flows[p] : q \in ports[f]} = {}
      BY <2>1
    <3>3. used'[q] = used[q]
      BY <1>1, <3>2, FS_EmptySet DEF Assign, Charged, Accounted, TypeOK
    <3> QED  BY <1>1, <3>1, <3>3
  <2>2. p \in touched
    BY DEF Assign, Accounted, OnAllOrNone
  <2>3. ASSUME NEW q \in Port
        PROVE  /\ portpq'[q] # Absent => portpq'[q] = FlowRate(q, used', flows')
               /\ portpq'[q] = Absent => flows'[q] = {}
    <3>1. CASE q \in touched
      BY <1>3, <1>4, <3>1, FlowAssumption DEF Requeued
    <3>2. CASE q \notin touched
      <4>1. portpq'[q] = portpq[q]
        BY <1>4, <2>2, <3>2 DEF Requeued
      <4> QED  BY <2>1, <3>2, <4>1 DEF Accounted, QueueCurrent, FlowRate
    <3> QED  BY <3>1, <3>2
  <2> QED  BY <2>3 DEF QueueCurrent
<1>9. RatesBelow'
  <2>1. ASSUME NEW q \in Port, NEW g \in Flow, flows'[q] # {}
        PROVE  rate'[g] <= FlowRate(q, used', flows')
    <3>1. r <= FlowRate(q, used', flows')
      BY <1>1, <2>1
    <3>2. rate[g] <= r
      BY DEF Accounted, RatesBelow, Assign
    <3>3. rate'[g] = r \/ rate'[g] = rate[g]
      BY DEF Assign
    <3> QED  BY <1>1, <1>3, <3>1, <3>2, <3>3 DEF Accounted, TypeOK
  <2> QED  BY <2>1 DEF RatesBelow
<1> QED  BY <1>5, <1>6, <1>7, <1>8, <1>9 DEF Accounted

-----------------------------------------------------------------------------
(* Sums.  The sum over a set is defined by recursion in the order of a     *)
(* CHOOSE; it counts a set of units, whose size can be reasoned about.     *)

SumOf(w, S) == MapThenSumSet(LAMBDA f : w[f], S)

Units(w, S) == UNION {{f} \X (1..w[f]) : f \in S}

LEMMA NatLess == IsWellFoundedOn({p \in Nat \X Nat : p[1] < p[2]}, Nat)
BY NatLessThanWellFounded DEF OpToRel

(* A set of numbers with 0 that is closed under successors is all of Nat.  *)
LEMMA NatSet ==
  ASSUME NEW S, 0 \in S, \A n \in Nat : n \in S => n + 1 \in S
  PROVE  Nat \subseteq S
<1> DEFINE R == {p \in Nat \X Nat : p[1] < p[2]}
<1> SUFFICES ASSUME Nat \ S # {} PROVE FALSE
  OBVIOUS
<1>1. IsWellFoundedOn(R, Nat)
  BY NatLess
<1>2. PICK n \in Nat \ S : \A m \in Nat \ S : <<m, n>> \notin R
  <2> HIDE DEF R
  <2> QED  BY <1>1, WFMin
<1>3. n # 0 /\ n - 1 \in Nat
  BY <1>2
<1>4. <<n - 1, n>> \in R
  BY <1>3
<1> HIDE DEF R
<1>5. n - 1 \in S
  BY <1>2, <1>3, <1>4
<1> QED  BY <1>2, <1>3, <1>5

(* n units of every element of a set.                                      *)
LEMMA EqualUnits ==
  ASSUME NEW S, IsFiniteSet(S), NEW n \in Nat
  PROVE  /\ IsFiniteSet(S \X (1..n))
         /\ Cardinality(S \X (1..n)) = n * Cardinality(S)
<1>1. IsFiniteSet(1..n) /\ Cardinality(1..n) = n
  BY FS_Interval
<1>2. Cardinality(S) \in Nat
  BY FS_CardinalityType
<1> QED  BY <1>1, <1>2, FS_Product

(* Disjoint sets add up.                                                   *)
LEMMA DisjointAdd ==
  ASSUME NEW A, IsFiniteSet(A), NEW B, IsFiniteSet(B), A \cap B = {}
  PROVE  /\ IsFiniteSet(A \cup B)
         /\ Cardinality(A \cup B) = Cardinality(A) + Cardinality(B)
<1>1. Cardinality(A \cap B) = 0
  BY FS_EmptySet
<1>2. Cardinality(A) \in Nat /\ Cardinality(B) \in Nat
  BY FS_CardinalityType
<1>3. /\ IsFiniteSet(A \cup B)
      /\ Cardinality(A \cup B) = Cardinality(A) + Cardinality(B) - Cardinality(A \cap B)
  BY FS_Union
<1> QED  BY <1>1, <1>2, <1>3

(* Units of one element more.                                              *)
LEMMA UnitsStep ==
  ASSUME NEW D, NEW w \in [D -> Nat], NEW S \in SUBSET D, NEW f \in S,
         IsFiniteSet(Units(w, S \ {f}))
  PROVE  /\ IsFiniteSet(Units(w, S))
         /\ Cardinality(Units(w, S)) = w[f] + Cardinality(Units(w, S \ {f}))
<1> DEFINE A == Units(w, S \ {f})
           B == {f} \X (1..w[f])
<1>1. Units(w, S) = A \cup B
  BY DEF Units
<1>2. A \cap B = {}
  BY DEF Units
<1>3. IsFiniteSet({f}) /\ Cardinality({f}) = 1
  BY FS_Singleton
<1>4. IsFiniteSet(B) /\ Cardinality(B) = w[f] * 1
  BY <1>3, EqualUnits
<1>5. w[f] \in Nat /\ Cardinality(A) \in Nat
  BY FS_CardinalityType
<1> HIDE DEF A, B
<1>6. IsFiniteSet(A)
  BY DEF A
<1>7. IsFiniteSet(A \cup B) /\ Cardinality(A \cup B) = Cardinality(A) + Cardinality(B)
  BY <1>2, <1>4, <1>6, DisjointAdd
<1> QED  BY <1>1, <1>4, <1>5, <1>7 DEF A

(* By induction on the number of elements.                                 *)
LEMMA UnitsFinite ==
  ASSUME NEW D, NEW w \in [D -> Nat], NEW S \in SUBSET D, IsFiniteSet(S)
  PROVE  IsFiniteSet(Units(w, S))
<1> DEFINE N == {n \in Nat : \A s \in SUBSET S : Cardinality(s) = n => IsFiniteSet(Units(w, s))}
<1>1. 0 \in N
  <2>1. ASSUME NEW s \in SUBSET S, Cardinality(s) = 0 PROVE IsFiniteSet(Units(w, s))
    <3>1. s = {}
      BY <2>1, FS_Subset, FS_EmptySet
    <3>2. Units(w, s) = {}
      BY <3>1 DEF Units
    <3> QED  BY <3>2, FS_EmptySet
  <2> QED  BY <2>1
<1>2. ASSUME NEW n \in Nat, n \in N PROVE n + 1 \in N
  <2>1. ASSUME NEW s \in SUBSET S, Cardinality(s) = n + 1 PROVE IsFiniteSet(Units(w, s))
    <3>1. IsFiniteSet(s)
      BY FS_Subset
    <3>2. s # {}
      BY <2>1, FS_EmptySet
    <3>3. PICK f \in s : TRUE
      BY <3>2
    <3>4. Cardinality(s \ {f}) = n
      <4>1. IsFiniteSet(s \ {f}) /\ Cardinality(s \ {f}) = Cardinality(s) - 1
        BY <3>1, <3>3, FS_RemoveElement
      <4> QED  BY <2>1, <4>1
    <3>5. IsFiniteSet(Units(w, s \ {f}))
      BY <1>2, <3>4
    <3> QED  BY <3>3, <3>5, UnitsStep
  <2> QED  BY <2>1
<1> HIDE DEF N
<1>3. Cardinality(S) \in N
  BY <1>1, <1>2, NatSet, FS_CardinalityType
<1> QED  BY <1>3 DEF N

(* The sum counts the units, in whatever order it is taken.                *)
LEMMA SumIsCount ==
  ASSUME NEW D, NEW w \in [D -> Nat], NEW S \in SUBSET D, IsFiniteSet(S)
  PROVE  SumOf(w, S) = Cardinality(Units(w, S))
<1> DEFINE el(s)  == CHOOSE f \in s : TRUE
           Eq(g)  == g = [s \in SUBSET S |-> IF s = {} THEN 0 ELSE w[el(s)] + g[s \ {el(s)}]]
           count  == [s \in SUBSET S |-> Cardinality(Units(w, s))]
           iter   == CHOOSE g : Eq(g)
<1>1. \A s \in SUBSET S : s # {} => el(s) \in s
  OBVIOUS
<1>2. \A s \in SUBSET S : s = {} => count[s] = 0
  <2>1. Units(w, {}) = {}
    BY DEF Units
  <2> QED  BY <2>1, FS_EmptySet
<1>3. ASSUME NEW s \in SUBSET S, s # {}
      PROVE  count[s] = w[el(s)] + count[s \ {el(s)}]
  <2>1. IsFiniteSet(s \ {el(s)})
    BY FS_Subset
  <2>2. IsFiniteSet(Units(w, s \ {el(s)}))
    BY <2>1, UnitsFinite
  <2>3. el(s) \in s
    BY <1>1, <1>3
  <2> HIDE DEF el
  <2> QED  BY <2>2, <2>3, UnitsStep
<1>4. Eq(count)
  <2> HIDE DEF el
  <2>1. \A s \in SUBSET S :
          count[s] = IF s = {} THEN 0 ELSE w[el(s)] + count[s \ {el(s)}]
    BY <1>2, <1>3
  <2> HIDE DEF count
  <2>2. count = [s \in SUBSET S |-> count[s]]
    BY DEF count
  <2> QED  BY <2>1, <2>2
<1>5. Eq(iter)
  BY <1>4
<1>6. SumOf(w, S) = iter[S]
  BY DEF SumOf, MapThenSumSet, MapThenFoldSet
<1> HIDE DEF iter, el, count
<1>7. \A s \in SUBSET S :
        iter[s] = IF s = {} THEN 0 ELSE w[el(s)] + iter[s \ {el(s)}]
  BY <1>5
<1> DEFINE N == {n \in Nat : \A s \in SUBSET S : Cardinality(s) = n => iter[s] = count[s]}
<1>8. 0 \in N
  <2>1. ASSUME NEW s \in SUBSET S, Cardinality(s) = 0 PROVE iter[s] = count[s]
    <3>1. s = {}
      BY <2>1, FS_Subset, FS_EmptySet
    <3> QED  BY <1>2, <1>7, <3>1
  <2> QED  BY <2>1
<1>9. ASSUME NEW n \in Nat, n \in N PROVE n + 1 \in N
  <2>1. ASSUME NEW s \in SUBSET S, Cardinality(s) = n + 1 PROVE iter[s] = count[s]
    <3>1. IsFiniteSet(s)
      BY FS_Subset
    <3>2. s # {}
      BY <2>1, FS_EmptySet
    <3>3. Cardinality(s \ {el(s)}) = n /\ s \ {el(s)} \in SUBSET S
      <4>1. IsFiniteSet(s \ {el(s)}) /\ Cardinality(s \ {el(s)}) = Cardinality(s) - 1
        BY <1>1, <3>1, <3>2, FS_RemoveElement
      <4> QED  BY <2>1, <4>1
    <3>4. iter[s \ {el(s)}] = count[s \ {el(s)}]
      BY <1>9, <3>3
    <3> QED  BY <1>3, <1>7, <3>2, <3>4
  <2> QED  BY <2>1
<1> HIDE DEF N
<1>10. Cardinality(S) \in N
  BY <1>8, <1>9, NatSet, FS_CardinalityType
<1>11. iter[S] = count[S]
  BY <1>10 DEF N
<1> QED  BY <1>6, <1>11 DEF count

-----------------------------------------------------------------------------
(* Accounts and sums.                                                      *)

(* A step that gives no rate and moves no flow.                            *)
LEMMA IdleStep ==
  ASSUME UnratedAtZero, UsedIsSum, NearlyFair, UNCHANGED <<ports, flows, used, rate>>
  PROVE  UnratedAtZero' /\ UsedIsSum' /\ NearlyFair'
<1>1. UnratedAtZero'
  BY DEF UnratedAtZero
<1>2. UsedIsSum'
  <2>1. ASSUME NEW p \in Port
        PROVE  used'[p] = SumOf(rate', {f \in Flow : p \in ports'[f]})
    <3>1. PICK w : w = rate /\ w = rate'
      OBVIOUS
    <3>2. PICK S : S = {f \in Flow : p \in ports[f]} /\ S = {f \in Flow : p \in ports'[f]}
      OBVIOUS
    <3>3. SumOf(w, S) = SumOf(rate, {f \in Flow : p \in ports[f]})
      BY <3>1, <3>2 DEF SumOf
    <3>4. SumOf(w, S) = SumOf(rate', {f \in Flow : p \in ports'[f]})
      BY <3>1, <3>2 DEF SumOf
    <3> QED  BY <3>3, <3>4 DEF UsedIsSum, SumOf
  <2> QED  BY <2>1 DEF UsedIsSum, SumOf, MapThenSumSet, MapThenFoldSet
<1>3. NearlyFair'
  BY DEF NearlyFair, Bottleneck, Rated
<1> QED  BY <1>1, <1>2, <1>3

(* Nothing is given away by a fresh start.                                 *)
LEMMA FreshAccounts ==
  ASSUME NEW routes \in [Flow -> SUBSET Port], NEW p \in Port
  PROVE  SumOf([f \in Flow |-> 0], {f \in Flow : p \in routes[f]}) = 0
<1> DEFINE w == [f \in Flow |-> 0]
           S == {f \in Flow : p \in routes[f]}
<1>1. SumOf(w, S) = Cardinality(Units(w, S))
  BY FlowsFinite, SumIsCount
<1>2. Units(w, S) = {}
  <2>1. \A f \in S : w[f] = 0 /\ 1..0 = {}
    OBVIOUS
  <2> HIDE DEF w
  <2> QED  BY <2>1 DEF Units
<1> QED  BY <1>1, <1>2, FS_EmptySet

(* Rates x are rates w, but the given flows get r instead of nothing.      *)
Gives(x, w, given, r) ==
  /\ \A f \in given : w[f] = 0 /\ x[f] = r
  /\ \A f \in Flow \ given : x[f] = w[f]

(* Every flow on the popped port gets r: each port is charged for its own. *)
LEMMA ChargeSum ==
  ASSUME NEW w \in [Flow -> Nat], NEW r \in Nat, NEW On \in SUBSET Flow,
         NEW given \in SUBSET Flow, NEW x \in [Flow -> Nat], Gives(x, w, given, r)
  PROVE  SumOf(x, On) = SumOf(w, On) + Cardinality((On \cap given) \X (1..r))
<1> DEFINE A == Units(w, On)
           B == (On \cap given) \X (1..r)
<1>1. IsFiniteSet(On) /\ IsFiniteSet(On \cap given)
  BY FlowsFinite
<1>2. SumOf(x, On) = Cardinality(Units(x, On)) /\ SumOf(w, On) = Cardinality(A)
  BY <1>1, SumIsCount
<1>3. IsFiniteSet(A)
  BY <1>1, UnitsFinite
<1>4. IsFiniteSet(B)
  BY <1>1, EqualUnits
<1>5. Units(x, On) = A \cup B
  <2>1. \A f \in On \ given : x[f] = w[f]
    BY DEF Gives
  <2>2. \A f \in On \cap given : x[f] = r /\ 1..w[f] = {}
    BY DEF Gives
  <2> QED  BY <2>1, <2>2 DEF Units
<1>6. A \cap B = {}
  <2>1. \A f \in given : 1..w[f] = {}
    BY DEF Gives
  <2> QED  BY <2>1 DEF Units
<1> HIDE DEF A, B
<1>7. Cardinality(A \cup B) = Cardinality(A) + Cardinality(B)
  BY <1>3, <1>4, <1>6, DisjointAdd
<1> QED  BY <1>2, <1>5, <1>7 DEF B

(* The accounts after an assignment.                                       *)
LEMMA AssignSum ==
  ASSUME Accounted, UnratedAtZero, UsedIsSum, NEW p \in Port, Assign(p)
  PROVE  UnratedAtZero' /\ UsedIsSum'
<1> DEFINE r == FlowRate(p, used, flows)
<1>1. /\ r \in Nat
      /\ rate \in [Flow -> Nat]
      /\ flows[p] \in SUBSET Flow
      /\ \A f \in flows[p] : rate[f] = 0
  BY AssignShares DEF Accounted, TypeOK, UnratedAtZero
<1>2. UnratedAtZero'
  <2>1. ASSUME NEW q \in Port, NEW f \in flows'[q] PROVE rate'[f] = 0
    <3>1. f \in Flow /\ f \in flows[q] /\ f \notin flows[p]
      BY <2>1 DEF Assign, Accounted, TypeOK
    <3> QED  BY <3>1 DEF Assign, UnratedAtZero
  <2> QED  BY <2>1 DEF UnratedAtZero
<1>3. ASSUME NEW q \in Port
      PROVE  used'[q] = SumOf(rate', {f \in Flow : q \in ports'[f]})
  <2> DEFINE On == {f \in Flow : q \in ports[f]}
  <2>1. used[q] = SumOf(rate, On)
    BY DEF UsedIsSum, SumOf
  <2>2. PICK w \in [Flow -> Nat] : w = rate
    BY <1>1
  <2>3. PICK n \in Nat : n = r
    BY <1>1
  <2>4. PICK given \in SUBSET Flow : given = flows[p]
    BY <1>1
  <2>5. PICK S \in SUBSET Flow : S = On
    OBVIOUS
  <2>6. PICK x \in [Flow -> Nat] : x = rate'
    BY <1>1 DEF Assign
  <2>7. SumOf(x, S) = SumOf(w, S) + n * Cardinality(S \cap given)
    <3>1. \A f \in given : w[f] = 0
      BY <1>1, <2>2, <2>4
    <3>2. Gives(x, w, given, n)
      BY <2>2, <2>3, <2>4, <2>6, <3>1 DEF Assign, Gives
    <3>3. SumOf(x, S) = SumOf(w, S) + Cardinality((S \cap given) \X (1..n))
      BY <3>2, ChargeSum
    <3>4. Cardinality((S \cap given) \X (1..n)) = n * Cardinality(S \cap given)
      BY FlowsFinite, EqualUnits
    <3> QED  BY <3>3, <3>4
  <2>8. S \cap given = {f \in flows[p] : q \in ports[f]}
    BY <1>1, <2>4, <2>5
  <2>9. used'[q] = used[q] + n * Cardinality(S \cap given)
    BY <2>3, <2>8 DEF Assign, Charged
  <2>10. used[q] = SumOf(w, S)
    BY <2>1, <2>2, <2>5 DEF SumOf
  <2>11. S = {f \in Flow : q \in ports'[f]}
    BY <2>5 DEF Assign
  <2>12. SumOf(rate', {f \in Flow : q \in ports'[f]}) = SumOf(x, S)
    BY <2>6, <2>11 DEF SumOf
  <2> QED  BY <2>7, <2>9, <2>10, <2>12
<1>4. UsedIsSum'
  BY <1>3 DEF UsedIsSum, SumOf, MapThenSumSet, MapThenFoldSet
<1> QED  BY <1>2, <1>4

-----------------------------------------------------------------------------
(* Fairness.                                                               *)

(* Sharing a equally among m leaves less than m over, and nothing at all   *)
(* when m divides a.                                                       *)
LEMMA Rest ==
  ASSUME NEW a \in Nat, NEW m \in Nat \ {0}
  PROVE  /\ a - (a \div m) * m < m
         /\ a % m = 0 => (a \div m) * m = a
OBVIOUS

(* The popped port has been given away but for the rest.                   *)
LEMMA PoppedIsFull ==
  ASSUME Accounted, NEW p \in Port, Assign(p)
  PROVE  /\ flows[p] # {}
         /\ Cap - used'[p] < Cardinality(flows[p])
         /\ (Cap - used[p]) % Cardinality(flows[p]) = 0 => used'[p] = Cap
<1> DEFINE m == Cardinality(flows[p])
           a == Cap - used[p]
<1>1. flows[p] # {} /\ flows[p] \in SUBSET Flow
  BY DEF Assign, Accounted, TypeOK
<1>2. m \in Nat \ {0}
  BY <1>1, FlowsFinite
<1>3. a \in Nat /\ used[p] \in Nat /\ Cap \in Nat
  BY FlowAssumption DEF Accounted, TypeOK, CapacityKept
<1>4. {f \in flows[p] : p \in ports[f]} = flows[p]
  BY DEF Accounted, OnAllOrNone
<1>5. used'[p] = used[p] + (a \div m) * m
  BY <1>1, <1>4 DEF Assign, Charged, FlowRate
<1>6. a - (a \div m) * m < m /\ (a % m = 0 => (a \div m) * m = a)
  BY <1>2, <1>3, Rest
<1>7. (a \div m) * m \in Nat
  BY <1>2, <1>3, DivBelow
<1> HIDE DEF m
<1>8. Cap - used'[p] < m /\ (a % m = 0 => used'[p] = Cap)
  BY <1>3, <1>5, <1>6, <1>7
<1> QED  BY <1>1, <1>8 DEF m

(* The flows of the popped port have it as their bottleneck: whoever was   *)
(* rated before got no more.                                               *)
LEMMA PoppedIsBottleneck ==
  ASSUME Accounted, NEW p \in Port, Assign(p), NEW f \in flows[p]
  PROVE  Bottleneck(f, p)'
<1> DEFINE r == FlowRate(p, used, flows)
<1>1. f \in Flow /\ p \in ports[f] /\ ports' = ports /\ rate'[f] = r
  BY DEF Assign, Accounted, TypeOK, OnAllOrNone
<1>2. r \in Nat
  BY AssignShares
<1>3. ASSUME NEW g \in Flow, p \in ports[g]
      PROVE  Rated(g)' /\ rate'[g] <= rate'[f]
  <2>1. \A q \in Port : flows'[q] = flows[q] \ flows[p]
    BY DEF Assign
  <2>2. ports[g] \subseteq Port
    BY DEF Accounted, TypeOK
  <2>3. \A q \in ports[g] : g \in flows[q] => g \in flows[p]
    BY <1>3 DEF Accounted, OnAllOrNone
  <2>4. Rated(g)'
    BY <1>1, <1>3, <2>1, <2>2, <2>3 DEF Rated
  <2>5. rate[g] <= r
    BY DEF Assign, Accounted, RatesBelow
  <2>6. rate'[g] = r \/ rate'[g] = rate[g]
    BY DEF Assign
  <2> QED  BY <1>1, <1>2, <2>4, <2>5, <2>6
<1> QED  BY <1>1, <1>3 DEF Bottleneck

(* A bottleneck stays one, its flows have their rates for good.            *)
LEMMA BottleneckStays ==
  ASSUME Accounted, NEW p \in Port, Assign(p), NEW f \in Flow, NEW q \in Port,
         Rated(f), Bottleneck(f, q)
  PROVE  Bottleneck(f, q)' /\ used'[q] = used[q]
<1>1. ports' = ports /\ \A s \in Port : flows'[s] = flows[s] \ flows[p]
  BY DEF Assign
<1>2. ASSUME NEW g \in Flow, Rated(g)
      PROVE  g \notin flows[p] /\ rate'[g] = rate[g] /\ Rated(g)'
  <2>1. g \notin flows[p]
    BY <1>2 DEF Rated, Accounted, OnAllOrNone
  <2>2. ports[g] \subseteq Port
    BY DEF Accounted, TypeOK
  <2>3. Rated(g)'
    BY <1>1, <1>2, <2>2 DEF Rated
  <2> QED  BY <2>1, <2>3 DEF Assign
<1>3. Bottleneck(f, q)'
  BY <1>1, <1>2 DEF Bottleneck
<1>4. {g \in flows[p] : q \in ports[g]} = {}
  BY <1>2 DEF Bottleneck, Accounted, TypeOK
<1>5. used'[q] = used[q]
  <2>1. FlowRate(p, used, flows) \in Nat /\ used[q] \in Nat
    BY AssignShares DEF Accounted, TypeOK
  <2>2. Cardinality({g \in flows[p] : q \in ports[g]}) = 0
    BY <1>4, FS_EmptySet
  <2>3. used'[q] = used[q] + FlowRate(p, used, flows)
                             * Cardinality({g \in flows[p] : q \in ports[g]})
    BY DEF Assign, Charged
  <2> HIDE DEF FlowRate
  <2> QED  BY <2>1, <2>2, <2>3
<1> QED  BY <1>3, <1>5

(* Who is rated after an assignment was before, or got its rate just now.  *)
LEMMA NewlyRated ==
  ASSUME Accounted, NEW p \in Port, Assign(p), NEW f \in Flow, Rated(f)'
  PROVE  Rated(f) \/ f \in flows[p]
<1>1. ports' = ports /\ \A q \in Port : flows'[q] = flows[q] \ flows[p]
  BY DEF Assign
<1>2. ports[f] \subseteq Port
  BY DEF Accounted, TypeOK
<1> QED  BY <1>1, <1>2 DEF Rated

(* An assignment is fair to within the rest.                               *)
LEMMA AssignNearlyFair ==
  ASSUME Accounted, NearlyFair, NEW p \in Port, Assign(p)
  PROVE  NearlyFair'
<1> DEFINE N(q) == Cardinality({g \in Flow : q \in ports[g]})
<1>1. ports' = ports
  BY DEF Assign
<1>2. ASSUME NEW f \in Flow, Rated(f)'
      PROVE  \E q \in Port : Bottleneck(f, q)' /\ Cap - used'[q] < N(q)
  <2>1. CASE Rated(f)
    <3>1. PICK q \in Port : Bottleneck(f, q) /\ Cap - used[q] < N(q)
      BY <2>1 DEF NearlyFair
    <3>2. Bottleneck(f, q)' /\ used'[q] = used[q]
      BY <2>1, <3>1, BottleneckStays
    <3> QED  BY <3>1, <3>2
  <2>2. CASE f \in flows[p]
    <3>1. Bottleneck(f, p)'
      BY <2>2, PoppedIsBottleneck
    <3>2. Cap - used'[p] < Cardinality(flows[p])
      BY PoppedIsFull
    <3>3. Cardinality(flows[p]) <= N(p) /\ Cardinality(flows[p]) \in Nat /\ N(p) \in Nat
      <4>1. flows[p] \subseteq {g \in Flow : p \in ports[g]}
        BY DEF Accounted, TypeOK, OnAllOrNone
      <4>2. flows[p] \in SUBSET Flow /\ {g \in Flow : p \in ports[g]} \in SUBSET Flow
        BY <4>1
      <4> QED  BY <4>1, <4>2, FlowsFinite, FS_Subset
    <3>4. Cap - used'[p] \in Int
      BY AssignShares, FlowAssumption
    <3>5. Cap - used'[p] < N(p)
      <4> HIDE DEF N
      <4> QED  BY <3>2, <3>3, <3>4
    <3> QED  BY <3>1, <3>5
  <2> QED  BY <1>2, <2>1, <2>2, NewlyRated
<1> QED  BY <1>1, <1>2 DEF NearlyFair

(* Without a rest it is fair.                                              *)
LEMMA AssignFair ==
  ASSUME Accounted, DivisionsExact, MaxMinFair, NEW p \in Port, Assign(p)
  PROVE  MaxMinFair'
<1>1. ASSUME NEW f \in Flow, Rated(f)'
      PROVE  \E q \in Port : Bottleneck(f, q)' /\ used'[q] = Cap
  <2>1. CASE Rated(f)
    <3>1. PICK q \in Port : Bottleneck(f, q) /\ used[q] = Cap
      BY <2>1 DEF MaxMinFair
    <3> QED  BY <2>1, <3>1, BottleneckStays
  <2>2. CASE f \in flows[p]
    <3>1. used'[p] = Cap
      BY <2>2, PoppedIsFull DEF DivisionsExact
    <3> QED  BY <2>2, <3>1, PoppedIsBottleneck
  <2> QED  BY <1>1, <2>1, <2>2, NewlyRated
<1> QED  BY <1>1 DEF MaxMinFair

-----------------------------------------------------------------------------
(* The invariants.                                                         *)

(* Accounted is inductive.                                                 *)
LEMMA NextAccounted == Accounted /\ [Next]_vars => Accounted'
<1> SUFFICES ASSUME Accounted, [Next]_vars PROVE Accounted'
  OBVIOUS
<1>1. CASE UNCHANGED vars
  BY <1>1 DEF vars, Accounted, TypeOK, CapacityKept, OnAllOrNone, QueueCurrent,
              RatesBelow, FlowRate
<1> QED  BY <1>1, PopAccounted, AssignAccounted, NextModelAccounted DEF Next

(* What a fresh start has of the rest.                                     *)
LEMMA InitFair == Init => UnratedAtZero /\ UsedIsSum /\ NearlyFair /\ MaxMinFair
<1> SUFFICES ASSUME Init PROVE UnratedAtZero /\ UsedIsSum /\ NearlyFair /\ MaxMinFair
  OBVIOUS
<1>1. ports \in [Flow -> SUBSET Port]
  BY FlowAssumption DEF Init
<1>2. \A f \in Flow : ~Rated(f)
  BY <1>1 DEF Init, Rated, FlowsOn
<1>3. UnratedAtZero
  BY <1>1 DEF Init, UnratedAtZero, FlowsOn
<1>4. ASSUME NEW p \in Port
      PROVE  used[p] = SumOf(rate, {f \in Flow : p \in ports[f]})
  <2>1. PICK routes \in [Flow -> SUBSET Port] : routes = ports
    BY <1>1
  <2>2. SumOf([f \in Flow |-> 0], {f \in Flow : p \in routes[f]}) = 0
    BY FreshAccounts
  <2> QED  BY <2>1, <2>2 DEF Init, Idle, SumOf
<1> QED  BY <1>2, <1>3, <1>4 DEF NearlyFair, MaxMinFair, UsedIsSum, SumOf

(* The second path model starts as afresh.                                 *)
LEMMA NextModelFair ==
  ASSUME NextModel
  PROVE  UnratedAtZero' /\ UsedIsSum' /\ NearlyFair' /\ MaxMinFair'
<1>1. ports' \in [Flow -> SUBSET Port]
  BY FlowAssumption DEF NextModel
<1>2. \A f \in Flow : ~Rated(f)'
  BY <1>1 DEF NextModel, Rated, FlowsOn
<1>3. UnratedAtZero'
  BY <1>1 DEF NextModel, UnratedAtZero, FlowsOn
<1>4. ASSUME NEW p \in Port
      PROVE  used'[p] = SumOf(rate', {f \in Flow : p \in ports'[f]})
  <2>1. PICK routes \in [Flow -> SUBSET Port] : routes = ports'
    BY <1>1
  <2>2. SumOf([f \in Flow |-> 0], {f \in Flow : p \in routes[f]}) = 0
    BY FreshAccounts
  <2> QED  BY <2>1, <2>2 DEF NextModel, Idle, SumOf
<1>5. UsedIsSum'
  BY <1>4 DEF UsedIsSum, SumOf, MapThenSumSet, MapThenFoldSet
<1> QED  BY <1>2, <1>3, <1>5 DEF NearlyFair, MaxMinFair

(* The inductive invariant: the accounts, their sums and the fairness.     *)
FairInv == IInv /\ UsedIsSum

LEMMA InitFairInv == Init => FairInv
BY InitAccounted, InitFair DEF FairInv, IInv

LEMMA NextFairInv == FairInv /\ [Next]_vars => FairInv'
<1> SUFFICES ASSUME FairInv, [Next]_vars PROVE FairInv'
  OBVIOUS
<1>1. Accounted /\ UnratedAtZero /\ UsedIsSum /\ NearlyFair
  BY DEF FairInv, IInv
<1>2. Accounted'
  BY <1>1, NextAccounted
<1>3. ASSUME NEW p \in Port, Pop(p) PROVE UnratedAtZero' /\ UsedIsSum' /\ NearlyFair'
  BY <1>1, <1>3, IdleStep DEF Pop
<1>4. ASSUME NEW p \in Port, Assign(p) PROVE UnratedAtZero' /\ UsedIsSum' /\ NearlyFair'
  BY <1>1, <1>4, AssignSum, AssignNearlyFair
<1>5. ASSUME NextModel PROVE UnratedAtZero' /\ UsedIsSum' /\ NearlyFair'
  BY <1>5, NextModelFair
<1>6. ASSUME UNCHANGED vars PROVE UnratedAtZero' /\ UsedIsSum' /\ NearlyFair'
  BY <1>1, <1>6, IdleStep DEF vars
<1>7. UnratedAtZero' /\ UsedIsSum' /\ NearlyFair'
  BY <1>3, <1>4, <1>5, <1>6 DEF Next
<1> QED  BY <1>2, <1>7 DEF FairInv, IInv

LEMMA FairInvariant == Spec => []FairInv
<1> QED  BY InitFairInv, NextFairInv, PTL DEF Spec

(* The inductive invariant of the loop over the ports.                     *)
THEOREM ThroughputInvariant == Spec => []IInv
<1>1. FairInv => IInv
  BY DEF FairInv
<1> QED  BY <1>1, FairInvariant, PTL

(* Rates, accounts and priorities are natural numbers throughout: no       *)
(* subtraction in flow_rate goes below zero.                               *)
THEOREM TypeCorrect == Spec => []TypeOK
<1>1. IInv => TypeOK
  BY DEF IInv, Accounted
<1> QED  BY <1>1, ThroughputInvariant, PTL

(* The assert of the loop holds for every topology and workload: no port   *)
(* gives away more than its capacity.                                      *)
THEOREM PortsKeepCapacity == Spec => []CapacityKept
<1>1. IInv => CapacityKept
  BY DEF IInv, Accounted
<1> QED  BY <1>1, ThroughputInvariant, PTL

(* Port.used is what the flows across the port were given, to the unit,    *)
(* although it is added up one flow at a time over two path models.        *)
THEOREM AccountsAreSums == Spec => []UsedIsSum
<1>1. FairInv => UsedIsSum
  BY DEF FairInv
<1> QED  BY <1>1, FairInvariant, PTL

(* With rates rounded down, whatever the capacity: a flow that has its     *)
(* rate crosses a port that is full but for less than a unit per flow, and *)
(* on which no flow has more.                                              *)
THEOREM RatesNearlyFair == Spec => []NearlyFair
<1>1. IInv => NearlyFair
  BY DEF IInv
<1> QED  BY <1>1, ThroughputInvariant, PTL

(* With a capacity that the flows of a port always share without a rest,   *)
(* as the real numbers of compute_flow_throughputs are shared: the rates   *)
(* are max-min fair.                                                       *)
THEOREM RatesMaxMinFair == Spec /\ []DivisionsExact => []MaxMinFair
<1>1. Init => MaxMinFair
  BY InitFair
<1>2. IInv /\ DivisionsExact /\ MaxMinFair /\ [Next]_vars => MaxMinFair'
  <2> SUFFICES ASSUME Accounted, DivisionsExact, MaxMinFair, [Next]_vars
               PROVE  MaxMinFair'
    BY DEF IInv
  <2>1. ASSUME UNCHANGED <<ports, flows, used, rate>> PROVE MaxMinFair'
    BY <2>1 DEF MaxMinFair, Bottleneck, Rated
  <2>2. ASSUME NEW p \in Port, Pop(p) PROVE MaxMinFair'
    BY <2>1, <2>2 DEF Pop
  <2>3. ASSUME NEW p \in Port, Assign(p) PROVE MaxMinFair'
    BY <2>3, AssignFair
  <2>4. CASE NextModel
    BY <2>4, NextModelFair
  <2>5. CASE UNCHANGED vars
    BY <2>1, <2>5 DEF vars
  <2> QED  BY <2>2, <2>3, <2>4, <2>5 DEF Next
<1> QED  BY <1>1, <1>2, ThroughputInvariant, PTL DEF Spec

(* A flow never gets a lower rate than a flow that got its rate before.    *)
THEOREM RatesGivenInOrder == Spec => RatesRise
<1>1. ASSUME IInv, [Next]_vars
      PROVE  [model' = model =>
                \A f, g \in Flow : rate'[f] # rate[f] => rate[g] <= rate'[f]]_vars
  <2>1. ASSUME NEW p \in Port, Assign(p), NEW f \in Flow, NEW g \in Flow,
               rate'[f] # rate[f]
        PROVE  rate[g] <= rate'[f]
    <3>1. rate'[f] = FlowRate(p, used, flows) /\ flows[p] # {}
      BY <2>1 DEF Assign
    <3> QED  BY <1>1, <3>1 DEF IInv, Accounted, RatesBelow
  <2>2. ASSUME NEW p \in Port, Pop(p) PROVE rate' = rate
    BY <2>2 DEF Pop
  <2>3. ASSUME NextModel PROVE model' # model
    BY <2>3 DEF NextModel
  <2> QED  BY <1>1, <2>1, <2>2, <2>3 DEF Next
<1> QED  BY <1>1, ThroughputInvariant, PTL DEF Spec, RatesRise
=============================================================================

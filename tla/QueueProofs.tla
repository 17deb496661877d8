---------------------------- MODULE QueueProofs -----------------------------
(***************************************************************************)
(* The three data structures the scripts and the patched igraph rest on    *)
(* keep what they promise.                                                 *)
(*   The heap of priority_dict is an implementation detail: the dictionary *)
(* with its stale pairs implements PriorityMap, for all keys and           *)
(* priorities.                                                             *)
(*   The circular queue of igraph, whatever the number of cells and        *)
(* wherever the elements lie in them, is a sequence: push appends to it,   *)
(* pop takes its head, and a turn of the shuffle exchanges two items.      *)
(*   igraph_i_bfs on two such queues, on every graph, with queues of any   *)
(* size and however it shuffles, is the random breadth first search of     *)
(* RandomBfs: it returns a tree of shortest paths, and the layers it       *)
(* returns tell the depth of every vertex.                                 *)
(***************************************************************************)
EXTENDS Functions, PriorityDict, DQueue, SequenceTheorems, FiniteSetTheorems, TLAPS

-----------------------------------------------------------------------------
(* Bags.                                                                   *)

(* Pushing a pair adds it to the pairs of the heap.                        *)
LEMMA AddPair ==
  ASSUME NEW B, IsABag(B), NEW x
  PROVE  /\ IsABag(BagAdd(B, x))
         /\ DOMAIN BagAdd(B, x) = DOMAIN B \cup {x}
BY DEF IsABag, BagAdd

(* Popping takes nothing but copies of the popped pair.                    *)
LEMMA RemovePair ==
  ASSUME NEW B, IsABag(B), NEW x \in DOMAIN B
  PROVE  /\ IsABag(BagRemove(B, x))
         /\ DOMAIN BagRemove(B, x) \subseteq DOMAIN B
         /\ DOMAIN B \ {x} \subseteq DOMAIN BagRemove(B, x)
BY DEF IsABag, BagRemove

(* A rebuilt heap holds the current pairs and nothing else.                *)
LEMMA RebuiltHeap ==
  ASSUME NEW d \in [Key -> Priority \cup {Absent}]
  PROVE  /\ IsABag(Rebuilt(d))
         /\ DOMAIN Rebuilt(d) = {<<d[k], k>> : k \in {j \in Key : d[j] # Absent}}
         /\ DOMAIN Rebuilt(d) \subseteq Priority \X Key
BY DEF Rebuilt, SetToBag, IsABag

(* Whatever was paired before, the new pair is there and so are the others. *)
LEMMA SetItemCovers ==
  ASSUME IInv, NEW k \in Key, NEW p \in Priority, SetItem(k, p)
  PROVE  IInv'
<1>0. /\ dict' \in [Key -> Priority \cup {Absent}]
      /\ call' \in {"none", "smallest", "pop_smallest"}
      /\ answer' \in Key \cup {NoAnswer, IndexError}
  BY DEF IInv, TypeOK, SetItem
<1>1. CASE heap' = BagAdd(heap, <<p, k>>)
  <2>1. /\ IsABag(heap')
        /\ DOMAIN heap' = DOMAIN heap \cup {<<p, k>>}
    BY <1>1, AddPair DEF IInv, TypeOK
  <2>2. TypeOK'
    BY <1>0, <2>1 DEF IInv, TypeOK
  <2>3. ASSUME NEW j \in Key, dict'[j] # Absent
        PROVE  <<dict'[j], j>> \in DOMAIN heap'
    <3>1. CASE j = k
      BY <2>1, <3>1 DEF SetItem, IInv, TypeOK
    <3>2. CASE j # k
      <4>1. dict'[j] = dict[j]
        BY <3>2 DEF SetItem, IInv, TypeOK
      <4> QED  BY <2>1, <2>3, <4>1 DEF IInv, HeapCovers, Present
    <3> QED  BY <3>1, <3>2
  <2> QED  BY <2>2, <2>3 DEF IInv, HeapCovers, Present
<1>2. CASE heap' = Rebuilt(dict')
  <2>1. /\ IsABag(heap')
        /\ DOMAIN heap' = {<<dict'[j], j>> : j \in {i \in Key : dict'[i] # Absent}}
        /\ DOMAIN heap' \subseteq Priority \X Key
    BY <1>0, <1>2, RebuiltHeap
  <2> QED  BY <1>0, <2>1 DEF IInv, TypeOK, HeapCovers, Present
<1> QED  BY <1>1, <1>2 DEF SetItem

(* update stores and rebuilds.                                             *)
LEMMA UpdateCovers ==
  ASSUME IInv, NEW items \in [Key -> Priority \cup {Absent}], Update(items)
  PROVE  IInv'
<1>1. /\ dict' \in [Key -> Priority \cup {Absent}]
      /\ call' \in {"none", "smallest", "pop_smallest"}
      /\ answer' \in Key \cup {NoAnswer, IndexError}
  BY DEF IInv, TypeOK, Update
<1>2. /\ IsABag(heap')
      /\ DOMAIN heap' = {<<dict'[j], j>> : j \in {i \in Key : dict'[i] # Absent}}
      /\ DOMAIN heap' \subseteq Priority \X Key
  BY <1>1, RebuiltHeap DEF Update
<1> QED  BY <1>1, <1>2 DEF IInv, TypeOK, HeapCovers, Present

(* Deletion leaves pairs behind, never too few.                            *)
LEMMA DelItemCovers ==
  ASSUME IInv, NEW k \in Key, DelItem(k)
  PROVE  IInv'
<1>1. TypeOK'
  BY DEF IInv, TypeOK, DelItem
<1>2. ASSUME NEW j \in Key, dict'[j] # Absent
      PROVE  <<dict'[j], j>> \in DOMAIN heap'
  <2>1. dict'[j] = dict[j]
    BY <1>2 DEF DelItem, IInv, TypeOK
  <2> QED  BY <1>2, <2>1 DEF DelItem, IInv, HeapCovers, Present
<1> QED  BY <1>1, <1>2 DEF IInv, HeapCovers, Present

(* A stale pair is nobody's current pair.                                  *)
LEMMA SkipStaleCovers ==
  ASSUME IInv, NEW entry \in DOMAIN heap, SkipStale(entry)
  PROVE  IInv'
<1>1. /\ IsABag(heap')
      /\ DOMAIN heap' \subseteq DOMAIN heap
      /\ DOMAIN heap \ {entry} \subseteq DOMAIN heap'
  BY RemovePair DEF IInv, TypeOK, SkipStale
<1>2. TypeOK'
  BY <1>1 DEF IInv, TypeOK, SkipStale
<1>3. ASSUME NEW j \in Key, dict[j] # Absent
      PROVE  <<dict[j], j>> \in DOMAIN heap'
  <2>1. <<dict[j], j>> \in DOMAIN heap
    BY <1>3 DEF IInv, HeapCovers, Present
  <2>2. <<dict[j], j>> # entry
    BY DEF SkipStale, Stale
  <2> QED  BY <1>1, <2>1, <2>2
<1> QED  BY <1>2, <1>3 DEF IInv, HeapCovers, Present, SkipStale

(* The pair that is returned leaves the heap only with its key.            *)
LEMMA ReturnCovers ==
  ASSUME IInv, NEW entry \in DOMAIN heap, Return(entry)
  PROVE  IInv'
<1>0. entry \in Priority \X Key
  BY DEF IInv, TypeOK
<1>1. CASE call # "pop_smallest"
  BY <1>0, <1>1 DEF IInv, TypeOK, HeapCovers, Present, Return
<1>2. CASE call = "pop_smallest"
  <2>1. /\ heap' = BagRemove(heap, entry)
        /\ dict' = [dict EXCEPT ![entry[2]] = Absent]
        /\ call' = "none" /\ answer' = entry[2]
    BY <1>2 DEF Return
  <2>2. /\ IsABag(heap')
        /\ DOMAIN heap' \subseteq DOMAIN heap
        /\ DOMAIN heap \ {entry} \subseteq DOMAIN heap'
    BY <2>1, RemovePair DEF IInv, TypeOK
  <2>3. TypeOK'
    BY <1>0, <2>1, <2>2 DEF IInv, TypeOK
  <2>4. ASSUME NEW j \in Key, dict'[j] # Absent
        PROVE  <<dict'[j], j>> \in DOMAIN heap'
    <3>1. j # entry[2] /\ dict'[j] = dict[j]
      BY <1>0, <2>1, <2>4 DEF IInv, TypeOK
    <3>2. <<dict[j], j>> \in DOMAIN heap
      BY <2>4, <3>1 DEF IInv, HeapCovers, Present
    <3>3. <<dict[j], j>> # entry
      BY <3>1
    <3> QED  BY <2>2, <3>1, <3>2, <3>3
  <2> QED  BY <2>3, <2>4 DEF IInv, HeapCovers, Present
<1> QED  BY <1>1, <1>2

-----------------------------------------------------------------------------
(* The invariant.                                                          *)

(* The empty dictionary has no pair to cover.                              *)
LEMMA InitCovers == Init => IInv
<1> SUFFICES ASSUME Init PROVE IInv
  OBVIOUS
<1>1. /\ IsABag(heap)
      /\ DOMAIN heap = {<<dict[j], j>> : j \in {i \in Key : dict[i] # Absent}}
      /\ DOMAIN heap \subseteq Priority \X Key
  BY RebuiltHeap DEF Init
<1> QED  BY <1>1 DEF Init, IInv, TypeOK, HeapCovers, Present

(* IInv is inductive.                                                      *)
LEMMA NextCovers == IInv /\ [Next]_vars => IInv'
<1> SUFFICES ASSUME IInv, [Next]_vars PROVE IInv'
  OBVIOUS
<1>1. ASSUME NEW k \in Key, NEW p \in Priority, SetItem(k, p) PROVE IInv'
  BY <1>1, SetItemCovers
<1>2. ASSUME NEW k \in Key, NEW p \in Priority, SetDefault(k, p) PROVE IInv'
  BY <1>2, SetItemCovers DEF SetDefault
<1>3. ASSUME NEW items \in [Key -> Priority \cup {Absent}], Update(items) PROVE IInv'
  BY <1>3, UpdateCovers
<1>4. ASSUME NEW k \in Key, DelItem(k) PROVE IInv'
  BY <1>4, DelItemCovers
<1>5. ASSUME NEW lookup \in {"smallest", "pop_smallest"}, Ask(lookup) PROVE IInv'
  BY <1>5 DEF Ask, IInv, TypeOK, HeapCovers, Present
<1>6. ASSUME NEW entry \in DOMAIN heap, SkipStale(entry) PROVE IInv'
  BY <1>6, SkipStaleCovers
<1>7. ASSUME NEW entry \in DOMAIN heap, Return(entry) PROVE IInv'
  BY <1>7, ReturnCovers
<1>8. CASE Raise
  BY <1>8 DEF Raise, IInv, TypeOK, HeapCovers, Present
<1>9. CASE UNCHANGED vars
  BY <1>9 DEF vars, IInv, TypeOK, HeapCovers, Present
<1> QED  BY <1>1, <1>2, <1>3, <1>4, <1>5, <1>6, <1>7, <1>8, <1>9 DEF Next

(* The inductive invariant of the dictionary and its heap.                 *)
THEOREM DictInvariant == Spec => []IInv
<1> QED  BY InitCovers, NextCovers, PTL DEF Spec

(* The heap holds pairs of keys and priorities after any operation.        *)
THEOREM TypeCorrect == Spec => []TypeOK
<1>1. IInv => TypeOK
  BY DEF IInv
<1> QED  BY <1>1, DictInvariant, PTL

(* No present key ever loses its current pair, however many stale pairs    *)
(* are pushed, popped or thrown away by a rebuild.                         *)
THEOREM CurrentPairsStay == Spec => []HeapCovers
<1>1. IInv => HeapCovers
  BY DEF IInv
<1> QED  BY <1>1, DictInvariant, PTL

-----------------------------------------------------------------------------
(* The size of the heap.                                                   *)

(* A push makes one copy more.                                             *)
LEMMA PushSize ==
  ASSUME NEW B, IsABag(B), IsFiniteSet(Copies(B)), NEW x
  PROVE  /\ IsFiniteSet(Copies(BagAdd(B, x)))
         /\ Size(BagAdd(B, x)) = Size(B) + 1
<1> DEFINE n == IF x \in DOMAIN B THEN B[x] ELSE 0
           C == BagAdd(B, x)
<1>1. n \in Nat
  BY DEF IsABag
<1>2. DOMAIN C = DOMAIN B \cup {x}
  BY AddPair
<1>3. C[x] = n + 1 /\ \A y \in DOMAIN B : y # x => C[y] = B[y]
  BY DEF IsABag, BagAdd
<1>4. <<x, n + 1>> \notin Copies(B)
  <2> SUFFICES ASSUME <<x, n + 1>> \in Copies(B) PROVE FALSE
    OBVIOUS
  <2>1. x \in DOMAIN B /\ n + 1 \in 1..B[x]
    BY DEF Copies
  <2> QED  BY <1>1, <2>1
<1>5. Copies(C) = Copies(B) \cup {<<x, n + 1>>}
  <2>1. 1..(n + 1) = (1..n) \cup {n + 1}
    BY <1>1
  <2>2. {x} \X (1..C[x]) = ({x} \X (1..n)) \cup {<<x, n + 1>>}
    BY <1>3, <2>1
  <2> DEFINE Rest == UNION {{y} \X (1..B[y]) : y \in DOMAIN B \ {x}}
  <2>3. Copies(C) = Rest \cup ({x} \X (1..C[x]))
    <3> HIDE DEF C, n
    <3>1. Rest = UNION {{y} \X (1..C[y]) : y \in DOMAIN B \ {x}}
      BY <1>3
    <3> QED  BY <1>2, <3>1 DEF Copies
  <2>4. Copies(B) = Rest \cup ({x} \X (1..n))
    <3>1. CASE x \in DOMAIN B
      <4>1. n = B[x]
        BY <3>1
      <4> HIDE DEF n, C
      <4> QED  BY <3>1, <4>1 DEF Copies
    <3>2. CASE x \notin DOMAIN B
      <4>1. 1..n = {}
        BY <3>2
      <4> HIDE DEF n, C
      <4> QED  BY <3>2, <4>1 DEF Copies
    <3> QED  BY <3>1, <3>2
  <2> HIDE DEF Rest, n, C
  <2> QED  BY <2>2, <2>3, <2>4
<1> HIDE DEF n, C
<1> QED  BY <1>4, <1>5, FS_AddElement DEF Size, C

(* A pop makes none.                                                       *)
LEMMA PopSize ==
  ASSUME NEW B, IsABag(B), IsFiniteSet(Copies(B)), NEW x \in DOMAIN B
  PROVE  /\ IsFiniteSet(Copies(BagRemove(B, x)))
         /\ Size(BagRemove(B, x)) <= Size(B)
<1> DEFINE C == BagRemove(B, x)
<1>1. \A y \in DOMAIN C : y \in DOMAIN B /\ C[y] \in Nat /\ B[y] \in Nat /\ C[y] <= B[y]
  BY DEF IsABag, BagRemove
<1> HIDE DEF C
<1>2. \A y \in DOMAIN C : 1..C[y] \subseteq 1..B[y]
  BY <1>1
<1>3. Copies(C) \subseteq Copies(B)
  BY <1>1, <1>2 DEF Copies
<1> QED  BY <1>3, FS_Subset DEF Size, C

(* A rebuilt heap has one copy for every present key.                      *)
LEMMA RebuiltSize ==
  ASSUME NEW d \in [Key -> Priority \cup {Absent}]
  PROVE  /\ IsFiniteSet(Copies(Rebuilt(d)))
         /\ Size(Rebuilt(d)) <= Cardinality(Key)
<1> DEFINE P     == {j \in Key : d[j] # Absent}
           pairs == {<<d[k], k>> : k \in P}
           f     == [k \in P |-> <<<<d[k], k>>, 1>>]
<1>1. IsFiniteSet(P) /\ Cardinality(P) <= Cardinality(Key)
  BY DictAssumption, FS_Subset
<1>2. Copies(Rebuilt(d)) = {<<p, 1>> : p \in pairs}
  <2>1. 1..1 = {1}
    OBVIOUS
  <2>2. DOMAIN Rebuilt(d) = pairs /\ \A p \in pairs : Rebuilt(d)[p] = 1
    BY DEF Rebuilt, SetToBag
  <2>3. Copies(Rebuilt(d)) = UNION {{p} \X {1} : p \in pairs}
    BY <2>1, <2>2 DEF Copies
  <2> HIDE DEF pairs
  <2> QED  BY <2>3
<1>3. f \in Surjection(P, Copies(Rebuilt(d)))
  BY <1>2 DEF Surjection
<1> HIDE DEF P, pairs, f
<1>4. /\ IsFiniteSet(Copies(Rebuilt(d)))
      /\ Cardinality(Copies(Rebuilt(d))) <= Cardinality(P)
  BY <1>1, <1>3, FS_Surjection
<1>5. /\ Cardinality(Copies(Rebuilt(d))) \in Nat /\ Cardinality(P) \in Nat
      /\ Cardinality(Key) \in Nat
  BY <1>1, <1>4, DictAssumption, FS_CardinalityType
<1> QED  BY <1>1, <1>4, <1>5 DEF Size

(* What HeapBounded needs besides: the heap is finite.                     *)
SizeInv == IsFiniteSet(Copies(heap)) /\ HeapBounded

(* Only an assignment grows the heap, and only below the bound.            *)
LEMMA SizeStays == IInv /\ SizeInv /\ [Next]_vars => SizeInv'
<1> SUFFICES ASSUME IInv, SizeInv, [Next]_vars PROVE SizeInv'
  OBVIOUS
<1>0. /\ IsABag(heap) /\ IsFiniteSet(Copies(heap))
      /\ Size(heap) \in Nat /\ Cardinality(Key) \in Nat
      /\ Size(heap) <= 2 * Cardinality(Key)
  BY DictAssumption, FS_CardinalityType DEF IInv, TypeOK, SizeInv, HeapBounded, Size
<1>1. ASSUME NEW k \in Key, NEW p \in Priority, SetItem(k, p) PROVE SizeInv'
  <2>1. dict' \in [Key -> Priority \cup {Absent}]
    BY <1>1 DEF SetItem, IInv, TypeOK
  <2>2. CASE Size(heap) < 2 * Cardinality(Present') /\ heap' = BagAdd(heap, <<p, k>>)
    <3>1. Present' \subseteq Key
      BY DEF Present
    <3>2. Cardinality(Present') \in Nat /\ Cardinality(Present') <= Cardinality(Key)
      BY <3>1, DictAssumption, FS_Subset, FS_CardinalityType
    <3>3. IsFiniteSet(Copies(heap')) /\ Size(heap') = Size(heap) + 1
      BY <1>0, <2>2, PushSize
    <3>4. Size(heap') <= 2 * Cardinality(Key)
      BY <1>0, <2>2, <3>2, <3>3
    <3> QED  BY <3>3, <3>4 DEF SizeInv, HeapBounded
  <2>3. CASE heap' = Rebuilt(dict')
    <3>1. IsFiniteSet(Copies(heap')) /\ Size(heap') <= Cardinality(Key)
      BY <2>1, <2>3, RebuiltSize
    <3>2. Size(heap') \in Nat
      BY <3>1, FS_CardinalityType DEF Size
    <3> QED  BY <1>0, <3>1, <3>2 DEF SizeInv, HeapBounded
  <2> QED  BY <1>1, <2>2, <2>3 DEF SetItem
<1>2. ASSUME NEW k \in Key, NEW p \in Priority, SetDefault(k, p) PROVE SizeInv'
  BY <1>1, <1>2 DEF SetDefault
<1>3. ASSUME NEW items \in [Key -> Priority \cup {Absent}], Update(items) PROVE SizeInv'
  <2>1. dict' \in [Key -> Priority \cup {Absent}] /\ heap' = Rebuilt(dict')
    BY <1>3 DEF Update, IInv, TypeOK
  <2>2. IsFiniteSet(Copies(heap')) /\ Size(heap') <= Cardinality(Key)
    BY <2>1, RebuiltSize
  <2>3. Size(heap') \in Nat
    BY <2>2, FS_CardinalityType DEF Size
  <2> QED  BY <1>0, <2>2, <2>3 DEF SizeInv, HeapBounded
<1>4. ASSUME NEW entry \in DOMAIN heap, heap' = BagRemove(heap, entry) PROVE SizeInv'
  <2>1. IsFiniteSet(Copies(heap')) /\ Size(heap') <= Size(heap)
    BY <1>0, <1>4, PopSize
  <2>2. Size(heap') \in Nat
    BY <2>1, FS_CardinalityType DEF Size
  <2> QED  BY <1>0, <2>1, <2>2 DEF SizeInv, HeapBounded
<1>5. ASSUME heap' = heap PROVE SizeInv'
  BY <1>5 DEF SizeInv, HeapBounded
<1>6. ASSUME NEW k \in Key, DelItem(k) PROVE SizeInv'
  BY <1>5, <1>6 DEF DelItem
<1>7. ASSUME NEW lookup \in {"smallest", "pop_smallest"}, Ask(lookup) PROVE SizeInv'
  BY <1>5, <1>7 DEF Ask
<1>8. ASSUME NEW entry \in DOMAIN heap, SkipStale(entry) PROVE SizeInv'
  BY <1>4, <1>8 DEF SkipStale
<1>9. ASSUME NEW entry \in DOMAIN heap, Return(entry) PROVE SizeInv'
  BY <1>4, <1>5, <1>9 DEF Return
<1>10. CASE Raise
  BY <1>5, <1>10 DEF Raise
<1>11. CASE UNCHANGED vars
  BY <1>5, <1>11 DEF vars
<1> QED  BY <1>1, <1>2, <1>3, <1>6, <1>7, <1>8, <1>9, <1>10, <1>11 DEF Next

(* Stale pairs never pile up: the heap holds at most two pairs per key,    *)
(* whatever is assigned, deleted and popped, because __setitem__ rebuilds  *)
(* it at twice the size of the dictionary.                                 *)
THEOREM HeapStaysSmall == Spec => []HeapBounded
<1>1. Init => SizeInv
  <2> SUFFICES ASSUME Init PROVE SizeInv
    OBVIOUS
  <2>1. IsFiniteSet(Copies(heap)) /\ Size(heap) <= Cardinality(Key)
    BY RebuiltSize DEF Init
  <2>2. Size(heap) \in Nat /\ Cardinality(Key) \in Nat
    BY <2>1, DictAssumption, FS_CardinalityType DEF Size
  <2> QED  BY <2>1, <2>2 DEF SizeInv, HeapBounded
<1>2. SizeInv => HeapBounded
  BY DEF SizeInv
<1> QED  BY <1>1, <1>2, SizeStays, DictInvariant, PTL DEF Spec

-----------------------------------------------------------------------------
(* The refinement.                                                         *)

(* The empty dictionary is the empty map.                                  *)
LEMMA InitMaps == Init => Map!Init
BY DEF Init, Map!Init

(* The first pair that is not stale belongs to a key of lowest priority.   *)
LEMMA HeadIsLowest ==
  ASSUME IInv, NEW entry \in DOMAIN heap, HeapHead(entry), ~Stale(entry)
  PROVE  entry[2] \in Key /\ Map!Lowest(entry[2])
<1>1. entry \in Priority \X Key
  BY DEF IInv, TypeOK
<1>2. entry[2] \in Map!Present
  BY <1>1, DictAssumption DEF Stale, Map!Present
<1>3. ASSUME NEW j \in Map!Present PROVE dict[entry[2]] <= dict[j]
  <2>1. <<dict[j], j>> \in DOMAIN heap
    BY <1>3 DEF IInv, HeapCovers, Present, Map!Present
  <2> QED  BY <2>1 DEF HeapHead, Stale
<1> QED  BY <1>1, <1>2, <1>3 DEF Map!Lowest

(* Every step is a step of the map or none.                                *)
LEMMA NextMaps == IInv /\ [Next]_vars => [Map!Next]_(Map!vars)
<1> SUFFICES ASSUME IInv, [Next]_vars PROVE [Map!Next]_(Map!vars)
  OBVIOUS
<1>1. ASSUME NEW k \in Key, NEW p \in Priority, SetItem(k, p) PROVE Map!Next
  <2> DEFINE items == [j \in Key |-> IF j = k THEN p ELSE Absent]
  <2>1. items \in [Key -> Priority \cup {Absent}]
    OBVIOUS
  <2>2. dict' = [j \in Key |-> IF items[j] = Absent THEN dict[j] ELSE items[j]]
    BY <1>1, DictAssumption DEF SetItem, IInv, TypeOK
  <2>3. Map!Put(items)
    BY <1>1, <2>2 DEF SetItem, Map!Put
  <2> QED  BY <2>1, <2>3 DEF Map!Next
<1>2. ASSUME NEW k \in Key, NEW p \in Priority, SetDefault(k, p) PROVE Map!Next
  BY <1>1, <1>2 DEF SetDefault
<1>3. ASSUME NEW items \in [Key -> Priority \cup {Absent}], Update(items) PROVE Map!Next
  BY <1>3 DEF Update, Map!Put, Map!Next
<1>4. ASSUME NEW k \in Key, DelItem(k) PROVE Map!Next
  <2>1. Map!Remove(k)
    BY <1>4 DEF DelItem, Present, Map!Remove, Map!Present
  <2> QED  BY <2>1 DEF Map!Next
<1>5. ASSUME NEW lookup \in {"smallest", "pop_smallest"}, Ask(lookup)
      PROVE  UNCHANGED Map!vars
  BY <1>5 DEF Ask, Map!vars
<1>6. ASSUME NEW entry \in DOMAIN heap, SkipStale(entry) PROVE UNCHANGED Map!vars
  BY <1>6 DEF SkipStale, Map!vars
<1>7. ASSUME NEW entry \in DOMAIN heap, Return(entry) PROVE Map!Next
  <2>1. entry[2] \in Key /\ Map!Lowest(entry[2])
    BY <1>7, HeadIsLowest DEF Return
  <2>2. CASE call = "pop_smallest"
    BY <1>7, <2>1, <2>2 DEF Return, Map!PopSmallest, Map!Next
  <2>3. CASE call # "pop_smallest"
    BY <1>7, <2>1, <2>3 DEF Return, Map!Smallest, Map!Next
  <2> QED  BY <2>2, <2>3
<1>8. ASSUME Raise PROVE Map!Next
  <2>1. Map!Present = {}
    BY <1>8 DEF Raise, IInv, HeapCovers, Present, Map!Present
  <2>2. Map!Refuse
    BY <1>8, <2>1 DEF Raise, Map!Refuse
  <2> QED  BY <2>2 DEF Map!Next
<1>9. CASE UNCHANGED vars
  BY <1>9 DEF vars, Map!vars
<1> QED  BY <1>1, <1>2, <1>3, <1>4, <1>5, <1>6, <1>7, <1>8, <1>9 DEF Next

(* For every set of keys and priorities, the dictionary with its lazily    *)
(* cleaned heap implements the map that answers with a lowest key.         *)
THEOREM Implements == Spec => Refinement
<1> QED  BY InitMaps, NextMaps, DictInvariant, PTL DEF Spec, Refinement, Map!Spec


-----------------------------------------------------------------------------
(* The queue.                                                              *)

(* The fields of a queue, one by one.                                      *)
LEMMA Fields ==
  ASSUME NEW q, IsDQueue(q)
  PROVE  /\ q.size \in Nat \ {0}
         /\ q.begin \in 0..q.size - 1
         /\ q.end \in -1..q.size - 1
         /\ q.stor \in [0..q.size - 1 -> Int]
         /\ q = [stor |-> q.stor, size |-> q.size, begin |-> q.begin, end |-> q.end]
BY DEF IsDQueue, NULL

(* Four fields in their ranges make a queue.                               *)
LEMMA Build ==
  ASSUME NEW size \in Nat \ {0}, NEW begin \in 0..size - 1, NEW end \in -1..size - 1,
         NEW stor \in [0..size - 1 -> Int]
  PROVE  IsDQueue([stor |-> stor, size |-> size, begin |-> begin, end |-> end])
BY DEF IsDQueue, NULL

(* A new queue is empty, for every size asked for, also zero and less.     *)
THEOREM NewQueue ==
  ASSUME NEW size \in Int
  PROVE  /\ IsDQueue(DqInit(size))
         /\ DqEmpty(DqInit(size))
         /\ DqItems(DqInit(size)) = << >>
<1>1. IsDQueue(DqInit(size))
  BY DEF IsDQueue, DqInit, NULL
<1>2. DqEmpty(DqInit(size))
  BY DEF DqEmpty, DqInit, NULL
<1>3. DqItems(DqInit(size)) = << >>
  BY <1>2 DEF DqItems, DqSize, DqEmpty, NULL
<1> QED BY <1>1, <1>2, <1>3

(* What the pointers say of the number of elements.                        *)
LEMMA SizeBounds ==
  ASSUME NEW q, IsDQueue(q)
  PROVE  /\ DqSize(q) \in 0..q.size
         /\ DqEmpty(q) <=> DqSize(q) = 0
         /\ DqFull(q) <=> DqSize(q) = q.size
BY Fields DEF DqSize, DqEmpty, DqFull, NULL

(* The cells of different elements are different cells of the queue.       *)
LEMMA CellBounds ==
  ASSUME NEW q, IsDQueue(q)
  PROVE  /\ \A n \in 0..q.size - 1 : DqCell(q, n) \in 0..q.size - 1
         /\ \A m, n \in 0..q.size - 1 : DqCell(q, m) = DqCell(q, n) => m = n
<1>1. /\ q.size \in Nat \ {0} /\ q.begin \in 0..q.size - 1
  BY Fields
<1>2. PICK z \in Nat : z = q.size
  BY <1>1
<1>3. PICK b \in 0..z - 1 : b = q.begin
  BY <1>1, <1>2
<1>4. \A n : DqCell(q, n) = IF b + n < z THEN b + n ELSE b + n - z
  BY <1>2, <1>3 DEF DqCell
<1>5. \A n \in 0..z - 1 : DqCell(q, n) \in 0..z - 1
  BY <1>4
<1>6. ASSUME NEW m \in 0..z - 1, NEW n \in 0..z - 1, DqCell(q, m) = DqCell(q, n)
      PROVE  m = n
  BY <1>4, <1>6
<1> QED BY <1>2, <1>5, <1>6

(* A queue stands for a sequence of its elements.                          *)
LEMMA ItemsSeq ==
  ASSUME NEW q, IsDQueue(q)
  PROVE  /\ DqItems(q) \in Seq(Int)
         /\ Len(DqItems(q)) = DqSize(q)
         /\ \A n \in 1..DqSize(q) : DqItems(q)[n] = q.stor[DqCell(q, n - 1)]
<1>1. DqSize(q) \in 0..q.size /\ q.size \in Nat \ {0} /\ q.stor \in [0..q.size - 1 -> Int]
  BY SizeBounds, Fields
<1>2. ASSUME NEW n \in 1..DqSize(q)
      PROVE  q.stor[DqCell(q, n - 1)] \in Int
  <2>1. n - 1 \in 0..q.size - 1
    BY <1>1
  <2>2. DqCell(q, n - 1) \in 0..q.size - 1
    BY <2>1, CellBounds
  <2> QED BY <2>2, <1>1
<1>3. DqItems(q) \in [1..DqSize(q) -> Int]
  BY <1>2 DEF DqItems
<1> QED BY <1>1, <1>3, SMTT(30) DEF DqItems

(* igraph_dqueue_e_ptr finds the cell of every element there is, whether   *)
(* the queue lies in one piece or in two.                                  *)
THEOREM EPtrFinds ==
  ASSUME NEW q, IsDQueue(q), NEW idx \in 0..DqSize(q) - 1
  PROVE  DqEPtr(q, idx) = DqCell(q, idx)
BY Fields, SizeBounds, SMTT(30) DEF DqEPtr, DqCell, DqSize, NULL

(* Growing keeps the elements, in order, wherever begin was.               *)
LEMMA GrownKeeps ==
  ASSUME NEW q, IsDQueue(q), DqFull(q)
  PROVE  /\ IsDQueue(Grown(q)) /\ ~DqFull(Grown(q))
         /\ DqItems(Grown(q)) = DqItems(q)
<1>g. PICK g : g = Grown(q)
  OBVIOUS
<1>1. /\ g.size = 2 * q.size + 1 /\ g.begin = 0 /\ g.end = q.size
      /\ g.stor = [k \in 0..2 * q.size |->
                    IF k < q.size - q.begin THEN q.stor[q.begin + k]
                    ELSE IF k < q.size - q.begin + q.end
                    THEN q.stor[k - (q.size - q.begin)] ELSE 0]
      /\ g = [stor |-> g.stor, size |-> g.size, begin |-> g.begin, end |-> g.end]
  BY <1>g DEF Grown
<1>2. q.size \in Nat \ {0} /\ q.begin \in 0..q.size - 1 /\ q.end = q.begin
      /\ q.stor \in [0..q.size - 1 -> Int]
  BY Fields DEF DqFull
<1>3. ASSUME NEW k \in 0..2 * q.size
      PROVE  g.stor[k] = IF k < q.size THEN q.stor[DqCell(q, k)] ELSE 0
  <2>1. CASE k < q.size - q.begin
    BY <2>1, <1>1, <1>2, SMTT(30) DEF DqCell
  <2>2. CASE k >= q.size - q.begin /\ k < q.size
    BY <2>2, <1>1, <1>2, SMTT(30) DEF DqCell
  <2>3. CASE k >= q.size
    BY <2>3, <1>1, <1>2
  <2> QED BY <2>1, <2>2, <2>3, <1>2
<1>4. IsDQueue(g)
  <2>1. ASSUME NEW k \in 0..2 * q.size
        PROVE  g.stor[k] \in Int
    <3>1. CASE k < q.size
      <4>1. k \in 0..q.size - 1
        BY <3>1, <1>2
      <4>2. DqCell(q, k) \in 0..q.size - 1
        BY <4>1, CellBounds
      <4> QED BY <4>1, <4>2, <3>1, <1>2, <1>3
    <3> QED BY <3>1, <1>3
  <2>2. g.stor \in [0..g.size - 1 -> Int]
    <3>1. DOMAIN g.stor = 0..2 * q.size /\ g.size - 1 = 2 * q.size
      BY <1>1, <1>2
    <3>2. g.stor = [k \in 0..2 * q.size |-> g.stor[k]]
      BY <1>1
    <3> QED BY <3>1, <3>2, <2>1
  <2>3. g.size \in Nat \ {0} /\ g.begin \in 0..g.size - 1 /\ g.end \in -1..g.size - 1
    BY <1>1, <1>2, SMTT(30)
  <2> HIDE <1>g
  <2>4. IsDQueue([stor |-> g.stor, size |-> g.size, begin |-> g.begin, end |-> g.end])
    BY <2>2, <2>3, Build
  <2> QED BY <2>4, <1>1
<1>5. ~DqFull(g)
  BY <1>1, <1>2 DEF DqFull
<1>6. DqSize(g) = q.size /\ DqSize(q) = q.size
  BY <1>1, <1>2 DEF DqSize, NULL
<1>7. ASSUME NEW n \in 1..q.size
      PROVE  DqItems(g)[n] = DqItems(q)[n]
  <2>1. n - 1 \in 0..2 * q.size /\ n - 1 < q.size /\ DqCell(g, n - 1) = n - 1
    BY <1>1, <1>2 DEF DqCell
  <2>2. g.stor[n - 1] = q.stor[DqCell(q, n - 1)]
    BY <2>1, <1>3
  <2> QED BY <2>1, <2>2, <1>4, <1>6, ItemsSeq, SMTT(30)
<1>8. DqItems(g) = DqItems(q)
  BY <1>4, <1>6, <1>7, ItemsSeq, SeqEqual
<1> QED BY <1>g, <1>4, <1>5, <1>8

(* A push into a queue with room appends.                                  *)
LEMMA PushWithRoom ==
  ASSUME NEW q, IsDQueue(q), ~DqFull(q), NEW elem \in Int
  PROVE  /\ IsDQueue(DqPush(q, elem))
         /\ DqItems(DqPush(q, elem)) = Append(DqItems(q), elem)
<1>p. PICK p : p = DqPush(q, elem)
  OBVIOUS
<1>e. PICK end : end = IF q.end = NULL THEN q.begin ELSE q.end
  OBVIOUS
<1>1. /\ q.size \in Nat \ {0} /\ q.begin \in 0..q.size - 1 /\ q.end \in -1..q.size - 1
      /\ q.stor \in [0..q.size - 1 -> Int] /\ q.end # q.begin /\ end \in 0..q.size - 1
  BY <1>e, Fields DEF DqFull, NULL
<1>2. p = [stor |-> [q.stor EXCEPT ![end] = elem], size |-> q.size, begin |-> q.begin,
           end |-> NextCell(q, end)]
  <2>1. p = [q EXCEPT !.stor[end] = elem, !.end = NextCell(q, end)]
    BY <1>p, <1>e DEF DqPush
  <2>2. q = [stor |-> q.stor, size |-> q.size, begin |-> q.begin, end |-> q.end]
    BY Fields
  <2> QED BY <2>1, <2>2
<1>3. /\ p.size = q.size /\ p.begin = q.begin
      /\ p.stor = [q.stor EXCEPT ![end] = elem]
      /\ p.end = IF end + 1 = q.size THEN 0 ELSE end + 1
  BY <1>2 DEF NextCell
<1>4. IsDQueue(p)
  <2>1. [q.stor EXCEPT ![end] = elem] \in [0..q.size - 1 -> Int]
    BY <1>1
  <2>2. NextCell(q, end) \in -1..q.size - 1
    BY <1>1 DEF NextCell
  <2> QED BY <2>1, <2>2, <1>1, <1>2, Build
<1>5. DqSize(p) = DqSize(q) + 1 /\ DqSize(q) \in 0..q.size - 1
  <2>1. PICK z \in Nat : z = q.size
    BY <1>1
  <2>2. PICK b \in 0..z - 1 : b = q.begin
    BY <1>1, <2>1
  <2>3. PICK e \in -1..z - 1 : e = q.end
    BY <1>1, <2>1
  <2>4. PICK f \in 0..z - 1 : f = end
    BY <1>1, <2>1
  <2>5. PICK h \in 0..z - 1 : h = p.end /\ h = IF f + 1 = z THEN 0 ELSE f + 1
    BY <1>3, <2>1, <2>4
  <2>6. e # b /\ f = IF e = -1 THEN b ELSE e
    BY <1>e, <1>1, <2>2, <2>3, <2>4 DEF NULL
  <2>7. DqSize(q) = IF e = -1 THEN 0 ELSE IF b < e THEN e - b ELSE z - b + e
    BY <2>1, <2>2, <2>3 DEF DqSize, NULL
  <2>8. DqSize(p) = IF b < h THEN h - b ELSE z - b + h
    BY <1>3, <2>1, <2>2, <2>5 DEF DqSize, NULL
  <2>9. CASE e = -1
    BY <2>1, <2>5, <2>6, <2>7, <2>8, <2>9
  <2>10. CASE e # -1
    BY <2>1, <2>5, <2>6, <2>7, <2>8, <2>10
  <2> QED BY <2>9, <2>10
<1>6. end = DqCell(q, DqSize(q))
  BY <1>e, <1>1, SMTT(30) DEF DqSize, DqCell, NULL
<1>7. \A n : DqCell(p, n) = DqCell(q, n)
  BY <1>3 DEF DqCell
<1>8. ASSUME NEW n \in 1..DqSize(p)
      PROVE  DqItems(p)[n] = Append(DqItems(q), elem)[n]
  <2>1. DqItems(p)[n] = p.stor[DqCell(q, n - 1)]
    BY <1>4, <1>7, ItemsSeq
  <2>2. Len(DqItems(q)) = DqSize(q) /\ DqItems(q) \in Seq(Int)
    BY ItemsSeq
  <2>3. CASE n = DqSize(p)
    <3>1. n - 1 = DqSize(q) /\ n = Len(DqItems(q)) + 1
      BY <2>2, <2>3, <1>5
    <3>2. DqItems(p)[n] = elem
      BY <3>1, <2>1, <1>1, <1>3, <1>6
    <3> QED BY <3>1, <3>2, <2>2, AppendProperties
  <2>4. CASE n # DqSize(p)
    <3>1. n \in 1..DqSize(q) /\ n - 1 \in 0..q.size - 1 /\ n - 1 # DqSize(q)
      BY <2>4, <1>5, <1>1, SMTT(30)
    <3>2. DqCell(q, n - 1) # end /\ DqCell(q, n - 1) \in 0..q.size - 1
      BY <3>1, <1>5, <1>6, CellBounds
    <3>3. DqItems(q)[n] = q.stor[DqCell(q, n - 1)]
      BY <3>1, ItemsSeq
    <3> QED BY <3>1, <3>2, <3>3, <2>1, <2>2, <1>1, <1>3, AppendProperties, SMTT(30)
  <2> QED BY <2>3, <2>4
<1>9. DqItems(p) = Append(DqItems(q), elem)
  <2>1. /\ DqItems(p) \in Seq(Int) /\ Len(DqItems(p)) = DqSize(p)
        /\ DqItems(q) \in Seq(Int) /\ Len(DqItems(q)) = DqSize(q)
    BY <1>4, ItemsSeq
  <2>2. Append(DqItems(q), elem) \in Seq(Int) /\ Len(Append(DqItems(q), elem)) = DqSize(p)
    BY <2>1, <1>5, AppendProperties
  <2> QED BY <2>1, <2>2, <1>8, SeqEqual
<1> QED BY <1>p, <1>4, <1>9

(* igraph_dqueue_push appends to the sequence, whether the cells have to   *)
(* grow or not.                                                            *)
THEOREM PushAppends ==
  ASSUME NEW q, IsDQueue(q), NEW elem \in Int
  PROVE  /\ IsDQueue(DqPush(q, elem))
         /\ DqItems(DqPush(q, elem)) = Append(DqItems(q), elem)
<1>1. CASE ~DqFull(q)
  BY <1>1, PushWithRoom
<1>2. CASE DqFull(q)
  <2>1. IsDQueue(Grown(q)) /\ ~DqFull(Grown(q)) /\ DqItems(Grown(q)) = DqItems(q)
    BY <1>2, GrownKeeps
  <2>2. DqPush(q, elem) = DqPush(Grown(q), elem)
    BY <1>2, <2>1, Zenon DEF DqPush
  <2> QED BY <2>1, <2>2, PushWithRoom
<1> QED BY <1>1, <1>2

(* igraph_dqueue_pop takes the head of the sequence, and leaves the queue  *)
(* empty, not full, when it was the only element.                          *)
THEOREM PopTakesHead ==
  ASSUME NEW q, IsDQueue(q), ~DqEmpty(q)
  PROVE  /\ IsDQueue(DqPop(q))
         /\ DqHead(q) = Head(DqItems(q))
         /\ DqItems(DqPop(q)) = Tail(DqItems(q))
<1>p. PICK p : p = DqPop(q)
  OBVIOUS
<1>1. /\ q.size \in Nat \ {0} /\ q.begin \in 0..q.size - 1 /\ q.end \in 0..q.size - 1
      /\ q.stor \in [0..q.size - 1 -> Int]
  BY Fields DEF DqEmpty, NULL
<1>2. p = [stor |-> q.stor, size |-> q.size, begin |-> NextCell(q, q.begin),
           end |-> IF NextCell(q, q.begin) = q.end THEN NULL ELSE q.end]
  <2>1. q = [stor |-> q.stor, size |-> q.size, begin |-> q.begin, end |-> q.end]
    BY Fields
  <2> QED BY <2>1, <1>p DEF DqPop
<1>3. /\ p.size = q.size /\ p.stor = q.stor
      /\ p.begin = IF q.begin + 1 = q.size THEN 0 ELSE q.begin + 1
      /\ p.end = IF p.begin = q.end THEN -1 ELSE q.end
  BY <1>2 DEF NextCell, NULL
<1>4. IsDQueue(p)
  <2>1. p.begin \in 0..q.size - 1 /\ p.end \in -1..q.size - 1
    BY <1>1, <1>3, SMTT(30)
  <2>2. p = [stor |-> q.stor, size |-> q.size, begin |-> p.begin, end |-> p.end]
    BY <1>2
  <2> QED BY <2>1, <2>2, <1>1, Build
<1>5. DqSize(q) = DqSize(p) + 1 /\ DqSize(p) \in 0..q.size - 1
  <2>1. CASE p.begin = q.end
    <3>1. DqSize(p) = 0
      BY <2>1, <1>3 DEF DqSize, NULL
    <3>2. CASE q.begin + 1 = q.size
      BY <3>1, <3>2, <2>1, <1>1, <1>3 DEF DqSize, NULL
    <3>3. CASE q.begin + 1 # q.size
      BY <3>1, <3>3, <2>1, <1>1, <1>3, SMTT(30) DEF DqSize, NULL
    <3> QED BY <3>2, <3>3
  <2>2. CASE p.begin # q.end /\ q.begin + 1 = q.size
    BY <2>2, <1>1, <1>3, SMTT(30) DEF DqSize, NULL
  <2>3. CASE p.begin # q.end /\ q.begin + 1 # q.size
    <3>1. p.begin = q.begin + 1 /\ p.end = q.end /\ q.end # NULL
      BY <2>3, <1>1, <1>3 DEF NULL
    <3>2. CASE q.begin < q.end
      BY <3>1, <3>2, <2>3, <1>1, <1>3, SMTT(30) DEF DqSize
    <3>3. CASE ~(q.begin < q.end)
      BY <3>1, <3>3, <2>3, <1>1, <1>3, SMTT(30) DEF DqSize
    <3> QED BY <3>2, <3>3
  <2> QED BY <2>1, <2>2, <2>3
<1>6. ASSUME NEW n \in 0..q.size - 2
      PROVE  DqCell(p, n) = DqCell(q, n + 1)
  <2>1. CASE q.begin + 1 = q.size
    <3>1. p.begin = 0 /\ p.size = q.size
      BY <2>1, <1>3
    <3>2. PICK z \in Int : z = q.size
      BY <1>1
    <3>3. n \in Int /\ 0 <= n /\ n < z /\ q.begin = z - 1
      BY <2>1, <3>2, <1>1, SMTT(30)
    <3>4. DqCell(p, n) = IF 0 + n < z THEN 0 + n ELSE 0 + n - z
      BY <3>1, <3>2 DEF DqCell
    <3>5. DqCell(q, n + 1) = IF z - 1 + (n + 1) < z THEN z - 1 + (n + 1) ELSE z - 1 + (n + 1) - z
      BY <3>2, <3>3 DEF DqCell
    <3> QED BY <3>3, <3>4, <3>5
  <2>2. CASE q.begin + 1 # q.size
    <3>1. p.begin = q.begin + 1 /\ p.size = q.size
      BY <2>2, <1>3
    <3>2. PICK b \in Int : b = q.begin
      BY <1>1
    <3>3. PICK z \in Int : z = q.size
      BY <1>1
    <3>4. n \in Int
      BY <3>3
    <3>5. DqCell(p, n) = IF b + 1 + n < z THEN b + 1 + n ELSE b + 1 + n - z
      BY <3>1, <3>2, <3>3 DEF DqCell
    <3>6. DqCell(q, n + 1) = IF b + (n + 1) < z THEN b + (n + 1) ELSE b + (n + 1) - z
      BY <3>2, <3>3 DEF DqCell
    <3>7. b + 1 + n = b + (n + 1)
      BY <3>4
    <3> QED BY <3>5, <3>6, <3>7
  <2> QED BY <2>1, <2>2
<1>7. DqCell(q, 0) = q.begin
  BY <1>1 DEF DqCell
<1>8. /\ DqItems(p) \in Seq(Int) /\ Len(DqItems(p)) = DqSize(p)
      /\ DqItems(q) \in Seq(Int) /\ Len(DqItems(q)) = DqSize(q) /\ DqItems(q) # << >>
  BY <1>4, <1>5, ItemsSeq
<1>9. DqHead(q) = Head(DqItems(q))
  <2>1. DqItems(q)[1] = q.stor[DqCell(q, 0)]
    BY <1>5, ItemsSeq
  <2> QED BY <2>1, <1>7, <1>8, HeadTailProperties DEF DqHead
<1>10. DqItems(p) = Tail(DqItems(q))
  <2>1. Tail(DqItems(q)) \in Seq(Int) /\ Len(Tail(DqItems(q))) = DqSize(p)
    BY <1>5, <1>8, HeadTailProperties
  <2>2. ASSUME NEW n \in 1..DqSize(p)
        PROVE  DqItems(p)[n] = Tail(DqItems(q))[n]
    <3>1. n - 1 \in 0..q.size - 2 /\ n + 1 \in 1..DqSize(q)
      BY <1>1, <1>5, SMTT(30)
    <3>2. DqItems(p)[n] = q.stor[DqCell(q, n)]
      <4>1. DqItems(p)[n] = p.stor[DqCell(p, n - 1)]
        BY <1>4, ItemsSeq, Zenon
      <4>2. DqCell(p, n - 1) = DqCell(q, (n - 1) + 1)
        BY <3>1, <1>6, Zenon
      <4>3. p.stor = q.stor /\ (n - 1) + 1 = n
        BY <1>3
      <4> QED BY <4>1, <4>2, <4>3, Zenon
    <3>3. DqItems(q)[n + 1] = q.stor[DqCell(q, n)]
      BY <3>1, ItemsSeq
    <3> QED BY <3>2, <3>3, <2>1, <1>8, HeadTailProperties
  <2> QED BY <2>1, <2>2, <1>8, SeqEqual
<1> QED BY <1>p, <1>4, <1>9, <1>10

(* A turn of igraph_dqueue_shuffle is a swap of whole items: of the        *)
(* elements of the items i and j each takes the other's place, all others  *)
(* stay, and the queue lies where it lay.                                  *)
THEOREM SwapExchanges ==
  ASSUME NEW q, IsDQueue(q), NEW items \in Nat, DqSize(q) = 3 * items,
         NEW i \in 0..items - 1, NEW j \in 0..items - 1
  PROVE  /\ IsDQueue(DqSwap(q, i, j))
         /\ DqSize(DqSwap(q, i, j)) = DqSize(q)
         /\ \A n \in 0..items - 1, d \in 0..2 :
              DqItems(DqSwap(q, i, j))[3 * n + d + 1]
                = DqItems(q)[3 * (IF n = i THEN j ELSE IF n = j THEN i ELSE n) + d + 1]
<1>s. PICK s : s = DqSwap(q, i, j)
  OBVIOUS
<1>1. /\ q.size \in Nat \ {0} /\ q.begin \in 0..q.size - 1 /\ q.end \in -1..q.size - 1
      /\ q.stor \in [0..q.size - 1 -> Int] /\ DqSize(q) \in 0..q.size
  BY Fields, SizeBounds
<1> DEFINE cell(n) == DqCell(q, n)
<1>2. ASSUME NEW n \in 0..items - 1, NEW d \in 0..2
      PROVE  /\ 3 * n + d \in 0..DqSize(q) - 1
             /\ 3 * n + d \in 0..q.size - 1
             /\ DqEPtr(q, 3 * n + d) = cell(3 * n + d)
             /\ cell(3 * n + d) \in 0..q.size - 1
  <2>1. 3 * n + d \in 0..DqSize(q) - 1
    OBVIOUS
  <2>2. 3 * n + d \in 0..q.size - 1
    BY <2>1, <1>1
  <2> QED BY <2>1, <2>2, EPtrFinds, CellBounds
<1>3. \A m, n \in 0..q.size - 1 : cell(m) = cell(n) => m = n
  BY CellBounds
<1> HIDE DEF cell
<1>4. s = [stor |-> [q.stor EXCEPT ![cell(3 * i)]     = q.stor[cell(3 * j)],
                                   ![cell(3 * i + 1)] = q.stor[cell(3 * j + 1)],
                                   ![cell(3 * i + 2)] = q.stor[cell(3 * j + 2)],
                                   ![cell(3 * j)]     = q.stor[cell(3 * i)],
                                   ![cell(3 * j + 1)] = q.stor[cell(3 * i + 1)],
                                   ![cell(3 * j + 2)] = q.stor[cell(3 * i + 2)]],
           size |-> q.size, begin |-> q.begin, end |-> q.end]
  <2>1. /\ DqEPtr(q, 3 * i) = cell(3 * i) /\ DqEPtr(q, 3 * j) = cell(3 * j)
        /\ DqEPtr(q, 3 * i + 1) = cell(3 * i + 1) /\ DqEPtr(q, 3 * j + 1) = cell(3 * j + 1)
        /\ DqEPtr(q, 3 * i + 2) = cell(3 * i + 2) /\ DqEPtr(q, 3 * j + 2) = cell(3 * j + 2)
    <3>1. 3 * i + 0 = 3 * i /\ 3 * j + 0 = 3 * j
      OBVIOUS
    <3> QED BY <3>1, <1>2
  <2>2. q = [stor |-> q.stor, size |-> q.size, begin |-> q.begin, end |-> q.end]
    BY Fields
  <2> QED BY <2>1, <2>2, <1>s DEF DqSwap
<1> DEFINE f == s.stor
<1>5. /\ f = [q.stor EXCEPT ![cell(3 * i)]     = q.stor[cell(3 * j)],
                            ![cell(3 * i + 1)] = q.stor[cell(3 * j + 1)],
                            ![cell(3 * i + 2)] = q.stor[cell(3 * j + 2)],
                            ![cell(3 * j)]     = q.stor[cell(3 * i)],
                            ![cell(3 * j + 1)] = q.stor[cell(3 * i + 1)],
                            ![cell(3 * j + 2)] = q.stor[cell(3 * i + 2)]]
      /\ s = [stor |-> f, size |-> q.size, begin |-> q.begin, end |-> q.end]
      /\ s.size = q.size /\ s.begin = q.begin /\ s.end = q.end
  BY <1>4
<1> HIDE DEF f
<1>6. ASSUME NEW n \in 0..items - 1, NEW m \in 0..items - 1, NEW d \in 0..2, NEW e \in 0..2,
             cell(3 * n + d) = cell(3 * m + e)
      PROVE  n = m /\ d = e
  <2>1. 3 * n + d = 3 * m + e
    BY <1>2, <1>3, <1>6
  <2> QED BY <2>1
<1>7. /\ cell(3 * i) = cell(3 * i + 0) /\ cell(3 * j) = cell(3 * j + 0)
  OBVIOUS
<1>8. /\ cell(3 * i) # cell(3 * i + 1) /\ cell(3 * i) # cell(3 * i + 2)
      /\ cell(3 * i + 1) # cell(3 * i + 2) /\ cell(3 * j) # cell(3 * j + 1)
      /\ cell(3 * j) # cell(3 * j + 2) /\ cell(3 * j + 1) # cell(3 * j + 2)
  BY <1>6, <1>7
<1>9. /\ cell(3 * i) \in 0..q.size - 1 /\ cell(3 * i + 1) \in 0..q.size - 1
      /\ cell(3 * i + 2) \in 0..q.size - 1 /\ cell(3 * j) \in 0..q.size - 1
      /\ cell(3 * j + 1) \in 0..q.size - 1 /\ cell(3 * j + 2) \in 0..q.size - 1
  BY <1>2, <1>7
<1>10. IsDQueue(s)
  <2>1. f \in [0..q.size - 1 -> Int]
    BY <1>1, <1>5, <1>9
  <2> QED BY <2>1, <1>1, <1>5, Build
<1>11. DqSize(s) = DqSize(q) /\ \A n : DqCell(s, n) = cell(n)
  BY <1>5 DEF DqSize, DqCell, cell
<1>12. ASSUME NEW n \in 0..items - 1, NEW d \in 0..2
       PROVE  f[cell(3 * n + d)]
                = q.stor[cell(3 * (IF n = i THEN j ELSE IF n = j THEN i ELSE n) + d)]
  <2>1. CASE n # i /\ n # j
    <3>1. /\ cell(3 * n + d) # cell(3 * i) /\ cell(3 * n + d) # cell(3 * i + 1)
          /\ cell(3 * n + d) # cell(3 * i + 2) /\ cell(3 * n + d) # cell(3 * j)
          /\ cell(3 * n + d) # cell(3 * j + 1) /\ cell(3 * n + d) # cell(3 * j + 2)
      BY <2>1, <1>6, <1>7
    <3>2. cell(3 * n + d) \in 0..q.size - 1
      BY <1>2
    <3> QED BY <3>1, <3>2, <2>1, <1>1, <1>5
  <2>2. CASE n = j
    <3>1. /\ f[cell(3 * j)] = q.stor[cell(3 * i)]
          /\ f[cell(3 * j + 1)] = q.stor[cell(3 * i + 1)]
          /\ f[cell(3 * j + 2)] = q.stor[cell(3 * i + 2)]
      BY <1>1, <1>5, <1>8, <1>9
    <3> QED BY <3>1, <2>2, <1>7
  <2>3. CASE n = i /\ i # j
    <3>1. /\ cell(3 * i) \notin {cell(3 * j), cell(3 * j + 1), cell(3 * j + 2)}
          /\ cell(3 * i + 1) \notin {cell(3 * j), cell(3 * j + 1), cell(3 * j + 2)}
          /\ cell(3 * i + 2) \notin {cell(3 * j), cell(3 * j + 1), cell(3 * j + 2)}
      BY <2>3, <1>6, <1>7
    <3>2. /\ f[cell(3 * i)] = q.stor[cell(3 * j)]
          /\ f[cell(3 * i + 1)] = q.stor[cell(3 * j + 1)]
          /\ f[cell(3 * i + 2)] = q.stor[cell(3 * j + 2)]
      BY <3>1, <1>1, <1>5, <1>8, <1>9
    <3> QED BY <3>2, <2>3, <1>7
  <2> QED BY <2>1, <2>2, <2>3
<1>13. ASSUME NEW n \in 0..items - 1, NEW d \in 0..2
       PROVE  DqItems(s)[3 * n + d + 1]
                = DqItems(q)[3 * (IF n = i THEN j ELSE IF n = j THEN i ELSE n) + d + 1]
  <2> DEFINE to == IF n = i THEN j ELSE IF n = j THEN i ELSE n
  <2>1. to \in 0..items - 1
    OBVIOUS
  <2>2. f[cell(3 * n + d)] = q.stor[cell(3 * to + d)]
    BY <1>12
  <2> HIDE DEF to
  <2>3. 3 * n + d \in 0..DqSize(q) - 1 /\ 3 * to + d \in 0..DqSize(q) - 1
    BY <2>1, <1>2
  <2>4. DqItems(s)[3 * n + d + 1] = f[cell(3 * n + d)]
    <3>1. PICK m : m = 3 * n + d + 1
      OBVIOUS
    <3>2. m \in 1..DqSize(s) /\ m - 1 = 3 * n + d
      BY <3>1, <2>3, <1>1, <1>11
    <3>3. DqItems(s)[m] = s.stor[DqCell(s, m - 1)]
      BY <3>2, <1>10, ItemsSeq
    <3> QED BY <3>1, <3>2, <3>3, <1>11 DEF f
  <2>5. DqItems(q)[3 * to + d + 1] = q.stor[cell(3 * to + d)]
    <3>1. PICK m : m = 3 * to + d + 1
      OBVIOUS
    <3>2. m \in 1..DqSize(q) /\ m - 1 = 3 * to + d
      BY <3>1, <2>1, <2>3, <1>1
    <3>3. DqItems(q)[m] = q.stor[DqCell(q, m - 1)]
      BY <3>2, ItemsSeq
    <3> QED BY <3>1, <3>2, <3>3 DEF cell
  <2>6. DqItems(s)[3 * n + d + 1] = DqItems(q)[3 * to + d + 1]
    BY <2>2, <2>4, <2>5
  <2> QED BY <2>6 DEF to
<1> QED BY <1>s, <1>10, <1>11, <1>13

-----------------------------------------------------------------------------
(* The search.                                                             *)

CONSTANTS QueueSize, FinallySize

VARIABLES links, root, queue, qptr, added, parents, vids, layers, lastlayer, depth,
          neis, pos, nvect, actdist, finally, pc

Bfs == INSTANCE Bfs WITH adj <- links, i <- pos

(* The queues of the search are these queues.                              *)
LEMMA SameQueue ==
  ASSUME NEW q
  PROVE  /\ Bfs!DqEmpty(q) = DqEmpty(q)
         /\ Bfs!DqSize(q) = DqSize(q)
         /\ Bfs!DqHead(q) = DqHead(q)
         /\ Bfs!DqPop(q) = DqPop(q)
         /\ Bfs!DqItems(q) = DqItems(q)
         /\ \A e : Bfs!DqPush(q, e) = DqPush(q, e)
         /\ \A a, b : Bfs!DqSwap(q, a, b) = DqSwap(q, a, b)
<1>1. /\ Bfs!DqEmpty(q) = DqEmpty(q)
      /\ Bfs!DqSize(q) = DqSize(q)
      /\ Bfs!DqHead(q) = DqHead(q)
  BY DEF Bfs!DqEmpty, DqEmpty, Bfs!DqSize, DqSize, Bfs!DqHead, DqHead, Bfs!NULL, NULL
<1>2. Bfs!DqPop(q) = DqPop(q)
  BY DEF Bfs!DqPop, DqPop, Bfs!NextCell, NextCell, Bfs!NULL, NULL
<1>3. Bfs!DqItems(q) = DqItems(q)
  BY <1>1 DEF Bfs!DqItems, DqItems, Bfs!DqCell, DqCell
<1>4. \A e : Bfs!DqPush(q, e) = DqPush(q, e)
  <2>1. Bfs!Grown(q) = Grown(q) /\ Bfs!DqFull(q) = DqFull(q) /\ Bfs!NULL = NULL
    BY DEF Bfs!Grown, Grown, Bfs!DqFull, DqFull, Bfs!NULL, NULL
  <2>2. \A r, k : Bfs!NextCell(r, k) = NextCell(r, k)
    BY DEF Bfs!NextCell, NextCell
  <2> TAKE e
  <2>3. PICK room : room = IF DqFull(q) THEN Grown(q) ELSE q
    OBVIOUS
  <2>4. PICK end : end = IF room.end = NULL THEN room.begin ELSE room.end
    OBVIOUS
  <2>5. DqPush(q, e) = [room EXCEPT !.stor[end] = e, !.end = NextCell(room, end)]
    BY <2>3, <2>4, Zenon DEF DqPush
  <2>6. Bfs!DqPush(q, e) = [room EXCEPT !.stor[end] = e, !.end = Bfs!NextCell(room, end)]
    BY <2>1, <2>3, <2>4, Zenon DEF Bfs!DqPush
  <2>7. Bfs!NextCell(room, end) = NextCell(room, end)
    BY <2>2
  <2> QED BY <2>5, <2>6, <2>7, Zenon
<1>5. \A a, b : Bfs!DqSwap(q, a, b) = DqSwap(q, a, b)
  BY DEF Bfs!DqSwap, DqSwap, Bfs!DqEPtr, DqEPtr, Bfs!NULL, NULL
<1> QED BY <1>1, <1>2, <1>3, <1>4, <1>5

(* An item of the queue, and all of them: igraph_i_bfs pushes a child, its *)
(* parent and the distance of the parent.                                  *)
Item(q, n) == <<DqItems(q)[3 * n + 1], DqItems(q)[3 * n + 2], DqItems(q)[3 * n + 3]>>

IsItemQueue(q) == IsDQueue(q) /\ \E n \in Nat : DqSize(q) = 3 * n

Waits(q) == {Item(q, n) : n \in 0..(DqSize(q) \div 3) - 1}

(* The number of items as the code has it.                                 *)
LEMMA ItemCount ==
  ASSUME NEW q, NEW n \in Nat, IsDQueue(q), DqSize(q) = 3 * n
  PROVE  /\ IsItemQueue(q)
         /\ Bfs!Items(q) = n
         /\ Waits(q) = {Item(q, k) : k \in 0..n - 1}
         /\ Len(DqItems(q)) = 3 * n /\ DqItems(q) \in Seq(Int)
         /\ DqEmpty(q) <=> n = 0
<1>1. DqSize(q) \div 3 = n
  OBVIOUS
<1>2. Bfs!Items(q) = n
  BY <1>1, SameQueue DEF Bfs!Items
<1>3. Waits(q) = {Item(q, k) : k \in 0..n - 1}
  BY <1>1 DEF Waits
<1>4. Len(DqItems(q)) = 3 * n /\ DqItems(q) \in Seq(Int)
  BY ItemsSeq
<1>5. DqEmpty(q) <=> n = 0
  BY SizeBounds
<1> QED BY <1>2, <1>3, <1>4, <1>5 DEF IsItemQueue

(* A queue is empty when no item waits in it, and the pairs of the search  *)
(* are the items without their distances.                                  *)
LEMMA ItemsWaiting ==
  ASSUME NEW q, IsItemQueue(q)
  PROVE  /\ Bfs!DqEmpty(q) <=> Waits(q) = {}
         /\ Bfs!Triples(q) = {<<t[1], t[2]>> : t \in Waits(q)}
<1>1. PICK n \in Nat : IsDQueue(q) /\ DqSize(q) = 3 * n
  BY DEF IsItemQueue
<1>2. /\ Bfs!Items(q) = n
      /\ Waits(q) = {Item(q, k) : k \in 0..n - 1}
      /\ DqEmpty(q) <=> n = 0
  BY <1>1, ItemCount
<1>3. Bfs!DqEmpty(q) <=> Waits(q) = {}
  <2>1. CASE n = 0
    BY <2>1, <1>2, SameQueue
  <2>2. CASE n # 0
    <3>1. Item(q, 0) \in Waits(q)
      BY <2>2, <1>2
    <3> QED BY <3>1, <2>2, <1>2, SameQueue
  <2> QED BY <2>1, <2>2
<1>4. Bfs!Triples(q) = {<<Item(q, k)[1], Item(q, k)[2]>> : k \in 0..n - 1}
  BY <1>2, SameQueue DEF Bfs!Triples, Item
<1>5. Bfs!Triples(q) = {<<t[1], t[2]>> : t \in Waits(q)}
  BY <1>2, <1>4
<1> QED BY <1>3, <1>5

(* No item waits in a new queue.                                           *)
LEMMA NewItems ==
  ASSUME NEW size \in Int
  PROVE  /\ IsItemQueue(DqInit(size)) /\ Waits(DqInit(size)) = {}
         /\ Bfs!DqInit(size) = DqInit(size)
<1>1. IsDQueue(DqInit(size)) /\ DqEmpty(DqInit(size))
  BY NewQueue
<1>2. DqSize(DqInit(size)) = 3 * 0
  BY <1>1, SizeBounds
<1>3. IsItemQueue(DqInit(size)) /\ Waits(DqInit(size)) = {Item(DqInit(size), k) : k \in 0..0 - 1}
  BY <1>1, <1>2, ItemCount
<1>4. Bfs!DqInit(size) = DqInit(size)
  BY DEF Bfs!DqInit, DqInit, Bfs!NULL, NULL
<1> QED BY <1>3, <1>4

(* Pushing three values adds an item, wherever the cells end.              *)
LEMMA PushItem ==
  ASSUME NEW q, IsItemQueue(q), NEW c \in Int, NEW p \in Int, NEW d \in Int
  PROVE  /\ IsItemQueue(Bfs!PushTriple(q, c, p, d))
         /\ Waits(Bfs!PushTriple(q, c, p, d)) = Waits(q) \cup {<<c, p, d>>}
<1>1. PICK n \in Nat : IsDQueue(q) /\ DqSize(q) = 3 * n
  BY DEF IsItemQueue
<1>2. PICK q1 : q1 = DqPush(q, c)
  OBVIOUS
<1>3. PICK q2 : q2 = DqPush(q1, p)
  OBVIOUS
<1>4. PICK r : r = DqPush(q2, d)
  OBVIOUS
<1>5. r = Bfs!PushTriple(q, c, p, d)
  BY <1>2, <1>3, <1>4, SameQueue DEF Bfs!PushTriple
<1>6. IsDQueue(q1) /\ DqItems(q1) = Append(DqItems(q), c)
  BY <1>1, <1>2, PushAppends
<1>7. IsDQueue(q2) /\ DqItems(q2) = Append(DqItems(q1), p)
  BY <1>3, <1>6, PushAppends
<1>8. IsDQueue(r) /\ DqItems(r) = Append(DqItems(q2), d)
  BY <1>4, <1>7, PushAppends
<1> HIDE <1>2, <1>3, <1>4
<1>9. DqItems(q) \in Seq(Int) /\ Len(DqItems(q)) = 3 * n
  BY <1>1, ItemsSeq
<1>10. /\ DqItems(r) \in Seq(Int) /\ Len(DqItems(r)) = 3 * n + 3
       /\ DqItems(r)[3 * n + 1] = c /\ DqItems(r)[3 * n + 2] = p /\ DqItems(r)[3 * n + 3] = d
       /\ \A k \in 1..3 * n : DqItems(r)[k] = DqItems(q)[k]
  <2>1. /\ DqItems(q1) \in Seq(Int) /\ Len(DqItems(q1)) = 3 * n + 1
        /\ DqItems(q1)[3 * n + 1] = c
        /\ \A k \in 1..3 * n : DqItems(q1)[k] = DqItems(q)[k]
    BY <1>6, <1>9, AppendProperties
  <2>2. /\ DqItems(q2) \in Seq(Int) /\ Len(DqItems(q2)) = 3 * n + 2
        /\ DqItems(q2)[3 * n + 2] = p
        /\ \A k \in 1..3 * n + 1 : DqItems(q2)[k] = DqItems(q1)[k]
    BY <2>1, <1>7, AppendProperties, SMTT(30)
  <2>3. /\ DqItems(r) \in Seq(Int) /\ Len(DqItems(r)) = 3 * n + 3
        /\ DqItems(r)[3 * n + 3] = d
        /\ \A k \in 1..3 * n + 2 : DqItems(r)[k] = DqItems(q2)[k]
    BY <2>2, <1>8, AppendProperties, SMTT(30)
  <2> QED BY <2>1, <2>2, <2>3
<1>11. DqSize(r) = 3 * (n + 1) /\ n + 1 \in Nat
  <2>1. Len(DqItems(r)) = DqSize(r)
    BY <1>8, ItemsSeq
  <2> QED BY <2>1, <1>10
<1>12. IsItemQueue(r) /\ Waits(r) = {Item(r, k) : k \in 0..(n + 1) - 1}
  BY <1>8, <1>11, ItemCount
<1>13. Waits(q) = {Item(q, k) : k \in 0..n - 1}
  BY <1>1, ItemCount
<1>14. Item(r, n) = <<c, p, d>>
  BY <1>10 DEF Item
<1>15. ASSUME NEW k \in 0..n - 1 PROVE Item(r, k) = Item(q, k)
  <2>1. 3 * k + 1 \in 1..3 * n /\ 3 * k + 2 \in 1..3 * n /\ 3 * k + 3 \in 1..3 * n
    OBVIOUS
  <2> QED BY <2>1, <1>10 DEF Item
<1>16. 0..(n + 1) - 1 = (0..n - 1) \cup {n}
  OBVIOUS
<1>17. Waits(r) = Waits(q) \cup {<<c, p, d>>}
  BY <1>12, <1>13, <1>14, <1>15, <1>16
<1> QED BY <1>5, <1>12, <1>17

(* Popping three values takes an item, and none of the others.             *)
LEMMA PopItem ==
  ASSUME NEW q, IsItemQueue(q), Waits(q) # {}
  PROVE  /\ IsItemQueue(Bfs!Popped(q).rest)
         /\ Waits(q) = Waits(Bfs!Popped(q).rest)
                         \cup {<<Bfs!Popped(q).child, Bfs!Popped(q).parent, Bfs!Popped(q).dist>>}
<1>1. PICK n \in Nat : IsDQueue(q) /\ DqSize(q) = 3 * n
  BY DEF IsItemQueue
<1>2. /\ Waits(q) = {Item(q, k) : k \in 0..n - 1}
      /\ n # 0 /\ ~DqEmpty(q)
  <2>1. Waits(q) = {Item(q, k) : k \in 0..n - 1} /\ (DqEmpty(q) <=> n = 0)
    BY <1>1, ItemCount
  <2>2. n # 0
    <3> SUFFICES ASSUME n = 0 PROVE FALSE
      OBVIOUS
    <3>1. 0..n - 1 = {}
      OBVIOUS
    <3> QED BY <3>1, <2>1
  <2> QED BY <2>1, <2>2
<1>3. PICK q1 : q1 = DqPop(q)
  OBVIOUS
<1>4. PICK q2 : q2 = DqPop(q1)
  OBVIOUS
<1>5. PICK r : r = DqPop(q2)
  OBVIOUS
<1>6. /\ Bfs!Popped(q).rest = r /\ Bfs!Popped(q).child = DqHead(q)
      /\ Bfs!Popped(q).parent = DqHead(q1) /\ Bfs!Popped(q).dist = DqHead(q2)
  BY <1>3, <1>4, <1>5, SameQueue DEF Bfs!Popped
<1>7. DqItems(q) \in Seq(Int) /\ Len(DqItems(q)) = 3 * n
  BY <1>1, ItemsSeq
<1>8. IsDQueue(q1) /\ DqHead(q) = Head(DqItems(q)) /\ DqItems(q1) = Tail(DqItems(q))
  BY <1>1, <1>2, <1>3, PopTakesHead
<1>9. /\ DqItems(q1) \in Seq(Int) /\ Len(DqItems(q1)) = 3 * n - 1
      /\ \A k \in 1..3 * n - 1 : DqItems(q1)[k] = DqItems(q)[k + 1]
      /\ DqHead(q) = DqItems(q)[1]
  BY <1>2, <1>7, <1>8, HeadTailProperties, SMTT(30)
<1>10. ~DqEmpty(q1)
  BY <1>2, <1>8, <1>9, ItemsSeq, SizeBounds
<1>11. IsDQueue(q2) /\ DqHead(q1) = Head(DqItems(q1)) /\ DqItems(q2) = Tail(DqItems(q1))
  BY <1>4, <1>8, <1>10, PopTakesHead
<1>12. /\ DqItems(q2) \in Seq(Int) /\ Len(DqItems(q2)) = 3 * n - 2
       /\ \A k \in 1..3 * n - 2 : DqItems(q2)[k] = DqItems(q1)[k + 1]
       /\ DqHead(q1) = DqItems(q1)[1]
  BY <1>2, <1>9, <1>11, HeadTailProperties
<1>13. ~DqEmpty(q2)
  BY <1>2, <1>11, <1>12, ItemsSeq, SizeBounds
<1>14. IsDQueue(r) /\ DqHead(q2) = Head(DqItems(q2)) /\ DqItems(r) = Tail(DqItems(q2))
  BY <1>5, <1>11, <1>13, PopTakesHead
<1>15. /\ DqItems(r) \in Seq(Int) /\ Len(DqItems(r)) = 3 * n - 3
       /\ \A k \in 1..3 * n - 3 : DqItems(r)[k] = DqItems(q2)[k + 1]
       /\ DqHead(q2) = DqItems(q2)[1]
  BY <1>2, <1>12, <1>14, HeadTailProperties
<1> HIDE <1>3, <1>4, <1>5
<1>16. <<DqHead(q), DqHead(q1), DqHead(q2)>> = Item(q, 0)
  <2>1. 1 \in 1..3 * n - 1 /\ 1 \in 1..3 * n - 2 /\ 2 \in 1..3 * n - 1
    BY <1>2
  <2>2. DqHead(q1) = DqItems(q)[2] /\ DqHead(q2) = DqItems(q)[3]
    BY <2>1, <1>9, <1>12, <1>15
  <2> QED BY <2>2, <1>9 DEF Item
<1>17. ASSUME NEW k \in 1..3 * n - 3 PROVE DqItems(r)[k] = DqItems(q)[k + 3]
  <2>1. /\ k + 1 \in 1..3 * n - 2 /\ k + 2 \in 1..3 * n - 1
        /\ (k + 1) + 1 = k + 2 /\ (k + 2) + 1 = k + 3
    OBVIOUS
  <2> QED BY <2>1, <1>9, <1>12, <1>15
<1>18. DqSize(r) = 3 * (n - 1) /\ n - 1 \in Nat
  BY <1>2, <1>14, <1>15, ItemsSeq
<1>19. IsItemQueue(r) /\ Waits(r) = {Item(r, k) : k \in 0..(n - 1) - 1}
  BY <1>14, <1>18, ItemCount
<1>20. ASSUME NEW k \in 0..(n - 1) - 1 PROVE Item(r, k) = Item(q, k + 1)
  <2>1. /\ 3 * k + 1 \in 1..3 * n - 3 /\ 3 * k + 2 \in 1..3 * n - 3 /\ 3 * k + 3 \in 1..3 * n - 3
        /\ (3 * k + 1) + 3 = 3 * (k + 1) + 1 /\ (3 * k + 2) + 3 = 3 * (k + 1) + 2
        /\ (3 * k + 3) + 3 = 3 * (k + 1) + 3
    OBVIOUS
  <2> QED BY <2>1, <1>17 DEF Item
<1>21. Waits(q) = Waits(r) \cup {Item(q, 0)}
  <2>1. ASSUME NEW t \in Waits(q) PROVE t \in Waits(r) \cup {Item(q, 0)}
    <3>1. PICK k \in 0..n - 1 : t = Item(q, k)
      BY <2>1, <1>2
    <3>2. CASE k = 0
      BY <3>1, <3>2
    <3>3. CASE k # 0
      <4>1. k - 1 \in 0..(n - 1) - 1 /\ (k - 1) + 1 = k
        BY <3>3
      <4>2. t = Item(r, k - 1)
        BY <4>1, <3>1, <1>20
      <4> QED BY <4>1, <4>2, <1>19
    <3> QED BY <3>2, <3>3
  <2>2. ASSUME NEW t \in Waits(r) PROVE t \in Waits(q)
    <3>1. PICK k \in 0..(n - 1) - 1 : t = Item(r, k)
      BY <2>2, <1>19
    <3>2. k + 1 \in 0..n - 1 /\ t = Item(q, k + 1)
      BY <3>1, <1>20
    <3> QED BY <3>2, <1>2
  <2>3. Item(q, 0) \in Waits(q)
    BY <1>2
  <2> QED BY <2>1, <2>2, <2>3
<1> QED BY <1>6, <1>16, <1>19, <1>21

(* A turn of the shuffle keeps the items.                                  *)
LEMMA SwapItems ==
  ASSUME NEW q, IsItemQueue(q),
         NEW a \in 0..Bfs!Items(q) - 1, NEW b \in 0..Bfs!Items(q) - 1
  PROVE  IsItemQueue(Bfs!DqSwap(q, a, b)) /\ Waits(Bfs!DqSwap(q, a, b)) = Waits(q)
<1>1. PICK n \in Nat : IsDQueue(q) /\ DqSize(q) = 3 * n
  BY DEF IsItemQueue
<1>2. Bfs!Items(q) = n /\ Waits(q) = {Item(q, k) : k \in 0..n - 1}
  BY <1>1, ItemCount
<1>3. a \in 0..n - 1 /\ b \in 0..n - 1
  BY <1>2
<1>4. PICK s : s = DqSwap(q, a, b)
  OBVIOUS
<1>5. /\ IsDQueue(s)
      /\ DqSize(s) = DqSize(q)
      /\ \A k \in 0..n - 1, d \in 0..2 :
           DqItems(s)[3 * k + d + 1]
             = DqItems(q)[3 * (IF k = a THEN b ELSE IF k = b THEN a ELSE k) + d + 1]
  BY <1>1, <1>3, <1>4, SwapExchanges
<1>6. s = Bfs!DqSwap(q, a, b)
  BY <1>4, SameQueue
<1> HIDE <1>4
<1>7. IsItemQueue(s) /\ Waits(s) = {Item(s, k) : k \in 0..n - 1}
  BY <1>1, <1>5, ItemCount
<1> DEFINE to(k) == IF k = a THEN b ELSE IF k = b THEN a ELSE k
<1>8. ASSUME NEW k \in 0..n - 1
      PROVE  to(k) \in 0..n - 1 /\ to(to(k)) = k /\ Item(s, k) = Item(q, to(k))
  <2>1. to(k) \in 0..n - 1 /\ to(to(k)) = k
    BY <1>3
  <2>2. \A d \in 0..2 : DqItems(s)[3 * k + d + 1] = DqItems(q)[3 * to(k) + d + 1]
    BY <1>5
  <2> HIDE DEF to
  <2>3. PICK m \in Int : m = to(k)
    BY <2>1
  <2>4. /\ 3 * k + 0 + 1 = 3 * k + 1 /\ 3 * k + 1 + 1 = 3 * k + 2 /\ 3 * k + 2 + 1 = 3 * k + 3
        /\ 3 * m + 0 + 1 = 3 * m + 1 /\ 3 * m + 1 + 1 = 3 * m + 2 /\ 3 * m + 2 + 1 = 3 * m + 3
    OBVIOUS
  <2>5. Item(s, k) = Item(q, m)
    BY <2>2, <2>3, <2>4 DEF Item
  <2> QED BY <2>1, <2>3, <2>5
<1> HIDE DEF to
<1>9. Waits(s) = Waits(q)
  <2>1. ASSUME NEW t \in Waits(s) PROVE t \in Waits(q)
    BY <2>1, <1>2, <1>7, <1>8
  <2>2. ASSUME NEW t \in Waits(q) PROVE t \in Waits(s)
    <3>1. PICK k \in 0..n - 1 : t = Item(q, k)
      BY <2>2, <1>2
    <3>2. to(k) \in 0..n - 1 /\ Item(s, to(k)) = Item(q, k)
      BY <1>8
    <3> QED BY <3>1, <3>2, <1>7
  <2> QED BY <2>1, <2>2
<1> QED BY <1>6, <1>7, <1>9

-----------------------------------------------------------------------------
(* The invariant of igraph_i_bfs.                                          *)

Vertices == DOMAIN links

Running == pc \in {"children", "level", "shuffle", "pop", "scan"}

QueuesOK ==
  /\ DOMAIN queue = {"q", "nq"} /\ qptr \in {"q", "nq"}
  /\ IsItemQueue(queue["q"]) /\ IsItemQueue(queue["nq"])
  /\ ~Running => Waits(queue["q"]) = {} /\ Waits(queue["nq"]) = {}

GraphOK == \E n \in Nat : links \in [0..n - 1 -> Seq(0..n - 1)]

(* An item names a vertex, one that was added, and its distance.           *)
ItemRight(t) == t[1] \in Vertices /\ t[2] \in added /\ t[3] = depth[t[2]]

LoopOK == neis \in Seq(Vertices) /\ pos \in 0..Len(neis)

RunningOK ==
  /\ added \subseteq Vertices /\ root \in added /\ depth \in [Vertices -> Nat]
  /\ \A x \in {"q", "nq"} : \A t \in Waits(queue[x]) : ItemRight(t)
  /\ pc = "children" => LoopOK /\ qptr = "q" /\ added = {root} /\ depth[root] = 0
  /\ pc \in {"children", "level", "shuffle"} => Waits(queue[Bfs!nqptr]) = {}
  /\ pc = "shuffle" => pos \in Nat
  /\ pc = "scan" => /\ LoopOK /\ nvect \in added
                    /\ actdist \in Nat /\ depth[nvect] = actdist + 1

BfsInv ==
  /\ pc \in {"idle", "abort", "children", "level", "shuffle", "pop", "scan", "done"}
  /\ GraphOK /\ QueuesOK
  /\ Running => RunningOK

(* The layer that was begun last; -1 stands for that of the root.          *)
Top == IF lastlayer = -1 THEN 0 ELSE lastlayer

(* The items of the level that is searched are of distance d, those of the *)
(* next one further, and its layer has begun when there are any.           *)
AtLevel(d) ==
  /\ \A t \in Waits(queue[qptr]) : t[3] = d
  /\ \A t \in Waits(queue[Bfs!nqptr]) : t[3] = d + 1 /\ Top = d + 1
  /\ Top \in {d, d + 1}
  /\ pc \in {"children", "level", "shuffle"} => Top = d
  /\ pc = "scan" => Top = d + 1 /\ actdist = d

(* A vertex comes after the beginning of its layer, and not after that of  *)
(* the next.                                                               *)
InLayer(k, d) ==
  /\ d <= Top /\ layers[d + 1] < k
  /\ d < Top => k <= layers[d + 2]

LayersOK ==
  /\ vids \in Seq(Vertices) /\ layers \in Seq(Nat) /\ lastlayer \in Nat \cup {-1}
  /\ {vids[k] : k \in DOMAIN vids} = added
  /\ Len(layers) = Top + 1 /\ layers[Top + 1] <= Len(vids)
  /\ \A k \in DOMAIN vids : InLayer(k, depth[vids[k]])
  /\ \E d \in Nat : AtLevel(d)
  /\ pc = "children" => lastlayer = -1

LayersInv == (Running => LayersOK) /\ Bfs!LayersRight

(* The push of an item that names a vertex, an added one and its distance. *)
LEMMA PushRight ==
  ASSUME BfsInv, Running, NEW x \in {"q", "nq"}, NEW c \in Vertices, NEW p \in added
  PROVE  LET r == Bfs!PushTriple(queue[x], c, p, depth[p])
         IN  /\ IsItemQueue(r)
             /\ Waits(r) = Waits(queue[x]) \cup {<<c, p, depth[p]>>}
             /\ \A t \in Waits(r) : ItemRight(t)
<1>1. c \in Int /\ p \in Int /\ depth[p] \in Int
  BY DEF BfsInv, GraphOK, RunningOK, Vertices
<1>2. IsItemQueue(queue[x])
  BY DEF BfsInv, QueuesOK
<1>3. PICK r : r = Bfs!PushTriple(queue[x], c, p, depth[p])
  OBVIOUS
<1>4. IsItemQueue(r) /\ Waits(r) = Waits(queue[x]) \cup {<<c, p, depth[p]>>}
  BY <1>1, <1>2, <1>3, PushItem
<1>5. \A t \in Waits(r) : ItemRight(t)
  BY <1>4 DEF BfsInv, RunningOK, ItemRight
<1> QED BY <1>3, <1>4, <1>5

(* The item that is popped.                                                *)
LEMMA PopRight ==
  ASSUME BfsInv, Running, ~Bfs!DqEmpty(queue[qptr])
  PROVE  LET p == Bfs!Popped(queue[qptr])
         IN  /\ IsItemQueue(p.rest)
             /\ Waits(queue[qptr]) = Waits(p.rest) \cup {<<p.child, p.parent, p.dist>>}
             /\ p.child \in Vertices /\ p.parent \in added /\ p.dist = depth[p.parent]
<1>1. IsItemQueue(queue[qptr])
  BY DEF BfsInv, QueuesOK
<1>2. Waits(queue[qptr]) # {}
  BY <1>1, ItemsWaiting
<1>3. PICK p : p = Bfs!Popped(queue[qptr])
  OBVIOUS
<1>4. /\ IsItemQueue(p.rest)
      /\ Waits(queue[qptr]) = Waits(p.rest) \cup {<<p.child, p.parent, p.dist>>}
  BY <1>1, <1>2, <1>3, PopItem
<1>5. ItemRight(<<p.child, p.parent, p.dist>>)
  BY <1>4 DEF BfsInv, QueuesOK, RunningOK
<1> QED BY <1>3, <1>4, <1>5 DEF ItemRight

(* The children of the root, one after the other.                          *)
LEMMA ChildInv ==
  ASSUME BfsInv, Bfs!Child
  PROVE  BfsInv'
<1>1. Running /\ RunningOK /\ GraphOK /\ QueuesOK
  BY DEF BfsInv, Bfs!Child, Running
<1>2. /\ pc = "children" /\ pos < Len(neis) /\ pos' = pos + 1
      /\ queue' = [queue EXCEPT !["q"] = Bfs!PushTriple(queue["q"], neis[pos + 1], root, 0)]
      /\ links' = links /\ root' = root /\ qptr' = qptr /\ added' = added /\ depth' = depth
      /\ neis' = neis /\ pc' = pc /\ nvect' = nvect /\ actdist' = actdist
  BY DEF Bfs!Child, Bfs!results
<1>3. /\ neis \in Seq(Vertices) /\ pos \in 0..Len(neis) /\ qptr = "q" /\ depth[root] = 0
      /\ root \in added /\ neis[pos + 1] \in Vertices /\ added = {root}
  BY <1>1, <1>2 DEF RunningOK, LoopOK
<1>4. PICK r : r = Bfs!PushTriple(queue["q"], neis[pos + 1], root, 0)
  OBVIOUS
<1>5. IsItemQueue(r) /\ \A t \in Waits(r) : ItemRight(t)
  BY <1>1, <1>3, <1>4, PushRight
<1>6. queue'["q"] = r /\ queue'["nq"] = queue["nq"] /\ DOMAIN queue' = DOMAIN queue
  BY <1>1, <1>2, <1>4 DEF QueuesOK
<1>7. QueuesOK'
  BY <1>1, <1>2, <1>5, <1>6 DEF QueuesOK, Running
<1>8. RunningOK'
  <2>1. \A x \in {"q", "nq"} : \A t \in Waits(queue'[x]) : ItemRight(t)
    BY <1>1, <1>5, <1>6 DEF RunningOK
  <2>2. \A t : ItemRight(t)' <=> ItemRight(t)
    BY <1>2 DEF ItemRight, Vertices
  <2>3. Waits(queue'[Bfs!nqptr']) = {}
    BY <1>1, <1>2, <1>3, <1>6 DEF RunningOK, Bfs!nqptr
  <2>4. LoopOK'
    BY <1>2, <1>3 DEF LoopOK, Vertices
  <2> QED BY <2>1, <2>2, <2>3, <2>4, <1>1, <1>2, <1>3 DEF RunningOK, Vertices
<1> QED BY <1>1, <1>2, <1>7, <1>8 DEF BfsInv, GraphOK

(* The shuffle leaves the items of the level as they are.                  *)
LEMMA SwapInv ==
  ASSUME BfsInv, NEW j \in pos..Bfs!Items(queue[qptr]) - 1, Bfs!Swap(j)
  PROVE  BfsInv'
<1>1. Running /\ RunningOK /\ GraphOK /\ QueuesOK
  BY DEF BfsInv, Bfs!Swap, Running
<1>2. /\ pc = "shuffle" /\ pos < Bfs!Items(queue[qptr]) - 1 /\ pos' = pos + 1
      /\ queue' = [queue EXCEPT ![qptr] = Bfs!DqSwap(queue[qptr], pos, j)]
      /\ links' = links /\ root' = root /\ qptr' = qptr /\ added' = added /\ depth' = depth
      /\ pc' = pc
  BY DEF Bfs!Swap, Bfs!results
<1>3. pos \in Nat /\ IsItemQueue(queue[qptr])
  BY <1>1, <1>2 DEF RunningOK, QueuesOK
<1>4. PICK r : r = Bfs!DqSwap(queue[qptr], pos, j)
  OBVIOUS
<1>5. Bfs!Items(queue[qptr]) \in Nat
  BY <1>3, ItemCount DEF IsItemQueue
<1>6. IsItemQueue(r) /\ Waits(r) = Waits(queue[qptr])
  <2>1. pos \in 0..Bfs!Items(queue[qptr]) - 1 /\ j \in 0..Bfs!Items(queue[qptr]) - 1
    BY <1>2, <1>3, <1>5
  <2> QED BY <2>1, <1>3, <1>4, SwapItems
<1>7. /\ queue'[qptr] = r /\ DOMAIN queue' = DOMAIN queue
      /\ \A x \in {"q", "nq"} : x # qptr => queue'[x] = queue[x]
  BY <1>1, <1>2, <1>4 DEF QueuesOK
<1>8. \A x \in {"q", "nq"} : IsItemQueue(queue'[x]) /\ Waits(queue'[x]) = Waits(queue[x])
  BY <1>1, <1>6, <1>7 DEF QueuesOK
<1>9. QueuesOK'
  BY <1>1, <1>2, <1>7, <1>8 DEF QueuesOK, Running
<1>10. RunningOK'
  <2>1. \A t : ItemRight(t)' <=> ItemRight(t)
    BY <1>2 DEF ItemRight, Vertices
  <2>2. Bfs!nqptr' = Bfs!nqptr /\ Bfs!nqptr \in {"q", "nq"}
    BY <1>1, <1>2 DEF Bfs!nqptr
  <2> QED BY <2>1, <2>2, <1>1, <1>2, <1>3, <1>8 DEF RunningOK, Vertices
<1> QED BY <1>1, <1>2, <1>9, <1>10 DEF BfsInv, GraphOK

(* Steps of the search that leave both queues alone.                       *)
LEMMA QuietInv ==
  ASSUME BfsInv,
         \/ Bfs!ChildrenDone \/ Bfs!Shuffle \/ Bfs!Shuffled \/ Bfs!Scanned
  PROVE  BfsInv'
<1>1. Running /\ RunningOK /\ GraphOK /\ QueuesOK
  BY DEF BfsInv, Bfs!ChildrenDone, Bfs!Shuffle, Bfs!Shuffled, Bfs!Scanned, Running
<1>2. /\ queue' = queue /\ qptr' = qptr /\ links' = links /\ root' = root /\ added' = added
      /\ depth' = depth
      /\ pc' \in {"level", "shuffle", "pop"}
      /\ pc' \in {"level", "shuffle"} => pc \in {"children", "level"}
      /\ pc' = "shuffle" => pos' = 0
  BY DEF Bfs!ChildrenDone, Bfs!Shuffle, Bfs!Shuffled, Bfs!Scanned, Bfs!results, Bfs!locals
<1>3. QueuesOK'
  BY <1>1, <1>2 DEF QueuesOK, Running
<1>4. RunningOK'
  <2>1. \A t : ItemRight(t)' <=> ItemRight(t)
    BY <1>2 DEF ItemRight, Vertices
  <2> QED BY <2>1, <1>1, <1>2 DEF RunningOK, Bfs!nqptr, Vertices
<1> QED BY <1>1, <1>2, <1>3, <1>4 DEF BfsInv, GraphOK

(* A vertex that was added before is passed over.                          *)
LEMMA PopKnownInv ==
  ASSUME BfsInv, Bfs!PopKnown
  PROVE  BfsInv'
<1>1. Running /\ RunningOK /\ GraphOK /\ QueuesOK /\ ~Bfs!DqEmpty(queue[qptr])
  BY DEF BfsInv, Bfs!PopKnown, Running
<1>2. PICK p : p = Bfs!Popped(queue[qptr])
  OBVIOUS
<1>3. /\ pc = "pop" /\ queue' = [queue EXCEPT ![qptr] = p.rest]
      /\ links' = links /\ root' = root /\ qptr' = qptr /\ added' = added /\ depth' = depth
      /\ pc' = pc
  BY <1>2 DEF Bfs!PopKnown, Bfs!results
<1>4. IsItemQueue(p.rest) /\ Waits(p.rest) \subseteq Waits(queue[qptr])
  BY <1>1, <1>2, PopRight
<1>5. /\ queue'[qptr] = p.rest /\ DOMAIN queue' = DOMAIN queue
      /\ \A x \in {"q", "nq"} : x # qptr => queue'[x] = queue[x]
  BY <1>1, <1>3 DEF QueuesOK
<1>6. QueuesOK'
  BY <1>1, <1>3, <1>4, <1>5 DEF QueuesOK, Running
<1>7. RunningOK'
  <2>1. \A t : ItemRight(t)' <=> ItemRight(t)
    BY <1>3 DEF ItemRight, Vertices
  <2> QED BY <2>1, <1>1, <1>3, <1>4, <1>5 DEF RunningOK, Vertices
<1> QED BY <1>1, <1>3, <1>6, <1>7 DEF BfsInv, GraphOK

(* A vertex is added, and its neighbours are the next to be looked at.     *)
LEMMA PopNewInv ==
  ASSUME BfsInv, Bfs!PopNew
  PROVE  BfsInv'
<1>1. Running /\ RunningOK /\ GraphOK /\ QueuesOK /\ ~Bfs!DqEmpty(queue[qptr])
  BY DEF BfsInv, Bfs!PopNew, Running
<1>2. PICK p : p = Bfs!Popped(queue[qptr])
  OBVIOUS
<1>3. /\ pc = "pop" /\ queue' = [queue EXCEPT ![qptr] = p.rest]
      /\ p.child \notin added /\ added' = added \cup {p.child}
      /\ depth' = [depth EXCEPT ![p.child] = p.dist + 1]
      /\ nvect' = p.child /\ actdist' = p.dist /\ neis' = links[p.child] /\ pos' = 0
      /\ links' = links /\ root' = root /\ qptr' = qptr /\ pc' = "scan"
  BY <1>2 DEF Bfs!PopNew
<1>4. /\ IsItemQueue(p.rest) /\ Waits(p.rest) \subseteq Waits(queue[qptr])
      /\ p.child \in Vertices /\ p.parent \in added /\ p.dist = depth[p.parent]
  BY <1>1, <1>2, PopRight
<1>5. /\ queue'[qptr] = p.rest /\ DOMAIN queue' = DOMAIN queue
      /\ \A x \in {"q", "nq"} : x # qptr => queue'[x] = queue[x]
  BY <1>1, <1>3 DEF QueuesOK
<1>6. QueuesOK'
  BY <1>1, <1>3, <1>4, <1>5 DEF QueuesOK, Running
<1>7. RunningOK'
  <2>1. depth \in [Vertices -> Nat] /\ added \subseteq Vertices /\ p.dist \in Nat
    BY <1>1, <1>4 DEF RunningOK
  <2>2. /\ depth' \in [Vertices -> Nat] /\ depth'[p.child] = p.dist + 1
        /\ \A v \in added : depth'[v] = depth[v]
    BY <2>1, <1>3, <1>4
  <2>3. ASSUME NEW t, ItemRight(t) PROVE ItemRight(t)'
    BY <2>2, <2>3, <1>3 DEF ItemRight, Vertices
  <2>4. \A x \in {"q", "nq"} : \A t \in Waits(queue'[x]) : ItemRight(t)
    BY <1>1, <1>4, <1>5 DEF RunningOK
  <2>5. LoopOK'
    <3>1. links[p.child] \in Seq(Vertices)
      BY <1>1, <1>4 DEF GraphOK, Vertices
    <3> QED BY <3>1, <1>3 DEF LoopOK, Vertices
  <2>6. added' \subseteq Vertices' /\ root' \in added' /\ Vertices' = Vertices
    BY <2>1, <1>1, <1>3, <1>4 DEF RunningOK, Vertices
  <2> QED BY <2>1, <2>2, <2>3, <2>4, <2>5, <2>6, <1>3 DEF RunningOK
<1> QED BY <1>1, <1>3, <1>6, <1>7 DEF BfsInv, GraphOK

(* A neighbour waits in the other queue, unless it was added.              *)
LEMMA ScanInv ==
  ASSUME BfsInv, Bfs!Scan
  PROVE  BfsInv'
<1>1. Running /\ RunningOK /\ GraphOK /\ QueuesOK
  BY DEF BfsInv, Bfs!Scan, Running
<1>2. /\ pc = "scan" /\ pos < Len(neis) /\ pos' = pos + 1
      /\ queue' = IF neis[pos + 1] \in added THEN queue
                  ELSE [queue EXCEPT ![Bfs!nqptr] =
                          Bfs!PushTriple(queue[Bfs!nqptr], neis[pos + 1], nvect, actdist + 1)]
      /\ links' = links /\ root' = root /\ qptr' = qptr /\ added' = added /\ depth' = depth
      /\ neis' = neis /\ pc' = pc /\ nvect' = nvect /\ actdist' = actdist
  BY DEF Bfs!Scan, Bfs!results
<1>3. /\ neis \in Seq(Vertices) /\ pos \in 0..Len(neis) /\ neis[pos + 1] \in Vertices
      /\ nvect \in added /\ actdist \in Nat /\ depth[nvect] = actdist + 1
  BY <1>1, <1>2 DEF RunningOK, LoopOK
<1>4. PICK o : o = Bfs!nqptr
  OBVIOUS
<1>5. o \in {"q", "nq"}
  BY <1>4 DEF Bfs!nqptr
<1>6. PICK r : r = Bfs!PushTriple(queue[o], neis[pos + 1], nvect, actdist + 1)
  OBVIOUS
<1>7. IsItemQueue(r) /\ \A t \in Waits(r) : ItemRight(t)
  BY <1>1, <1>3, <1>5, <1>6, PushRight
<1>8. /\ queue'[o] \in {queue[o], r} /\ DOMAIN queue' = DOMAIN queue
      /\ \A x \in {"q", "nq"} : x # o => queue'[x] = queue[x]
  BY <1>1, <1>2, <1>4, <1>5, <1>6 DEF QueuesOK
<1>9. QueuesOK'
  BY <1>1, <1>2, <1>5, <1>7, <1>8 DEF QueuesOK, Running
<1>10. RunningOK'
  <2>1. \A t : ItemRight(t)' <=> ItemRight(t)
    BY <1>2 DEF ItemRight, Vertices
  <2>2. \A x \in {"q", "nq"} : \A t \in Waits(queue'[x]) : ItemRight(t)
    BY <1>1, <1>7, <1>8 DEF RunningOK
  <2>3. LoopOK'
    BY <1>2, <1>3 DEF LoopOK, Vertices
  <2> QED BY <2>1, <2>2, <2>3, <1>1, <1>2, <1>3 DEF RunningOK, Vertices
<1> QED BY <1>1, <1>2, <1>9, <1>10 DEF BfsInv, GraphOK

(* The queues change places when the level is over.                        *)
LEMMA EndLevelInv ==
  ASSUME BfsInv, Bfs!EndLevel
  PROVE  BfsInv'
<1>1. Running /\ RunningOK /\ GraphOK /\ QueuesOK /\ Bfs!DqEmpty(queue[qptr])
  BY DEF BfsInv, Bfs!EndLevel, Running
<1>2. /\ qptr' = Bfs!nqptr /\ queue' = queue /\ links' = links /\ root' = root
      /\ added' = added /\ depth' = depth /\ pc' = "level"
  BY DEF Bfs!EndLevel, Bfs!results
<1>3. Waits(queue[qptr]) = {}
  BY <1>1, ItemsWaiting DEF QueuesOK
<1>4. QueuesOK'
  BY <1>1, <1>2 DEF QueuesOK, Running, Bfs!nqptr
<1>5. RunningOK'
  <2>1. \A t : ItemRight(t)' <=> ItemRight(t)
    BY <1>2 DEF ItemRight, Vertices
  <2>2. Bfs!nqptr' = qptr
    BY <1>1, <1>2 DEF QueuesOK, Bfs!nqptr
  <2> QED BY <2>1, <2>2, <1>1, <1>2, <1>3 DEF RunningOK, Vertices
<1> QED BY <1>1, <1>2, <1>4, <1>5 DEF BfsInv, GraphOK

(* What lies outside the search: the queues are new and empty.             *)
LEMMA OutsideInv ==
  ASSUME QueueSize \in Int, BfsInv,
         \/ Bfs!Return \/ Bfs!Edit \/ Bfs!Forget \/ Bfs!Abort
         \/ \E vid \in Bfs!Nodes : Bfs!Call(vid)
  PROVE  BfsInv'
<1>1. PICK new : new = DqInit(QueueSize)
  OBVIOUS
<1>2. IsItemQueue(new) /\ Waits(new) = {} /\ Bfs!DqInit(QueueSize) = new
  BY <1>1, NewItems
<1>3. CASE Bfs!Return
  <2>1. /\ queue' = [x \in {"q", "nq"} |-> new] /\ links' = links /\ pc' = "done"
        /\ qptr' = qptr
    BY <1>2, <1>3 DEF Bfs!Return
  <2> QED BY <2>1, <1>2 DEF BfsInv, GraphOK, QueuesOK, Running
<1>4. CASE Bfs!Edit
  BY <1>4 DEF Bfs!Edit, BfsInv, GraphOK, QueuesOK, Running
<1>5. CASE Bfs!Forget
  BY <1>5 DEF Bfs!Forget, BfsInv, GraphOK, QueuesOK, Running
<1>6. CASE Bfs!Abort
  BY <1>6 DEF Bfs!Abort, BfsInv, GraphOK, QueuesOK, Running
<1>7. CASE \E vid \in Bfs!Nodes : Bfs!Call(vid)
  <2>1. PICK vid \in Vertices : Bfs!Call(vid)
    BY <1>7 DEF Bfs!Nodes, Vertices
  <2>2. /\ queue' = [x \in {"q", "nq"} |-> new] /\ links' = links /\ pc' = "children"
        /\ qptr' = "q" /\ added' = {vid} /\ root' = vid /\ depth' = [v \in Vertices |-> 0]
        /\ neis' = links[vid] /\ pos' = 0
    BY <2>1, <1>2 DEF Bfs!Call, Bfs!Nodes, Vertices
  <2>3. queue'["q"] = new /\ queue'["nq"] = new /\ Vertices' = Vertices
    BY <2>2 DEF Vertices
  <2>4. LoopOK'
    BY <2>2, <2>3 DEF LoopOK, BfsInv, GraphOK, Vertices
  <2>5. QueuesOK'
    BY <2>2, <2>3, <1>2 DEF QueuesOK, Running
  <2>6. RunningOK'
    BY <2>2, <2>3, <2>4, <1>2 DEF RunningOK, Bfs!nqptr
  <2> QED BY <2>2, <2>5, <2>6 DEF BfsInv, GraphOK
<1> QED BY <1>3, <1>4, <1>5, <1>6, <1>7

(* The queues and the loops of igraph_i_bfs fit together at every step.    *)
LEMMA BfsInvariant ==
  ASSUME QueueSize \in Int
  PROVE  Bfs!Spec => []BfsInv
<1>1. Bfs!Init => BfsInv
  <2> SUFFICES ASSUME Bfs!Init PROVE BfsInv
    OBVIOUS
  <2>1. PICK new : new = DqInit(QueueSize)
    OBVIOUS
  <2>2. IsItemQueue(new) /\ Waits(new) = {} /\ Bfs!DqInit(QueueSize) = new
    BY <2>1, NewItems
  <2>3. /\ queue = [x \in {"q", "nq"} |-> new] /\ qptr = "q" /\ pc = "idle"
        /\ links = [v \in {} |-> << >>]
    BY <2>2 DEF Bfs!Init, Bfs!NoResults
  <2>4. GraphOK
    <3>1. 0..0 - 1 = {}
      OBVIOUS
    <3>2. links \in [0..0 - 1 -> Seq(0..0 - 1)]
      BY <3>1, <2>3
    <3> QED BY <3>2 DEF GraphOK
  <2> QED BY <2>2, <2>3, <2>4 DEF BfsInv, QueuesOK, Running
<1>2. BfsInv /\ [Bfs!Next]_(Bfs!vars) => BfsInv'
  <2> SUFFICES ASSUME BfsInv, [Bfs!Next]_(Bfs!vars) PROVE BfsInv'
    OBVIOUS
  <2>1. CASE UNCHANGED Bfs!vars
    BY <2>1 DEF Bfs!vars, Bfs!results, Bfs!locals, BfsInv, GraphOK, QueuesOK, Running, RunningOK,
                ItemRight, LoopOK, Vertices, Bfs!nqptr
  <2>2. CASE Bfs!Step
    BY <2>2, ChildInv, QuietInv, SwapInv, PopKnownInv, PopNewInv, ScanInv, EndLevelInv,
       OutsideInv DEF Bfs!Step
  <2> QED BY <2>1, <2>2, OutsideInv DEF Bfs!Next
<1> QED BY <1>1, <1>2, PTL DEF Bfs!Spec

-----------------------------------------------------------------------------
(* The refinement: what waits, as pairs.                                   *)

Pairs(q) == {<<t[1], t[2]>> : t \in Waits(q)}

(* One item more is one pair more.                                         *)
LEMMA PairsMore ==
  ASSUME NEW q, NEW r, NEW t, Waits(r) = Waits(q) \cup {t}
  PROVE  Pairs(r) = Pairs(q) \cup {<<t[1], t[2]>>}
BY DEF Pairs

(* The two fronts as the code holds them: the items of a queue and the     *)
(* rest of the loop over the neighbours.                                   *)
WhatWaits ==
  /\ Bfs!Frontier = {e \in Pairs(queue[qptr])
                             \cup IF pc = "children" THEN Bfs!Remaining(root) ELSE {} :
                      e[1] \notin added}
  /\ Bfs!Ahead = {e \in Pairs(queue[Bfs!nqptr])
                          \cup IF pc = "scan" THEN Bfs!Remaining(nvect) ELSE {} :
                   e[1] \notin added}

(* The mapping takes the fronts from there.                                *)
LEMMA Fronts == BfsInv => WhatWaits
<1> SUFFICES ASSUME BfsInv PROVE WhatWaits
  OBVIOUS
<1>1. qptr \in {"q", "nq"} /\ Bfs!nqptr \in {"q", "nq"}
  BY DEF BfsInv, QueuesOK, Bfs!nqptr
<1>2. \A x \in {"q", "nq"} : Bfs!Triples(queue[x]) = Pairs(queue[x])
  BY ItemsWaiting DEF BfsInv, QueuesOK, Pairs
<1> QED BY <1>1, <1>2 DEF Bfs!Frontier, Bfs!Ahead, WhatWaits, Bfs!New

(* The same after a step.                                                  *)
LEMMA FrontsNext == BfsInv' => WhatWaits'
BY Fronts, PTL

(* Outside the search nothing waits.                                       *)
LEMMA NothingWaits == BfsInv /\ ~Running => Bfs!Frontier = {} /\ Bfs!Ahead = {}
<1> SUFFICES ASSUME BfsInv, ~Running PROVE Bfs!Frontier = {} /\ Bfs!Ahead = {}
  OBVIOUS
<1>1. Pairs(queue[qptr]) = {} /\ Pairs(queue[Bfs!nqptr]) = {}
  BY DEF BfsInv, QueuesOK, Bfs!nqptr, Pairs
<1>2. pc # "children" /\ pc # "scan"
  BY DEF Running
<1> QED BY <1>1, <1>2, Fronts DEF WhatWaits

(* The same after a step.                                                  *)
LEMMA NothingWaitsNext == (BfsInv /\ ~Running)' => (Bfs!Frontier = {} /\ Bfs!Ahead = {})'
BY NothingWaits, PTL

(* A vertex is its neighbours' way in.                                     *)
LEMMA ReachesAll ==
  ASSUME GraphOK, NEW v \in Vertices
  PROVE  /\ DOMAIN Bfs!Reaches = Vertices
         /\ Bfs!Reaches[v] = {links[v][k] : k \in 1..Len(links[v])}
<1>1. DOMAIN links[v] = 1..Len(links[v])
  BY DEF GraphOK, Vertices
<1> QED BY <1>1 DEF Bfs!Reaches, Bfs!Nodes, Vertices

(* Steps of the loops and of the shuffle move pairs from the list of       *)
(* neighbours to a queue and around in it: what waits stays the same.      *)
LEMMA QuietMaps ==
  ASSUME BfsInv, BfsInv',
         \/ Bfs!ChildrenDone \/ Bfs!Shuffle \/ Bfs!Shuffled \/ Bfs!Scanned
  PROVE  UNCHANGED Bfs!Abstract!vars
<1>1. /\ queue' = queue /\ qptr' = qptr /\ links' = links /\ root' = root /\ added' = added
      /\ depth' = depth /\ parents' = parents
      /\ nvect' = nvect /\ neis' = neis /\ Bfs!nqptr' = Bfs!nqptr
  BY DEF Bfs!ChildrenDone, Bfs!Shuffle, Bfs!Shuffled, Bfs!Scanned, Bfs!results, Bfs!locals,
         Bfs!nqptr
<1>2. /\ pc \in {"children", "scan"} => pos = Len(neis)
      /\ pc' \notin {"children", "scan"}
      /\ Bfs!Phase' = "level" /\ Bfs!Phase = "level"
  BY DEF Bfs!ChildrenDone, Bfs!Shuffle, Bfs!Shuffled, Bfs!Scanned, Bfs!Phase
<1>3. pc \in {"children", "scan"} => \A v : Bfs!Remaining(v) = {}
  <2> SUFFICES ASSUME pc \in {"children", "scan"} PROVE \A v : Bfs!Remaining(v) = {}
    OBVIOUS
  <2>1. Len(neis) \in Nat /\ pos = Len(neis)
    BY <1>2 DEF BfsInv, Running, RunningOK, LoopOK
  <2>2. pos + 1..Len(neis) = {}
    BY <2>1
  <2> QED BY <2>2 DEF Bfs!Remaining
<1>4. Bfs!Frontier' = Bfs!Frontier /\ Bfs!Ahead' = Bfs!Ahead
  BY <1>1, <1>2, <1>3, Fronts, FrontsNext DEF WhatWaits, Bfs!New, Pairs
<1> QED BY <1>1, <1>2, <1>4 DEF Bfs!Abstract!vars, Bfs!Reaches, Bfs!Nodes

(* The neighbour the loop is at is the first of those that remain.         *)
LEMMA RemainingNext ==
  ASSUME LoopOK, pos < Len(neis), pos' = pos + 1, neis' = neis, NEW v
  PROVE  Bfs!Remaining(v) = Bfs!Remaining(v)' \cup {<<neis[pos + 1], v>>}
<1>1. PICK m \in Nat : m = pos
  BY DEF LoopOK
<1>2. PICK n \in Nat : n = Len(neis) /\ m < n
  BY <1>1 DEF LoopOK
<1>3. pos' = m + 1 /\ m + 1..n = (m + 1 + 1..n) \cup {m + 1}
  BY <1>1, <1>2
<1>4. Bfs!Remaining(v) = {<<neis[k], v>> : k \in m + 1..n}
  BY <1>1, <1>2 DEF Bfs!Remaining
<1>5. Bfs!Remaining(v)' = {<<neis[k], v>> : k \in m + 1 + 1..n}
  BY <1>2, <1>3 DEF Bfs!Remaining
<1> QED BY <1>1, <1>3, <1>4, <1>5

(* A child goes from the list of neighbours into the queue.                *)
LEMMA ChildMaps ==
  ASSUME BfsInv, BfsInv', Bfs!Child
  PROVE  UNCHANGED Bfs!Abstract!vars
<1>1. Running /\ RunningOK /\ GraphOK /\ QueuesOK
  BY DEF BfsInv, Bfs!Child, Running
<1>2. /\ pc = "children" /\ pos < Len(neis) /\ pos' = pos + 1
      /\ queue' = [queue EXCEPT !["q"] = Bfs!PushTriple(queue["q"], neis[pos + 1], root, 0)]
      /\ links' = links /\ root' = root /\ qptr' = qptr /\ added' = added /\ depth' = depth
      /\ parents' = parents /\ neis' = neis /\ pc' = pc
  BY DEF Bfs!Child, Bfs!results
<1>3. /\ LoopOK /\ qptr = "q" /\ depth[root] = 0 /\ root \in added
      /\ neis[pos + 1] \in Vertices
  BY <1>1, <1>2 DEF RunningOK, LoopOK
<1>4. PICK r : r = Bfs!PushTriple(queue["q"], neis[pos + 1], root, 0)
  OBVIOUS
<1>5. Waits(r) = Waits(queue["q"]) \cup {<<neis[pos + 1], root, 0>>}
  BY <1>1, <1>3, <1>4, PushRight
<1>6. queue'["q"] = r /\ queue'["nq"] = queue["nq"]
  BY <1>1, <1>2, <1>4 DEF QueuesOK
<1>7. Pairs(queue'["q"]) = Pairs(queue["q"]) \cup {<<neis[pos + 1], root>>}
  <2>1. PICK t : t = <<neis[pos + 1], root, 0>>
    OBVIOUS
  <2>2. Pairs(r) = Pairs(queue["q"]) \cup {<<t[1], t[2]>>}
    BY <2>1, <1>5, PairsMore
  <2>3. <<t[1], t[2]>> = <<neis[pos + 1], root>>
    BY <2>1
  <2> QED BY <2>2, <2>3, <1>6
<1>8. Bfs!Remaining(root) = Bfs!Remaining(root)' \cup {<<neis[pos + 1], root>>}
  BY <1>2, <1>3, RemainingNext
<1>9. Bfs!Frontier' = Bfs!Frontier
  <2>1. Bfs!Frontier = Bfs!New(Pairs(queue["q"]) \cup Bfs!Remaining(root))
    BY <1>2, <1>3, Fronts DEF WhatWaits, Bfs!New
  <2>2. Bfs!Frontier' = Bfs!New(Pairs(queue'["q"]) \cup Bfs!Remaining(root)')
    BY <1>2, <1>3, Fronts, FrontsNext DEF WhatWaits, Bfs!New, Pairs
  <2> QED BY <2>1, <2>2, <1>7, <1>8
<1>10. Bfs!Ahead' = Bfs!Ahead
  BY <1>2, <1>3, <1>6, Fronts, FrontsNext DEF WhatWaits, Bfs!New, Bfs!nqptr, Pairs
<1> QED BY <1>2, <1>9, <1>10 DEF Bfs!Abstract!vars, Bfs!Reaches, Bfs!Nodes, Bfs!Phase

(* A neighbour goes from the list into the other queue, or is passed over. *)
LEMMA ScanMaps ==
  ASSUME BfsInv, BfsInv', Bfs!Scan
  PROVE  UNCHANGED Bfs!Abstract!vars
<1>1. Running /\ RunningOK /\ GraphOK /\ QueuesOK
  BY DEF BfsInv, Bfs!Scan, Running
<1>2. /\ pc = "scan" /\ pos < Len(neis) /\ pos' = pos + 1
      /\ queue' = IF neis[pos + 1] \in added THEN queue
                  ELSE [queue EXCEPT ![Bfs!nqptr] =
                          Bfs!PushTriple(queue[Bfs!nqptr], neis[pos + 1], nvect, actdist + 1)]
      /\ links' = links /\ root' = root /\ qptr' = qptr /\ added' = added /\ depth' = depth
      /\ parents' = parents /\ neis' = neis /\ pc' = pc /\ nvect' = nvect
  BY DEF Bfs!Scan, Bfs!results
<1>3. /\ LoopOK /\ nvect \in added /\ depth[nvect] = actdist + 1
      /\ neis[pos + 1] \in Vertices
  BY <1>1, <1>2 DEF RunningOK, LoopOK
<1>4. PICK o : o = Bfs!nqptr
  OBVIOUS
<1>5. o \in {"q", "nq"} /\ o # qptr /\ Bfs!nqptr' = o
  BY <1>1, <1>2, <1>4 DEF Bfs!nqptr, QueuesOK
<1>6. PICK r : r = Bfs!PushTriple(queue[o], neis[pos + 1], nvect, actdist + 1)
  OBVIOUS
<1>7. Waits(r) = Waits(queue[o]) \cup {<<neis[pos + 1], nvect, actdist + 1>>}
  BY <1>1, <1>3, <1>5, <1>6, PushRight
<1>8. /\ queue'[qptr] = queue[qptr]
      /\ queue'[o] = IF neis[pos + 1] \in added THEN queue[o] ELSE r
  BY <1>1, <1>2, <1>4, <1>5, <1>6 DEF QueuesOK
<1>9. Pairs(r) = Pairs(queue[o]) \cup {<<neis[pos + 1], nvect>>}
  <2>1. PICK t : t = <<neis[pos + 1], nvect, actdist + 1>>
    OBVIOUS
  <2>2. Pairs(r) = Pairs(queue[o]) \cup {<<t[1], t[2]>>}
    BY <2>1, <1>7, PairsMore
  <2>3. <<t[1], t[2]>> = <<neis[pos + 1], nvect>>
    BY <2>1
  <2> QED BY <2>2, <2>3
<1>10. Bfs!Remaining(nvect) = Bfs!Remaining(nvect)' \cup {<<neis[pos + 1], nvect>>}
  BY <1>2, <1>3, RemainingNext
<1>11. Bfs!Ahead' = Bfs!Ahead
  <2>1. Bfs!Ahead = Bfs!New(Pairs(queue[o]) \cup Bfs!Remaining(nvect))
    BY <1>2, <1>4, Fronts DEF WhatWaits, Bfs!New
  <2>2. Bfs!Ahead' = Bfs!New(Pairs(queue'[o]) \cup Bfs!Remaining(nvect)')
    BY <1>2, <1>5, Fronts, FrontsNext DEF WhatWaits, Bfs!New, Pairs
  <2>3. CASE neis[pos + 1] \in added
    BY <2>1, <2>2, <2>3, <1>8, <1>10 DEF Bfs!New
  <2>4. CASE neis[pos + 1] \notin added
    BY <2>1, <2>2, <2>4, <1>8, <1>9, <1>10
  <2> QED BY <2>3, <2>4
<1>12. Bfs!Frontier' = Bfs!Frontier
  BY <1>2, <1>8, Fronts, FrontsNext DEF WhatWaits, Bfs!New, Pairs
<1> QED BY <1>2, <1>11, <1>12 DEF Bfs!Abstract!vars, Bfs!Reaches, Bfs!Nodes, Bfs!Phase

(* A swap moves items around.                                              *)
LEMMA SwapMaps ==
  ASSUME BfsInv, BfsInv', NEW j \in pos..Bfs!Items(queue[qptr]) - 1, Bfs!Swap(j)
  PROVE  UNCHANGED Bfs!Abstract!vars
<1>1. Running /\ RunningOK /\ GraphOK /\ QueuesOK
  BY DEF BfsInv, Bfs!Swap, Running
<1>2. /\ pc = "shuffle" /\ pos < Bfs!Items(queue[qptr]) - 1
      /\ queue' = [queue EXCEPT ![qptr] = Bfs!DqSwap(queue[qptr], pos, j)]
      /\ links' = links /\ root' = root /\ qptr' = qptr /\ added' = added /\ depth' = depth
      /\ parents' = parents /\ pc' = pc
  BY DEF Bfs!Swap, Bfs!results
<1>3. pos \in Nat /\ IsItemQueue(queue[qptr])
  BY <1>1, <1>2 DEF RunningOK, QueuesOK
<1>4. PICK r : r = Bfs!DqSwap(queue[qptr], pos, j)
  OBVIOUS
<1>5. Bfs!Items(queue[qptr]) \in Nat
  BY <1>3, ItemCount DEF IsItemQueue
<1>6. Waits(r) = Waits(queue[qptr])
  <2>1. pos \in 0..Bfs!Items(queue[qptr]) - 1 /\ j \in 0..Bfs!Items(queue[qptr]) - 1
    BY <1>2, <1>3, <1>5
  <2> QED BY <2>1, <1>3, <1>4, SwapItems
<1>7. Bfs!nqptr \in {"q", "nq"} /\ Bfs!nqptr # qptr /\ Bfs!nqptr' = Bfs!nqptr
  BY <1>1, <1>2 DEF Bfs!nqptr, QueuesOK
<1>8. queue'[qptr] = r /\ queue'[Bfs!nqptr] = queue[Bfs!nqptr]
  BY <1>1, <1>2, <1>4, <1>7 DEF QueuesOK
<1>9. Pairs(queue'[qptr]) = Pairs(queue[qptr])
  BY <1>6, <1>8 DEF Pairs
<1>10. Bfs!Frontier' = Bfs!Frontier /\ Bfs!Ahead' = Bfs!Ahead
  BY <1>2, <1>7, <1>8, <1>9, Fronts, FrontsNext DEF WhatWaits, Bfs!New, Pairs
<1> QED BY <1>2, <1>10 DEF Bfs!Abstract!vars, Bfs!Reaches, Bfs!Nodes, Bfs!Phase

(* Who was added waits no more: the item that is passed over counts for    *)
(* nothing.                                                                *)
LEMMA PopKnownMaps ==
  ASSUME BfsInv, BfsInv', Bfs!PopKnown
  PROVE  UNCHANGED Bfs!Abstract!vars
<1>1. Running /\ RunningOK /\ GraphOK /\ QueuesOK /\ ~Bfs!DqEmpty(queue[qptr])
  BY DEF BfsInv, Bfs!PopKnown, Running
<1>2. PICK p : p = Bfs!Popped(queue[qptr])
  OBVIOUS
<1>3. /\ pc = "pop" /\ queue' = [queue EXCEPT ![qptr] = p.rest] /\ p.child \in added
      /\ links' = links /\ root' = root /\ qptr' = qptr /\ added' = added /\ depth' = depth
      /\ parents' = parents /\ pc' = pc
  BY <1>2 DEF Bfs!PopKnown, Bfs!results
<1>4. Waits(queue[qptr]) = Waits(p.rest) \cup {<<p.child, p.parent, p.dist>>}
  BY <1>1, <1>2, PopRight
<1>5. Pairs(queue[qptr]) = Pairs(p.rest) \cup {<<p.child, p.parent>>}
  <2>1. PICK t : t = <<p.child, p.parent, p.dist>>
    OBVIOUS
  <2>2. Pairs(queue[qptr]) = Pairs(p.rest) \cup {<<t[1], t[2]>>}
    BY <2>1, <1>4, PairsMore
  <2>3. <<t[1], t[2]>> = <<p.child, p.parent>>
    BY <2>1
  <2> QED BY <2>2, <2>3
<1>6. Bfs!nqptr \in {"q", "nq"} /\ Bfs!nqptr # qptr /\ Bfs!nqptr' = Bfs!nqptr
  BY <1>1, <1>3 DEF Bfs!nqptr, QueuesOK
<1>7. queue'[qptr] = p.rest /\ queue'[Bfs!nqptr] = queue[Bfs!nqptr]
  BY <1>1, <1>3, <1>6 DEF QueuesOK
<1>8. Bfs!Frontier' = Bfs!Frontier
  <2>1. Bfs!Frontier = Bfs!New(Pairs(queue[qptr]))
    BY <1>3, Fronts DEF WhatWaits, Bfs!New
  <2>2. Bfs!Frontier' = Bfs!New(Pairs(p.rest))
    BY <1>3, <1>7, Fronts, FrontsNext DEF WhatWaits, Bfs!New, Pairs
  <2> QED BY <2>1, <2>2, <1>3, <1>5 DEF Bfs!New
<1>9. Bfs!Ahead' = Bfs!Ahead
  BY <1>3, <1>6, <1>7, Fronts, FrontsNext DEF WhatWaits, Bfs!New, Pairs
<1> QED BY <1>3, <1>8, <1>9 DEF Bfs!Abstract!vars, Bfs!Reaches, Bfs!Nodes, Bfs!Phase

(* The first item that names a vertex gives it to its parent.              *)
LEMMA PopNewMaps ==
  ASSUME BfsInv, BfsInv', Bfs!PopNew
  PROVE  Bfs!Abstract!Next
<1>1. Running /\ RunningOK /\ GraphOK /\ QueuesOK /\ ~Bfs!DqEmpty(queue[qptr])
  BY DEF BfsInv, Bfs!PopNew, Running
<1>2. PICK p : p = Bfs!Popped(queue[qptr])
  OBVIOUS
<1>3. /\ pc = "pop" /\ queue' = [queue EXCEPT ![qptr] = p.rest]
      /\ p.child \notin added /\ added' = added \cup {p.child}
      /\ parents' = [parents EXCEPT ![p.child] = p.parent]
      /\ depth' = [depth EXCEPT ![p.child] = p.dist + 1]
      /\ nvect' = p.child /\ neis' = links[p.child] /\ pos' = 0
      /\ links' = links /\ root' = root /\ qptr' = qptr /\ pc' = "scan"
  BY <1>2 DEF Bfs!PopNew
<1>4. /\ Waits(queue[qptr]) = Waits(p.rest) \cup {<<p.child, p.parent, p.dist>>}
      /\ p.child \in Vertices /\ p.parent \in added /\ p.dist = depth[p.parent]
  BY <1>1, <1>2, PopRight
<1>5. Pairs(queue[qptr]) = Pairs(p.rest) \cup {<<p.child, p.parent>>}
  <2>1. PICK t : t = <<p.child, p.parent, p.dist>>
    OBVIOUS
  <2>2. Pairs(queue[qptr]) = Pairs(p.rest) \cup {<<t[1], t[2]>>}
    BY <2>1, <1>4, PairsMore
  <2>3. <<t[1], t[2]>> = <<p.child, p.parent>>
    BY <2>1
  <2> QED BY <2>2, <2>3
<1>6. Bfs!nqptr \in {"q", "nq"} /\ Bfs!nqptr # qptr /\ Bfs!nqptr' = Bfs!nqptr
  BY <1>1, <1>3 DEF Bfs!nqptr, QueuesOK
<1>7. queue'[qptr] = p.rest /\ queue'[Bfs!nqptr] = queue[Bfs!nqptr]
  BY <1>1, <1>3, <1>6 DEF QueuesOK
<1>8. Bfs!Frontier = {e \in Pairs(queue[qptr]) : e[1] \notin added}
  BY <1>3, Fronts, FrontsNext DEF WhatWaits, Bfs!New
<1>9. <<p.child, p.parent>> \in Bfs!Frontier
  BY <1>3, <1>5, <1>8
<1>10. Bfs!Frontier' = Bfs!Abstract!Others(Bfs!Frontier, p.child)
  <2>1. Bfs!Frontier' = {e \in Pairs(p.rest) : e[1] \notin added'}
    BY <1>3, <1>7, Fronts, FrontsNext DEF WhatWaits, Bfs!New, Pairs
  <2>2. Bfs!Abstract!Others(Bfs!Frontier, p.child) = {e \in Bfs!Frontier : e[1] # p.child}
    BY DEF Bfs!Abstract!Others
  <2> QED BY <2>1, <2>2, <1>3, <1>5, <1>8
<1>11. Bfs!Ahead' = Bfs!Abstract!Others(Bfs!Ahead, p.child)
                      \cup ((Bfs!Reaches[p.child] \ added') \X {p.child})
  <2>1. Bfs!Ahead = {e \in Pairs(queue[Bfs!nqptr]) : e[1] \notin added}
    BY <1>3, Fronts, FrontsNext DEF WhatWaits, Bfs!New
  <2>2. Bfs!Ahead' = {e \in Pairs(queue[Bfs!nqptr]) \cup Bfs!Remaining(p.child)' :
                       e[1] \notin added'}
    BY <1>3, <1>6, <1>7, Fronts, FrontsNext DEF WhatWaits, Bfs!New, Pairs
  <2>3. Bfs!Reaches[p.child] = {links[p.child][k] : k \in 1..Len(links[p.child])}
    BY <1>1, <1>4, ReachesAll
  <2>4. Bfs!Remaining(p.child)' = Bfs!Reaches[p.child] \X {p.child}
    <3>1. Bfs!Remaining(p.child)' = {<<links[p.child][k], p.child>> : k \in 1..Len(links[p.child])}
      <4>1. pos' + 1..Len(neis') = 1..Len(links[p.child])
        BY <1>3
      <4> QED BY <4>1, <1>3 DEF Bfs!Remaining
    <3> QED BY <3>1, <2>3
  <2>5. Bfs!Abstract!Others(Bfs!Ahead, p.child) = {e \in Bfs!Ahead : e[1] # p.child}
    BY DEF Bfs!Abstract!Others
  <2>6. {e \in Bfs!Reaches[p.child] \X {p.child} : e[1] \notin added'}
          = (Bfs!Reaches[p.child] \ added') \X {p.child}
    OBVIOUS
  <2> QED BY <2>1, <2>2, <2>4, <2>5, <2>6, <1>3
<1>12. Bfs!Abstract!Take(p.child, p.parent)
  <2>1. Bfs!Phase = "level" /\ Bfs!Phase' = "level"
    BY <1>3 DEF Bfs!Phase
  <2>2. Bfs!Reaches' = Bfs!Reaches
    BY <1>3 DEF Bfs!Reaches, Bfs!Nodes
  <2> QED BY <2>1, <2>2, <1>3, <1>4, <1>9, <1>10, <1>11 DEF Bfs!Abstract!Take
<1> QED BY <1>9, <1>12 DEF Bfs!Abstract!Next

(* The queues change places: the next level, if anything waits for it.     *)
LEMMA EndLevelMaps ==
  ASSUME BfsInv, BfsInv', Bfs!EndLevel
  PROVE  Bfs!Abstract!Next \/ UNCHANGED Bfs!Abstract!vars
<1>1. Running /\ QueuesOK /\ Bfs!DqEmpty(queue[qptr])
  BY DEF BfsInv, Bfs!EndLevel, Running
<1>2. /\ qptr' = Bfs!nqptr /\ queue' = queue /\ links' = links /\ root' = root
      /\ added' = added /\ parents' = parents /\ depth' = depth /\ pc = "pop" /\ pc' = "level"
  BY DEF Bfs!EndLevel, Bfs!results
<1>3. Pairs(queue[qptr]) = {} /\ Bfs!nqptr' = qptr
  BY <1>1, <1>2, ItemsWaiting DEF QueuesOK, Bfs!nqptr, Pairs
<1>4. Bfs!Frontier = {} /\ Bfs!Ahead = Bfs!New(Pairs(queue[Bfs!nqptr]))
  BY <1>2, <1>3, Fronts, FrontsNext DEF WhatWaits, Bfs!New
<1>5. Bfs!Frontier' = Bfs!Ahead /\ Bfs!Ahead' = {}
  <2>1. Bfs!Frontier' = Bfs!New(Pairs(queue[Bfs!nqptr]))
    BY <1>2, Fronts, FrontsNext DEF WhatWaits, Bfs!New, Pairs
  <2>2. Bfs!Ahead' = Bfs!New(Pairs(queue[qptr]))
    BY <1>2, <1>3, Fronts, FrontsNext DEF WhatWaits, Bfs!New, Pairs
  <2> QED BY <2>1, <2>2, <1>3, <1>4 DEF Bfs!New
<1>6. /\ Bfs!Phase = "level" /\ Bfs!Phase' = "level" /\ Bfs!Reaches' = Bfs!Reaches
  BY <1>2 DEF Bfs!Phase, Bfs!Reaches, Bfs!Nodes
<1>7. CASE Bfs!Ahead = {}
  BY <1>2, <1>4, <1>5, <1>6, <1>7 DEF Bfs!Abstract!vars
<1>8. CASE Bfs!Ahead # {}
  <2>1. Bfs!Abstract!Advance
    BY <1>2, <1>4, <1>5, <1>6, <1>8 DEF Bfs!Abstract!Advance
  <2> QED BY <2>1 DEF Bfs!Abstract!Next
<1> QED BY <1>7, <1>8

(* With both queues empty the search is over.                              *)
LEMMA ReturnMaps ==
  ASSUME BfsInv, BfsInv', Bfs!Return
  PROVE  Bfs!Abstract!Next
<1>1. Running /\ QueuesOK /\ RunningOK /\ Bfs!DqEmpty(queue[qptr])
  BY DEF BfsInv, Bfs!Return, Running
<1>2. /\ qptr' = qptr /\ links' = links /\ root' = root
      /\ added' = added /\ parents' = parents /\ depth' = depth /\ pc = "level" /\ pc' = "done"
  BY DEF Bfs!Return
<1>3. Pairs(queue[qptr]) = {} /\ Pairs(queue[Bfs!nqptr]) = {}
  BY <1>1, <1>2, ItemsWaiting DEF QueuesOK, RunningOK, Pairs
<1>4. Bfs!Frontier = {} /\ Bfs!Ahead = {}
  BY <1>2, <1>3, Fronts, FrontsNext DEF WhatWaits, Bfs!New
<1>5. Bfs!Frontier' = {} /\ Bfs!Ahead' = {}
  BY <1>2, NothingWaitsNext DEF Running
<1>6. /\ Bfs!Phase = "level" /\ Bfs!Phase' = "done" /\ Bfs!Reaches' = Bfs!Reaches
  BY <1>2 DEF Bfs!Phase, Bfs!Reaches, Bfs!Nodes
<1>7. Bfs!Abstract!Return
  BY <1>2, <1>4, <1>5, <1>6 DEF Bfs!Abstract!Return
<1> QED BY <1>7 DEF Bfs!Abstract!Next

(* A new search has only its root, whose neighbours remain.                *)
LEMMA CallMaps ==
  ASSUME QueueSize \in Int, BfsInv, BfsInv', NEW vid \in Bfs!Nodes, Bfs!Call(vid)
  PROVE  Bfs!Abstract!Next
<1>1. PICK new : new = DqInit(QueueSize)
  OBVIOUS
<1>2. Waits(new) = {} /\ Bfs!DqInit(QueueSize) = new
  BY <1>1, NewItems
<1>3. /\ queue' = [x \in {"q", "nq"} |-> new] /\ links' = links /\ pc = "idle" /\ pc' = "children"
      /\ qptr' = "q" /\ added' = {vid} /\ root' = vid /\ depth' = [v \in Vertices |-> 0]
      /\ parents' = [v \in Vertices |-> IF v = vid THEN vid ELSE -1]
      /\ neis' = links[vid] /\ pos' = 0
  BY <1>2 DEF Bfs!Call, Bfs!Nodes, Vertices
<1>4. vid \in Vertices /\ DOMAIN Bfs!Reaches = Vertices
  BY ReachesAll DEF Bfs!Nodes, Vertices, BfsInv
<1>5. Pairs(queue'["q"]) = {} /\ Pairs(queue'["nq"]) = {}
  BY <1>2, <1>3 DEF Pairs
<1>6. Bfs!Remaining(vid)' = Bfs!Reaches[vid] \X {vid}
  <2>1. Bfs!Remaining(vid)' = {<<links[vid][k], vid>> : k \in 1..Len(links[vid])}
    <3>1. pos' + 1..Len(neis') = 1..Len(links[vid])
      BY <1>3
    <3> QED BY <3>1, <1>3 DEF Bfs!Remaining
  <2>2. Bfs!Reaches[vid] = {links[vid][k] : k \in 1..Len(links[vid])}
    BY <1>4, ReachesAll DEF BfsInv
  <2> QED BY <2>1, <2>2
<1>7. Bfs!Frontier' = (Bfs!Reaches[vid] \ {vid}) \X {vid}
  <2>1. Bfs!Frontier' = {e \in Pairs(queue'["q"]) \cup Bfs!Remaining(vid)' : e[1] \notin {vid}}
    BY <1>3, Fronts, FrontsNext DEF WhatWaits, Bfs!New, Pairs
  <2> QED BY <2>1, <1>5, <1>6
<1>8. Bfs!Ahead' = {}
  <2>1. Bfs!Ahead' = {e \in Pairs(queue'["nq"]) : e[1] \notin added'}
    BY <1>3, Fronts, FrontsNext DEF WhatWaits, Bfs!New, Pairs, Bfs!nqptr
  <2> QED BY <2>1, <1>5
<1>9. /\ Bfs!Phase = "idle" /\ Bfs!Phase' = "level" /\ Bfs!Reaches' = Bfs!Reaches
  BY <1>3 DEF Bfs!Phase, Bfs!Reaches, Bfs!Nodes
<1>10. Bfs!Abstract!Start(vid)
  BY <1>3, <1>4, <1>7, <1>8, <1>9 DEF Bfs!Abstract!Start, Bfs!Abstract!NoParent
<1> QED BY <1>4, <1>10 DEF Bfs!Abstract!Next

(* Between searches.                                                       *)
LEMMA OutsideMaps ==
  ASSUME BfsInv, BfsInv', Bfs!Edit \/ Bfs!Forget \/ Bfs!Abort
  PROVE  Bfs!Abstract!Next \/ UNCHANGED Bfs!Abstract!vars
<1>1. ~Running /\ ~Running'
  BY DEF Bfs!Edit, Bfs!Forget, Bfs!Abort, Running
<1>2. Bfs!Frontier = {} /\ Bfs!Ahead = {} /\ Bfs!Frontier' = {} /\ Bfs!Ahead' = {}
  BY <1>1, NothingWaits, NothingWaitsNext
<1>3. CASE Bfs!Edit
  <2>1. /\ root' = root /\ added' = added /\ parents' = parents /\ depth' = depth
        /\ pc = "idle" /\ pc' = "idle"
    BY <1>3 DEF Bfs!Edit, Bfs!results
  <2>2. DOMAIN Bfs!Reaches' = Vertices' /\ Bfs!Reaches' \in [Vertices' -> SUBSET Vertices']
    <3>1. PICK n \in Nat : links' \in [0..n - 1 -> Seq(0..n - 1)]
      BY DEF BfsInv, GraphOK
    <3>2. Bfs!Reaches' = [v \in 0..n - 1 |-> {links'[v][k] : k \in DOMAIN links'[v]}]
      BY <3>1 DEF Bfs!Reaches, Bfs!Nodes
    <3>3. ASSUME NEW v \in 0..n - 1 PROVE {links'[v][k] : k \in DOMAIN links'[v]} \subseteq 0..n - 1
      BY <3>1
    <3>4. Vertices' = 0..n - 1
      BY <3>1 DEF Vertices
    <3> QED BY <3>2, <3>3, <3>4
  <2>3. Bfs!Phase = "idle" /\ Bfs!Phase' = "idle"
    BY <2>1 DEF Bfs!Phase
  <2>4. Bfs!Abstract!Edit
    BY <2>1, <2>2, <2>3, <1>2 DEF Bfs!Abstract!Edit
  <2> QED BY <2>4 DEF Bfs!Abstract!Next
<1>4. CASE Bfs!Forget
  <2>1. Bfs!Phase = "done" /\ Bfs!Phase' = "idle" /\ Bfs!Reaches' = Bfs!Reaches
    BY <1>4 DEF Bfs!Forget, Bfs!Phase, Bfs!Reaches, Bfs!Nodes
  <2>2. Bfs!Abstract!Forget
    BY <2>1, <1>2, <1>4 DEF Bfs!Forget, Bfs!Abstract!Forget, Bfs!Abstract!NoParent
  <2> QED BY <2>2 DEF Bfs!Abstract!Next
<1>5. CASE Bfs!Abort
  BY <1>2, <1>5 DEF Bfs!Abort, Bfs!Abstract!vars, Bfs!Phase, Bfs!Reaches, Bfs!Nodes, Bfs!results
<1> QED BY <1>3, <1>4, <1>5

(* igraph_i_bfs with its two circular queues, whatever their size and      *)
(* wherever the triples lie in them, is the random breadth first search:   *)
(* no triple is lost or read from the wrong cells, and every vertex goes   *)
(* to a vertex of the level before, on every graph.                        *)
THEOREM SearchImplements ==
  ASSUME QueueSize \in Int
  PROVE  Bfs!Spec => Bfs!SearchRefines
<1>1. Bfs!Init /\ BfsInv => Bfs!Abstract!Init
  <2> SUFFICES ASSUME Bfs!Init, BfsInv PROVE Bfs!Abstract!Init
    OBVIOUS
  <2>1. Bfs!Frontier = {} /\ Bfs!Ahead = {}
    BY NothingWaits DEF Bfs!Init, Running
  <2>2. Bfs!Reaches = [v \in {} |-> {}] /\ Bfs!Phase = "idle"
    BY DEF Bfs!Init, Bfs!Reaches, Bfs!Nodes, Bfs!Phase
  <2> QED BY <2>1, <2>2 DEF Bfs!Init, Bfs!NoResults, Bfs!Abstract!Init, Bfs!Abstract!NoResults,
                            Bfs!Abstract!NoParent
<1>2. BfsInv /\ BfsInv' /\ [Bfs!Next]_(Bfs!vars) => [Bfs!Abstract!Next]_(Bfs!Abstract!vars)
  <2> SUFFICES ASSUME BfsInv, BfsInv', [Bfs!Next]_(Bfs!vars)
               PROVE  Bfs!Abstract!Next \/ UNCHANGED Bfs!Abstract!vars
    OBVIOUS
  <2>1. CASE UNCHANGED Bfs!vars
    BY <2>1 DEF Bfs!vars, Bfs!results, Bfs!locals, Bfs!Abstract!vars, Bfs!Frontier, Bfs!Ahead,
                Bfs!Reaches, Bfs!Phase, Bfs!Nodes, Bfs!New, Bfs!Remaining, Bfs!nqptr
  <2>2. CASE Bfs!Step
    BY <2>2, ChildMaps, QuietMaps, SwapMaps, PopKnownMaps, PopNewMaps, ScanMaps, EndLevelMaps,
       ReturnMaps DEF Bfs!Step
  <2> QED BY <2>1, <2>2, OutsideMaps, CallMaps DEF Bfs!Next
<1> QED BY <1>1, <1>2, BfsInvariant, PTL DEF Bfs!Spec, Bfs!SearchRefines, Bfs!Abstract!Spec

-----------------------------------------------------------------------------
(* The search of RandomBfs, whose other variables the mapping names.       *)

Nodes == DOMAIN Bfs!Reaches
Waiting == Bfs!Frontier \cup Bfs!Ahead
Searching == Bfs!Phase \in {"level", "done"}

SearchTypeOK ==
  /\ Bfs!Phase \in {"idle", "level", "done"}
  /\ Bfs!Reaches \in [Nodes -> SUBSET Nodes]
  /\ Bfs!Phase # "level" => Waiting = {}
  /\ Searching => /\ added \subseteq Nodes /\ root \in added
                  /\ parents \in [Nodes -> Nodes \cup {Bfs!Abstract!NoParent}]
                  /\ depth \in [Nodes -> Nat]

(* A vertex that waits is not added, and waits for a neighbour that is.    *)
PairsRight ==
  \A e \in Waiting : /\ e \in Nodes \X Nodes
                     /\ e[2] \in added /\ e[1] \in Bfs!Reaches[e[2]] /\ e[1] \notin added

(* The vertices found so far that are not searched yet are of two levels.  *)
TwoLevels(d) ==
  /\ \A e \in Bfs!Frontier : depth[e[2]] = d
  /\ \A e \in Bfs!Ahead : depth[e[2]] = d + 1
  /\ \A u \in added : depth[u] <= d + 1

(* What an added vertex reaches is no deeper than the next level, or waits *)
(* for it.                                                                 *)
Covered ==
  \A u \in added : \A w \in Bfs!Reaches[u] :
     \/ w \in added /\ depth[w] <= depth[u] + 1
     \/ <<w, u>> \in Waiting

IsTree ==
  /\ depth[root] = 0
  /\ \A v \in added \ {root} : /\ parents[v] \in added
                               /\ v \in Bfs!Reaches[parents[v]]
                               /\ depth[v] = depth[parents[v]] + 1
  /\ \A v \in Nodes \ added : parents[v] = Bfs!Abstract!NoParent

SearchInv ==
  /\ SearchTypeOK
  /\ Searching => PairsRight /\ Covered /\ IsTree
  /\ Bfs!Phase = "level" => \E d \in Nat : TwoLevels(d)

(* A new search has only the root, and all its neighbours wait for it.     *)
LEMMA StartInv ==
  ASSUME SearchInv, NEW r \in DOMAIN Bfs!Reaches, Bfs!Abstract!Start(r)
  PROVE  SearchInv'
<1> USE DEF Bfs!Abstract!Start, Nodes, Waiting, Searching
<1>1. SearchTypeOK'
  BY DEF SearchInv, SearchTypeOK
<1>2. (PairsRight /\ Covered /\ IsTree)'
  BY <1>1 DEF SearchInv, SearchTypeOK, PairsRight, Covered, IsTree
<1>3. TwoLevels(0)'
  BY DEF TwoLevels, SearchInv, SearchTypeOK
<1> QED
  BY <1>1, <1>2, <1>3 DEF SearchInv

(* A vertex that is taken is one level below its parent, and no vertex     *)
(* that reaches it is above that one.                                      *)
LEMMA TakeInv ==
  ASSUME SearchInv, NEW c, NEW p, Bfs!Abstract!Take(c, p)
  PROVE  SearchInv'
<1> USE DEF Nodes, Waiting, Searching
<1>1. /\ Bfs!Phase = "level" /\ Bfs!Phase' = "level"
      /\ <<c, p>> \in Bfs!Frontier
      /\ added' = added \cup {c}
      /\ parents' = [parents EXCEPT ![c] = p]
      /\ depth' = [depth EXCEPT ![c] = depth[p] + 1]
      /\ Bfs!Reaches' = Bfs!Reaches /\ root' = root
      /\ Bfs!Frontier' = {e \in Bfs!Frontier : e[1] # c}
      /\ Bfs!Ahead' = {e \in Bfs!Ahead : e[1] # c} \cup ((Bfs!Reaches[c] \ added') \X {c})
  BY DEF Bfs!Abstract!Take, Bfs!Abstract!Others
<1>2. /\ c \in Nodes \ added /\ p \in added /\ c \in Bfs!Reaches[p]
      /\ added \subseteq Nodes /\ root \in added /\ Bfs!Reaches[c] \subseteq Nodes
      /\ parents \in [Nodes -> Nodes \cup {Bfs!Abstract!NoParent}] /\ depth \in [Nodes -> Nat]
  BY <1>1 DEF SearchInv, SearchTypeOK, PairsRight
<1>3. PICK d \in Nat : TwoLevels(d)
  BY <1>1 DEF SearchInv
<1>4. /\ depth[p] = d
      /\ \A u \in added : depth'[u] = depth[u] /\ parents'[u] = parents[u] /\ u # c
      /\ depth'[c] = d + 1 /\ parents'[c] = p
  BY <1>1, <1>2, <1>3 DEF TwoLevels
<1>5. SearchTypeOK'
  BY <1>1, <1>2 DEF SearchInv, SearchTypeOK
<1>6. PairsRight'
  BY <1>1, <1>2 DEF SearchInv, PairsRight
<1>7. TwoLevels(d)'
  <2>1. \A e \in Bfs!Frontier' : depth'[e[2]] = d
    BY <1>1, <1>3, <1>4 DEF TwoLevels, SearchInv, PairsRight
  <2>2. \A e \in Bfs!Ahead' : depth'[e[2]] = d + 1
    BY <1>1, <1>3, <1>4 DEF TwoLevels, SearchInv, PairsRight
  <2>3. \A u \in added' : depth'[u] <= d + 1
    BY <1>1, <1>3, <1>4 DEF TwoLevels
  <2> QED
    BY <2>1, <2>2, <2>3 DEF TwoLevels
<1>8. Covered'
  <2> SUFFICES ASSUME NEW u \in added', NEW w \in Bfs!Reaches[u]
               PROVE  \/ w \in added' /\ depth'[w] <= depth'[u] + 1
                      \/ <<w, u>> \in Waiting'
    BY <1>1 DEF Covered
  <2>1. CASE u = c
    <3>1. CASE w \in added'
      BY <1>1, <1>2, <1>3, <1>4, <2>1, <3>1 DEF TwoLevels
    <3>2. CASE w \notin added'
      BY <1>1, <2>1, <3>2
    <3> QED
      BY <3>1, <3>2
  <2>2. CASE u # c
    <3>1. u \in added
      BY <1>1, <2>2
    <3>2. CASE w \in added /\ depth[w] <= depth[u] + 1
      BY <1>1, <1>4, <3>1, <3>2
    <3>3. CASE <<w, u>> \in Waiting
      <4>1. depth[u] >= d /\ depth[u] \in Nat
        BY <1>2, <1>3, <3>1, <3>3 DEF TwoLevels
      <4>2. CASE w = c
        BY <1>1, <1>4, <3>1, <4>1, <4>2
      <4>3. CASE w # c
        BY <1>1, <3>3, <4>3
      <4> QED
        BY <4>2, <4>3
    <3> QED
      BY <1>1, <3>1, <3>2, <3>3 DEF SearchInv, Covered
  <2> QED
    BY <2>1, <2>2
<1>9. IsTree'
  <2>1. depth'[root'] = 0
    BY <1>1, <1>2, <1>4 DEF SearchInv, IsTree
  <2>2. ASSUME NEW v \in added' \ {root'}
        PROVE  /\ parents'[v] \in added' /\ v \in Bfs!Reaches'[parents'[v]]
               /\ depth'[v] = depth'[parents'[v]] + 1
    <3>1. CASE v = c
      BY <1>1, <1>2, <1>4, <3>1
    <3>2. CASE v # c
      BY <1>1, <1>2, <1>4, <3>2 DEF SearchInv, IsTree
    <3> QED
      BY <3>1, <3>2
  <2>3. \A v \in Nodes' \ added' : parents'[v] = Bfs!Abstract!NoParent
    BY <1>1, <1>2 DEF SearchInv, IsTree
  <2> QED
    BY <2>1, <2>2, <2>3 DEF IsTree
<1> QED
  BY <1>1, <1>3, <1>5, <1>6, <1>7, <1>8, <1>9 DEF SearchInv

(* The invariant is kept by every step of the search and of its caller.    *)
LEMMA Invariant == Bfs!Abstract!Spec => []SearchInv
<1>1. Bfs!Abstract!Init => SearchInv
  BY DEF Bfs!Abstract!Init, Bfs!Abstract!NoResults, SearchInv, SearchTypeOK, Nodes,
         Waiting, Searching
<1>2. SearchInv /\ [Bfs!Abstract!Next]_(Bfs!Abstract!vars) => SearchInv'
  <2> SUFFICES ASSUME SearchInv, [Bfs!Abstract!Next]_(Bfs!Abstract!vars) PROVE SearchInv'
    OBVIOUS
  <2> USE DEF Nodes, Waiting, Searching
  <2>1. CASE Bfs!Abstract!Edit
    BY <2>1 DEF Bfs!Abstract!Edit, SearchInv, SearchTypeOK
  <2>2. CASE Bfs!Abstract!Forget
    BY <2>2 DEF Bfs!Abstract!Forget, SearchInv, SearchTypeOK
  <2>3. CASE \E r \in DOMAIN Bfs!Reaches : Bfs!Abstract!Start(r)
    BY <2>3, StartInv
  <2>4. CASE \E e \in Bfs!Frontier : Bfs!Abstract!Take(e[1], e[2])
    BY <2>4, TakeInv
  <2>5. CASE Bfs!Abstract!Advance
    <3>1. PICK d \in Nat : TwoLevels(d)
      BY <2>5 DEF Bfs!Abstract!Advance, SearchInv
    <3>2. SearchTypeOK' /\ (PairsRight /\ Covered /\ IsTree)'
      BY <2>5 DEF Bfs!Abstract!Advance, SearchInv, SearchTypeOK, PairsRight, Covered, IsTree
    <3>3. TwoLevels(d + 1)'
      BY <2>5, <3>1 DEF Bfs!Abstract!Advance, TwoLevels, SearchInv, SearchTypeOK
    <3> QED
      BY <2>5, <3>2, <3>3 DEF Bfs!Abstract!Advance, SearchInv
  <2>6. CASE Bfs!Abstract!Return
    BY <2>6 DEF Bfs!Abstract!Return, SearchInv, SearchTypeOK, PairsRight, Covered, IsTree
  <2>7. CASE UNCHANGED Bfs!Abstract!vars
    BY <2>7 DEF Bfs!Abstract!vars, SearchInv, SearchTypeOK, PairsRight, Covered, IsTree, TwoLevels
  <2> QED
    BY <2>1, <2>2, <2>3, <2>4, <2>5, <2>6, <2>7 DEF Bfs!Abstract!Next
<1> QED
  BY <1>1, <1>2, PTL DEF Bfs!Abstract!Spec

(* A search that is over has found a tree in which every edge of the graph *)
(* leads at most one level down, so that the depths are distances.         *)
THEOREM ShortestPathsFound ==
  ASSUME QueueSize \in Int
  PROVE  Bfs!Spec => []Bfs!Abstract!ShortestPathTree
<1>1. SearchInv => Bfs!Abstract!ShortestPathTree
  BY DEF SearchInv, SearchTypeOK, Covered, IsTree, Bfs!Abstract!ShortestPathTree, Nodes, Waiting,
         Searching
<1> QED
  BY <1>1, Invariant, SearchImplements, PTL DEF Bfs!SearchRefines

-----------------------------------------------------------------------------
(* Well-founded relations of the library.                                  *)
Order == INSTANCE WellFoundedInduction

(* The order of the numbers as a relation is well-founded.                *)
LEMMA NatLess == Order!IsWellFoundedOn({p \in Nat \X Nat : p[1] < p[2]}, Nat)
BY Order!NatLessThanWellFounded DEF Order!OpToRel

(* A set of numbers with 0 that is closed under successors is all of Nat.  *)
LEMMA NatSet ==
  ASSUME NEW S, 0 \in S, \A n \in Nat : n \in S => n + 1 \in S
  PROVE  Nat \subseteq S
<1> DEFINE R == {p \in Nat \X Nat : p[1] < p[2]}
<1> SUFFICES ASSUME Nat \ S # {} PROVE FALSE
  OBVIOUS
<1>1. Order!IsWellFoundedOn(R, Nat)
  BY NatLess
<1>2. PICK n \in Nat \ S : \A m \in Nat \ S : ~(<<m, n>> \in R)
  <2> HIDE DEF R
  <2> QED BY <1>1, Order!WFMin
<1>3. n # 0 /\ n - 1 \in Nat
  BY <1>2
<1>4. n - 1 \in S
  <2>1. <<n - 1, n>> \in R
    BY <1>3
  <2> HIDE DEF R
  <2> QED BY <1>2, <1>3, <2>1
<1> QED BY <1>2, <1>3, <1>4

(* Every walk from the root, of any length, ends at a vertex that was      *)
(* added, at a depth that is no more than its length.                      *)
NoShorterWalk ==
  pc = "done" =>
    \A n \in Nat : \A w \in [0..n -> Nodes] :
      (w[0] = root /\ \A k \in 1..n : w[k] \in Bfs!Reaches[w[k - 1]])
         => w[n] \in added /\ depth[w[n]] <= n

(* The depths the search returns are least: no walk in the graph is        *)
(* shorter, and what was not added cannot be reached at all.               *)
THEOREM DepthIsLeast ==
  ASSUME QueueSize \in Int
  PROVE  Bfs!Spec => []NoShorterWalk
<1>1. SearchInv => NoShorterWalk
  <2> SUFFICES ASSUME SearchInv, pc = "done",
                      NEW n \in Nat, NEW w \in [0..n -> Nodes],
                      w[0] = root, \A k \in 1..n : w[k] \in Bfs!Reaches[w[k - 1]]
               PROVE  w[n] \in added /\ depth[w[n]] <= n
    BY DEF NoShorterWalk
  <2>1. /\ root \in added /\ added \subseteq Nodes /\ depth[root] = 0
        /\ depth \in [Nodes -> Nat]
        /\ \A u \in added : \A x \in Bfs!Reaches[u] : x \in added /\ depth[x] <= depth[u] + 1
    BY DEF SearchInv, SearchTypeOK, Covered, IsTree, Waiting, Searching, Bfs!Phase
  <2> DEFINE S == {k \in Nat : k <= n => w[k] \in added /\ depth[w[k]] <= k}
  <2>2. 0 \in S
    BY <2>1
  <2>3. ASSUME NEW k \in Nat, k \in S PROVE k + 1 \in S
    <3> SUFFICES ASSUME k + 1 <= n PROVE w[k + 1] \in added /\ depth[w[k + 1]] <= k + 1
      OBVIOUS
    <3>1. w[k] \in added /\ depth[w[k]] <= k
      BY <2>3
    <3>2. w[k + 1] \in Bfs!Reaches[w[k]]
      <4>1. k + 1 \in 1..n /\ (k + 1) - 1 = k
        OBVIOUS
      <4> QED BY <4>1
    <3>3. w[k + 1] \in added /\ depth[w[k + 1]] <= depth[w[k]] + 1
      BY <2>1, <3>1, <3>2
    <3> QED BY <2>1, <3>1, <3>3
  <2>4. n \in S
    <3> HIDE DEF S
    <3> QED BY <2>2, <2>3, NatSet
  <2> QED BY <2>4
<1> QED
  BY <1>1, Invariant, SearchImplements, PTL DEF Bfs!SearchRefines

-----------------------------------------------------------------------------
(* The layers.                                                             *)

(* Steps that add no vertex, and leave an item in its queue or add one of  *)
(* its distance, keep the layers.                                          *)
LEMMA LayersKept ==
  ASSUME BfsInv, LayersOK, NEW d \in Nat, AtLevel(d)',
         vids' = vids, layers' = layers, lastlayer' = lastlayer, depth' = depth,
         added' = added, links' = links, pc' = "children" => pc = "children"
  PROVE  LayersOK'
<1>1. Top' = Top /\ Vertices' = Vertices
  BY DEF Top, Vertices
<1>2. \A k \in DOMAIN vids : InLayer(k, depth[vids[k]])' <=> InLayer(k, depth[vids[k]])
  BY <1>1 DEF InLayer
<1> QED BY <1>1, <1>2 DEF LayersOK

(* A vertex that is added opens the next layer or comes last in it.        *)
LEMMA PopNewLayers ==
  ASSUME BfsInv, LayersOK, Bfs!PopNew
  PROVE  LayersOK'
<1>1. Running /\ RunningOK /\ GraphOK /\ QueuesOK /\ ~Bfs!DqEmpty(queue[qptr])
  BY DEF BfsInv, Bfs!PopNew, Running
<1>2. PICK p : p = Bfs!Popped(queue[qptr])
  OBVIOUS
<1>3. /\ pc = "pop" /\ queue' = [queue EXCEPT ![qptr] = p.rest]
      /\ p.child \notin added /\ added' = added \cup {p.child}
      /\ depth' = [depth EXCEPT ![p.child] = p.dist + 1]
      /\ layers' = (IF lastlayer # p.dist + 1 THEN Append(layers, Len(vids)) ELSE layers)
      /\ vids' = Append(vids, p.child) /\ lastlayer' = p.dist + 1
      /\ nvect' = p.child /\ actdist' = p.dist
      /\ links' = links /\ qptr' = qptr /\ pc' = "scan"
  BY <1>2 DEF Bfs!PopNew
<1>4. /\ Waits(queue[qptr]) = Waits(p.rest) \cup {<<p.child, p.parent, p.dist>>}
      /\ p.child \in Vertices /\ p.parent \in added /\ p.dist = depth[p.parent]
  BY <1>1, <1>2, PopRight
<1>5. PICK d \in Nat : AtLevel(d)
  BY DEF LayersOK
<1>6. p.dist = d
  <2>1. PICK t : t = <<p.child, p.parent, p.dist>>
    OBVIOUS
  <2>2. t \in Waits(queue[qptr]) /\ t[3] = p.dist
    BY <2>1, <1>4
  <2> QED BY <2>2, <1>5 DEF AtLevel
<1>7. /\ vids \in Seq(Vertices) /\ layers \in Seq(Nat) /\ lastlayer \in Nat \cup {-1}
      /\ {vids[k] : k \in DOMAIN vids} = added /\ Len(vids) \in Nat
      /\ Len(layers) = Top + 1 /\ layers[Top + 1] <= Len(vids)
      /\ \A k \in DOMAIN vids : InLayer(k, depth[vids[k]])
      /\ depth \in [Vertices -> Nat] /\ added \subseteq Vertices
  BY <1>1 DEF LayersOK, RunningOK
<1>8. Top' = d + 1 /\ Top \in {d, d + 1} /\ Vertices' = Vertices
  BY <1>3, <1>5, <1>6 DEF Top, AtLevel, Vertices
<1>9. /\ lastlayer # d + 1 <=> Top = d
      /\ Top = d => layers' = Append(layers, Len(vids))
      /\ Top = d + 1 => layers' = layers
  BY <1>3, <1>5, <1>6, <1>7, <1>8 DEF Top
<1>10. /\ layers' \in Seq(Nat) /\ Len(layers') = d + 2 /\ layers'[d + 2] <= Len(vids)
       /\ \A k \in 1..Top + 1 : layers'[k] = layers[k]
       /\ Top = d => layers'[d + 2] = Len(vids)
  <2>1. CASE Top = d
    <3>1. layers' = Append(layers, Len(vids)) /\ Len(layers) = d + 1
      BY <2>1, <1>7, <1>9
    <3>2. /\ layers' \in Seq(Nat) /\ Len(layers') = Len(layers) + 1
          /\ layers'[Len(layers) + 1] = Len(vids)
          /\ \A k \in 1..Len(layers) : layers'[k] = layers[k]
      BY <3>1, <1>7, AppendProperties
    <3>3. d + 1 + 1 = d + 2 /\ Top + 1 = d + 1 /\ Top # d + 1
      BY <2>1
    <3>4. Len(layers') = d + 2 /\ layers'[d + 2] = Len(vids)
      BY <3>1, <3>2, <3>3
    <3>5. Len(vids) <= Len(vids)
      BY <1>7
    <3> QED BY <2>1, <3>1, <3>2, <3>3, <3>4, <3>5
  <2>2. CASE Top = d + 1
    BY <2>2, <1>7, <1>9
  <2> QED BY <2>1, <2>2, <1>8
<1>11. /\ vids' \in Seq(Vertices) /\ Len(vids') = Len(vids) + 1
       /\ vids'[Len(vids) + 1] = p.child
       /\ \A k \in 1..Len(vids) : vids'[k] = vids[k]
  BY <1>3, <1>4, <1>7, AppendProperties
<1>12. DOMAIN vids' = DOMAIN vids \cup {Len(vids) + 1} /\ DOMAIN vids = 1..Len(vids)
  BY <1>7, <1>11, SMTT(30)
<1>13. {vids'[k] : k \in DOMAIN vids'} = added'
  BY <1>3, <1>7, <1>11, <1>12, SMTT(30)
<1>14. ASSUME NEW k \in DOMAIN vids' PROVE InLayer(k, depth[vids[k]])'
  <2>1. CASE k = Len(vids) + 1
    <3>1. depth'[vids'[k]] = d + 1
      BY <2>1, <1>3, <1>4, <1>6, <1>7, <1>11
    <3>2. layers'[d + 1 + 1] < k
      <4>1. layers'[d + 2] \in Nat
        BY <1>10
      <4> QED BY <4>1, <2>1, <1>7, <1>10
    <3> QED BY <3>1, <3>2, <1>8 DEF InLayer
  <2>2. CASE k \in 1..Len(vids)
    <3>1. PICK e \in Nat : e = depth[vids[k]]
      BY <2>2, <1>7, <1>12
    <3>2. depth'[vids'[k]] = e
      <4>1. vids[k] \in added
        BY <2>2, <1>7, <1>12
      <4>2. vids[k] # p.child
        BY <4>1, <1>3
      <4> QED BY <4>1, <4>2, <3>1, <2>2, <1>3, <1>7, <1>11
    <3>3. /\ e <= Top /\ layers[e + 1] < k
          /\ e < Top => k <= layers[e + 2]
      BY <3>1, <2>2, <1>7, <1>12 DEF InLayer
    <3>4. layers'[e + 1] < k
      BY <3>3, <1>8, <1>10
    <3>5. e < Top => k <= layers'[e + 2]
      BY <3>3, <1>8, <1>10
    <3>6. e = Top /\ e < d + 1 => k <= layers'[e + 2]
      BY <2>2, <1>8, <1>10
    <3> QED BY <3>2, <3>3, <3>4, <3>5, <3>6, <1>8 DEF InLayer
  <2> QED BY <2>1, <2>2, <1>12
<1>15. AtLevel(d)'
  <2>1. /\ queue'[qptr] = p.rest
        /\ Bfs!nqptr \in {"q", "nq"} /\ Bfs!nqptr # qptr /\ Bfs!nqptr' = Bfs!nqptr
    BY <1>1, <1>3 DEF QueuesOK, Bfs!nqptr
  <2>2. queue'[Bfs!nqptr] = queue[Bfs!nqptr]
    BY <2>1, <1>1, <1>3 DEF QueuesOK
  <2>3. \A t \in Waits(queue'[qptr']) : t[3] = d
    BY <2>1, <1>3, <1>4, <1>5 DEF AtLevel
  <2>4. \A t \in Waits(queue'[Bfs!nqptr']) : t[3] = d + 1 /\ Top' = d + 1
    BY <2>1, <2>2, <1>5, <1>8 DEF AtLevel
  <2> QED BY <2>3, <2>4, <1>3, <1>6, <1>8 DEF AtLevel
<1>16. layers'[Top' + 1] <= Len(vids') /\ Len(layers') = Top' + 1 /\ lastlayer' \in Nat
  <2>1. layers'[d + 2] \in Nat /\ Top' + 1 = d + 2
    BY <1>8, <1>10
  <2>2. Len(vids') \in Nat /\ layers'[d + 2] <= Len(vids')
    BY <2>1, <1>7, <1>10, <1>11
  <2>3. lastlayer' = d + 1
    BY <1>3, <1>6
  <2>4. Len(layers') = d + 2
    BY <1>10
  <2>5. lastlayer' \in Nat
    BY <2>3
  <2>6. Len(layers') = Top' + 1
    BY <2>1, <2>4, Zenon
  <2>7. layers'[Top' + 1] = layers'[d + 2]
    BY <2>1, Zenon
  <2>8. layers'[Top' + 1] <= Len(vids')
    BY <2>2, <2>7, Zenon
  <2> QED BY <2>5, <2>6, <2>8, Zenon
<1>17. /\ (vids \in Seq(Vertices))' /\ layers' \in Seq(Nat)
       /\ lastlayer' \in Nat \cup {-1} /\ pc' # "children"
  BY <1>3, <1>8, <1>10, <1>11, <1>16
<1>18. (\A k \in DOMAIN vids : InLayer(k, depth[vids[k]]))'
  BY <1>14
<1>19. (\E e \in Nat : AtLevel(e))'
  BY <1>15
<1> QED BY <1>13, <1>16, <1>17, <1>18, <1>19 DEF LayersOK

(* The other steps of the search.                                          *)
LEMMA OtherLayers ==
  ASSUME BfsInv, LayersOK,
         \/ Bfs!ChildrenDone \/ Bfs!Shuffle \/ Bfs!Shuffled \/ Bfs!Scanned
         \/ Bfs!Child \/ Bfs!Scan \/ Bfs!PopKnown \/ Bfs!EndLevel
         \/ \E j \in pos..Bfs!Items(queue[qptr]) - 1 : Bfs!Swap(j)
  PROVE  LayersOK'
<1>1. PICK d \in Nat : AtLevel(d)
  BY DEF LayersOK
<1>2. /\ vids' = vids /\ layers' = layers /\ lastlayer' = lastlayer /\ depth' = depth
      /\ added' = added /\ links' = links /\ Top' = Top
      /\ pc' = "children" => pc = "children"
  BY DEF Bfs!ChildrenDone, Bfs!Shuffle, Bfs!Shuffled, Bfs!Scanned, Bfs!Child, Bfs!Scan,
         Bfs!PopKnown, Bfs!EndLevel, Bfs!Swap, Bfs!results, Top
<1>3. QueuesOK /\ RunningOK /\ Bfs!nqptr \in {"q", "nq"} /\ Bfs!nqptr # qptr /\ Running
  BY DEF BfsInv, Running, QueuesOK, Bfs!nqptr,
         Bfs!ChildrenDone, Bfs!Shuffle, Bfs!Shuffled, Bfs!Scanned, Bfs!Child, Bfs!Scan,
         Bfs!PopKnown, Bfs!EndLevel, Bfs!Swap
<1>4. CASE Bfs!ChildrenDone \/ Bfs!Shuffle \/ Bfs!Shuffled \/ Bfs!Scanned
  <2>1. /\ queue' = queue /\ qptr' = qptr /\ Bfs!nqptr' = Bfs!nqptr
        /\ pc' \in {"level", "shuffle", "pop"}
        /\ pc' # "pop" => pc \in {"children", "level"}
    BY <1>4 DEF Bfs!ChildrenDone, Bfs!Shuffle, Bfs!Shuffled, Bfs!Scanned, Bfs!results,
                Bfs!locals, Bfs!nqptr
  <2>2. AtLevel(d)'
    BY <2>1, <1>1, <1>2 DEF AtLevel
  <2> QED BY <2>2, <1>2, LayersKept
<1>5. CASE Bfs!Child
  <2>1. /\ pc = "children" /\ pos < Len(neis) /\ qptr' = qptr /\ pc' = pc
        /\ queue' = [queue EXCEPT !["q"] = Bfs!PushTriple(queue["q"], neis[pos + 1], root, 0)]
    BY <1>5 DEF Bfs!Child
  <2>2. qptr = "q" /\ depth[root] = 0 /\ root \in added /\ neis[pos + 1] \in Vertices
    BY <2>1, <1>3 DEF RunningOK, LoopOK
  <2>3. Waits(Bfs!PushTriple(queue["q"], neis[pos + 1], root, 0))
          = Waits(queue["q"]) \cup {<<neis[pos + 1], root, 0>>}
    BY <2>2, <1>3, PushRight
  <2>4. /\ Waits(queue'["q"]) = Waits(queue["q"]) \cup {<<neis[pos + 1], root, 0>>}
        /\ queue'["nq"] = queue["nq"] /\ Bfs!nqptr = "nq" /\ Bfs!nqptr' = "nq"
    BY <2>1, <2>2, <2>3, <1>3 DEF QueuesOK, Bfs!nqptr
  <2>5. d = 0
    BY <2>1, <1>1 DEF AtLevel, LayersOK, Top
  <2>6. AtLevel(d)'
    BY <2>1, <2>2, <2>4, <2>5, <1>1, <1>2 DEF AtLevel
  <2> QED BY <2>6, <1>2, LayersKept
<1>6. CASE Bfs!Scan
  <2>1. /\ pc = "scan" /\ pos < Len(neis) /\ qptr' = qptr /\ pc' = pc /\ actdist' = actdist
        /\ queue' = IF neis[pos + 1] \in added THEN queue
                    ELSE [queue EXCEPT ![Bfs!nqptr] =
                            Bfs!PushTriple(queue[Bfs!nqptr], neis[pos + 1], nvect, actdist + 1)]
        /\ Bfs!nqptr' = Bfs!nqptr
    BY <1>6 DEF Bfs!Scan, Bfs!nqptr
  <2>2. nvect \in added /\ depth[nvect] = actdist + 1 /\ neis[pos + 1] \in Vertices
    BY <2>1, <1>3 DEF RunningOK, LoopOK
  <2>3. PICK o \in {"q", "nq"} : o = Bfs!nqptr
    BY <1>3
  <2>4. Waits(Bfs!PushTriple(queue[o], neis[pos + 1], nvect, actdist + 1))
          = Waits(queue[o]) \cup {<<neis[pos + 1], nvect, actdist + 1>>}
    BY <2>2, <1>3, PushRight
  <2>5. /\ Waits(queue'[o]) \subseteq Waits(queue[o]) \cup {<<neis[pos + 1], nvect, actdist + 1>>}
        /\ queue'[qptr] = queue[qptr]
    BY <2>1, <2>3, <2>4, <1>3 DEF QueuesOK
  <2>6. actdist = d /\ Top = d + 1
    BY <2>1, <1>1 DEF AtLevel
  <2>7. AtLevel(d)'
    BY <2>1, <2>3, <2>5, <2>6, <1>1, <1>2 DEF AtLevel
  <2> QED BY <2>7, <1>2, LayersKept
<1>7. CASE Bfs!PopKnown
  <2>1. PICK p : p = Bfs!Popped(queue[qptr])
    OBVIOUS
  <2>2. /\ pc = "pop" /\ pc' = pc /\ qptr' = qptr /\ ~Bfs!DqEmpty(queue[qptr])
        /\ queue' = [queue EXCEPT ![qptr] = p.rest] /\ Bfs!nqptr' = Bfs!nqptr
    BY <2>1, <1>7 DEF Bfs!PopKnown, Bfs!nqptr
  <2>3. Waits(p.rest) \subseteq Waits(queue[qptr])
    BY <2>1, <2>2, <1>3, PopRight
  <2>4. queue'[qptr] = p.rest /\ queue'[Bfs!nqptr] = queue[Bfs!nqptr]
    BY <2>2, <1>3 DEF QueuesOK
  <2>5. AtLevel(d)'
    BY <2>2, <2>3, <2>4, <1>1, <1>2 DEF AtLevel
  <2> QED BY <2>5, <1>2, LayersKept
<1>8. CASE Bfs!EndLevel
  <2>1. /\ pc = "pop" /\ pc' = "level" /\ qptr' = Bfs!nqptr /\ queue' = queue
        /\ Bfs!DqEmpty(queue[qptr]) /\ Bfs!nqptr' = qptr
    BY <1>3, <1>8 DEF Bfs!EndLevel, Bfs!nqptr, QueuesOK
  <2>2. Waits(queue[qptr]) = {}
    BY <2>1, <1>3, ItemsWaiting DEF QueuesOK
  <2>3. Top \in Nat
    BY DEF LayersOK, Top
  <2>4. AtLevel(Top)'
    BY <2>1, <2>2, <1>1, <1>2 DEF AtLevel
  <2>5. PICK e \in Nat : e = Top
    BY <2>3
  <2>6. AtLevel(e)'
    BY <2>4, <2>5, <1>2 DEF AtLevel
  <2> QED BY <2>6, <1>2, LayersKept
<1>9. CASE \E j \in pos..Bfs!Items(queue[qptr]) - 1 : Bfs!Swap(j)
  <2>1. PICK j \in pos..Bfs!Items(queue[qptr]) - 1 : Bfs!Swap(j)
    BY <1>9
  <2>2. /\ pc = "shuffle" /\ pos < Bfs!Items(queue[qptr]) - 1 /\ pc' = pc /\ qptr' = qptr
        /\ queue' = [queue EXCEPT ![qptr] = Bfs!DqSwap(queue[qptr], pos, j)]
        /\ Bfs!nqptr' = Bfs!nqptr
    BY <2>1 DEF Bfs!Swap, Bfs!nqptr
  <2>3. pos \in Nat /\ IsItemQueue(queue[qptr])
    BY <2>2, <1>3 DEF RunningOK, QueuesOK
  <2>4. Bfs!Items(queue[qptr]) \in Nat
    BY <2>3, ItemCount DEF IsItemQueue
  <2>5. pos \in 0..Bfs!Items(queue[qptr]) - 1 /\ j \in 0..Bfs!Items(queue[qptr]) - 1
    BY <2>2, <2>3, <2>4
  <2>6. Waits(Bfs!DqSwap(queue[qptr], pos, j)) = Waits(queue[qptr])
    BY <2>3, <2>5, SwapItems
  <2>7. Waits(queue'[qptr]) = Waits(queue[qptr]) /\ queue'[Bfs!nqptr] = queue[Bfs!nqptr]
    BY <2>2, <2>6, <1>3 DEF QueuesOK
  <2>8. AtLevel(d)'
    BY <2>2, <2>7, <1>1, <1>2 DEF AtLevel
  <2> QED BY <2>8, <1>2, LayersKept
<1> QED BY <1>4, <1>5, <1>6, <1>7, <1>8, <1>9

(* A new search begins with the layer of the root.                         *)
LEMMA CallLayers ==
  ASSUME QueueSize \in Int, BfsInv, NEW vid \in Bfs!Nodes, Bfs!Call(vid)
  PROVE  LayersOK'
<1>1. PICK new : new = DqInit(QueueSize)
  OBVIOUS
<1>2. Waits(new) = {} /\ Bfs!DqInit(QueueSize) = new
  BY <1>1, NewItems
<1>3. /\ queue' = [x \in {"q", "nq"} |-> new] /\ links' = links /\ pc' = "children"
      /\ qptr' = "q" /\ added' = {vid} /\ depth' = [v \in Vertices |-> 0]
      /\ vids' = <<vid>> /\ layers' = <<0>> /\ lastlayer' = -1 /\ vid \in Vertices
  BY <1>2 DEF Bfs!Call, Bfs!Nodes, Vertices
<1>4. /\ Top' = 0 /\ Vertices' = Vertices /\ DOMAIN vids' = {1} /\ vids'[1] = vid
      /\ Len(vids') = 1 /\ Len(layers') = 1 /\ layers'[1] = 0
  BY <1>3 DEF Top, Vertices
<1>5. AtLevel(0)'
  BY <1>2, <1>3, <1>4 DEF AtLevel, Bfs!nqptr
<1>6. InLayer(1, depth[vids[1]])'
  BY <1>3, <1>4 DEF InLayer
<1> QED BY <1>3, <1>4, <1>5, <1>6 DEF LayersOK

(* When the search returns the last layer ends with the last vertex.       *)
LEMMA ReturnLayers ==
  ASSUME BfsInv, LayersOK, Bfs!Return
  PROVE  Bfs!LayersRight'
<1>1. /\ layers' = Append(layers, Len(vids)) /\ vids' = vids /\ depth' = depth /\ added' = added
  BY DEF Bfs!Return
<1>2. /\ layers \in Seq(Nat) /\ Len(layers) = Top + 1 /\ Top \in Nat /\ Len(vids) \in Nat
      /\ {vids[k] : k \in DOMAIN vids} = added /\ DOMAIN vids = 1..Len(vids)
      /\ depth \in [Vertices -> Nat] /\ added \subseteq Vertices
  BY SMTT(30) DEF LayersOK, Top, BfsInv, Running, RunningOK, Bfs!Return
<1>3. /\ Len(layers') = Top + 2 /\ layers'[Top + 2] = Len(vids)
      /\ \A k \in 1..Top + 1 : layers'[k] = layers[k]
  BY <1>1, <1>2, AppendProperties
<1>4. ASSUME NEW k \in DOMAIN vids
      PROVE  layers'[depth[vids[k]] + 1] < k /\ k <= layers'[depth[vids[k]] + 2]
  <2>1. PICK e \in Nat : e = depth[vids[k]]
    BY <1>2
  <2>2. /\ e <= Top /\ layers[e + 1] < k
        /\ e < Top => k <= layers[e + 2]
    BY <2>1 DEF LayersOK, InLayer
  <2>3. layers'[e + 1] < k
    BY <2>2, <1>2, <1>3, SMTT(30)
  <2>4. k <= layers'[e + 2]
    <3>1. CASE e = Top
      BY <3>1, <1>2, <1>3
    <3>2. CASE e < Top
      BY <3>2, <2>2, <1>2, <1>3
    <3> QED BY <3>1, <3>2, <2>2, <1>2
  <2> QED BY <2>1, <2>3, <2>4
<1> QED BY <1>1, <1>2, <1>3, <1>4 DEF Bfs!LayersRight

(* The vertices of a search that is over lie in vids by their distance,    *)
(* and layers says where each distance begins and where the last ends:     *)
(* igraph_i_bfs writes the beginning of a layer when it adds the first     *)
(* vertex of it, and adds none of an earlier layer after that.             *)
THEOREM LayersHold ==
  ASSUME QueueSize \in Int
  PROVE  Bfs!Spec => []Bfs!LayersRight
<1>1. Bfs!Init => LayersInv
  BY DEF Bfs!Init, LayersInv, Running, Bfs!LayersRight
<1>2. BfsInv /\ BfsInv' /\ LayersInv /\ [Bfs!Next]_(Bfs!vars) => LayersInv'
  <2> SUFFICES ASSUME BfsInv, BfsInv', LayersInv, [Bfs!Next]_(Bfs!vars) PROVE LayersInv'
    OBVIOUS
  <2>1. CASE UNCHANGED Bfs!vars
    BY <2>1 DEF Bfs!vars, Bfs!results, Bfs!locals, LayersInv, LayersOK, AtLevel, InLayer, Running,
                Top, Vertices, Bfs!nqptr, Bfs!LayersRight
  <2>2. CASE Bfs!Return
    <3>1. LayersOK /\ pc' = "done"
      BY <2>2 DEF Bfs!Return, LayersInv, Running
    <3> QED BY <3>1, <2>2, ReturnLayers DEF LayersInv, Running
  <2>3. CASE Bfs!Edit \/ Bfs!Forget \/ Bfs!Abort
    BY <2>3 DEF Bfs!Edit, Bfs!Forget, Bfs!Abort, LayersInv, Running, Bfs!LayersRight
  <2>4. CASE \E vid \in Bfs!Nodes : Bfs!Call(vid)
    <3>1. pc' = "children" /\ LayersOK'
      BY <2>4, CallLayers DEF Bfs!Call
    <3> QED BY <3>1 DEF LayersInv, Bfs!LayersRight
  <2>5. CASE Bfs!Step /\ ~Bfs!Return
    <3>1. LayersOK /\ pc' # "done"
      BY <2>5 DEF LayersInv, Running, Bfs!Step, Bfs!Child, Bfs!ChildrenDone, Bfs!Shuffle,
                  Bfs!Shuffled, Bfs!Swap, Bfs!PopKnown, Bfs!PopNew, Bfs!Scan, Bfs!Scanned,
                  Bfs!EndLevel
    <3>2. LayersOK'
      BY <3>1, <2>5, PopNewLayers, OtherLayers DEF Bfs!Step
    <3> QED BY <3>1, <3>2 DEF LayersInv, Bfs!LayersRight
  <2> QED BY <2>1, <2>2, <2>3, <2>4, <2>5 DEF Bfs!Next
<1>3. LayersInv => Bfs!LayersRight
  BY DEF LayersInv
<1> QED BY <1>1, <1>2, <1>3, BfsInvariant, PTL DEF Bfs!Spec
=============================================================================

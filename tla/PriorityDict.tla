---------------------------- MODULE PriorityDict ----------------------------
(***************************************************************************)
(* priority_dict.py: a dict beside a heap of (priority, key) pairs.  An    *)
(* assignment only pushes; what it replaces stays in the heap and is       *)
(* recognised as stale when it reaches the top.  heapq is external: the    *)
(* heap is a bag, and its head any pair of lowest priority (which of       *)
(* several depends on how the keys compare).                               *)
(***************************************************************************)
EXTENDS Integers, FiniteSets, BagsExt, Bags

CONSTANTS Key, Priority, Absent, NoAnswer, IndexError

ASSUME DictAssumption ==
  /\ IsFiniteSet(Key)
  /\ Priority \subseteq Int
  /\ Absent \notin Priority
  /\ NoAnswer \notin Key /\ IndexError \notin Key /\ NoAnswer # IndexError

VARIABLES
  dict,     \* dict[k], Absent when k is not in the dictionary
  heap,     \* self._heap
  call,     \* "none", or the lookup that is running
  answer    \* what the last operation returned

vars == <<dict, heap, call, answer>>

Present == {k \in Key : dict[k] # Absent}

TypeOK ==
  /\ dict \in [Key -> Priority \cup {Absent}]
  /\ IsABag(heap) /\ DOMAIN heap \subseteq Priority \X Key
  /\ call \in {"none", "smallest", "pop_smallest"}
  /\ answer \in Key \cup {NoAnswer, IndexError}

-----------------------------------------------------------------------------

(* len(self._heap): copies of the same pair count.                         *)
Copies(bag) == UNION {{entry} \X (1..bag[entry]) : entry \in DOMAIN bag}
Size(bag) == Cardinality(Copies(bag))

(* _rebuild_heap                                                           *)
Rebuilt(d) == SetToBag({<<d[k], k>> : k \in {j \in Key : d[j] # Absent}})

Init ==
  /\ dict \in [Key -> Priority \cup {Absent}]
  /\ heap = Rebuilt(dict)
  /\ call = "none"
  /\ answer = NoAnswer

(* Mutant: one pair more before a rebuild.                                 *)
SetItem_RebuildLater(k, p) ==
  /\ call = "none"
  /\ dict' = [dict EXCEPT ![k] = p]
  /\ heap' = IF Size(heap) <= 2 * Cardinality(Present')
               THEN BagAdd(heap, <<p, k>>)
               ELSE Rebuilt(dict')
  /\ answer' = NoAnswer
  /\ UNCHANGED call

(* Mutant: a key that is in the heap already is not pushed again.          *)
SetItem_PushNewKeys(k, p) ==
  /\ call = "none"
  /\ dict' = [dict EXCEPT ![k] = p]
  /\ heap' = IF k \in Present THEN heap ELSE BagAdd(heap, <<p, k>>)
  /\ answer' = NoAnswer
  /\ UNCHANGED call

(* __setitem__: push while the heap is small, else rebuild it.             *)
SetItem(k, p) ==
  /\ call = "none"
  /\ dict' = [dict EXCEPT ![k] = p]
  /\ heap' = IF Size(heap) < 2 * Cardinality(Present')
               THEN BagAdd(heap, <<p, k>>)
               ELSE Rebuilt(dict')
  /\ answer' = NoAnswer
  /\ UNCHANGED call

SetDefault(k, p) == k \notin Present /\ SetItem(k, p)

Update(items) ==
  /\ call = "none"
  /\ dict' = [k \in Key |-> IF items[k] = Absent THEN dict[k] ELSE items[k]]
  /\ heap' = Rebuilt(dict')
  /\ answer' = NoAnswer
  /\ UNCHANGED call

(* __delitem__ of dict: the heap is not told.                              *)
DelItem(k) ==
  /\ call = "none"
  /\ k \in Present
  /\ dict' = [dict EXCEPT ![k] = Absent]
  /\ answer' = NoAnswer
  /\ UNCHANGED <<heap, call>>

Ask(lookup) == call = "none" /\ call' = lookup /\ UNCHANGED <<dict, heap, answer>>

(* heap[0]                                                                 *)
HeapHead(entry) ==
  entry \in DOMAIN heap /\ \A other \in DOMAIN heap : entry[1] <= other[1]

(* Mutant: a pair is stale only when its key is gone.                      *)
Stale_KeyOnly(entry) == entry[2] \notin Present

(* k not in self or self[k] != v                                           *)
Stale(entry) == dict[entry[2]] # entry[1]

(* Mutant: the stale head is looked at again instead of popped.            *)
SkipStale_Peek(entry) ==
  /\ call # "none"
  /\ HeapHead(entry)
  /\ Stale(entry)
  /\ UNCHANGED vars

(* The loops of smallest and pop_smallest: pop a stale head.               *)
SkipStale(entry) ==
  /\ call # "none"
  /\ HeapHead(entry)
  /\ Stale(entry)
  /\ heap' = BagRemove(heap, entry)
  /\ UNCHANGED <<dict, call, answer>>

(* A head that is not stale ends the lookup.                               *)
Return(entry) ==
  /\ call # "none"
  /\ HeapHead(entry)
  /\ ~Stale(entry)
  /\ answer' = entry[2]
  /\ IF call = "pop_smallest"
       THEN /\ heap' = BagRemove(heap, entry)
            /\ dict' = [dict EXCEPT ![entry[2]] = Absent]
       ELSE UNCHANGED <<dict, heap>>
  /\ call' = "none"

(* The heap is exhausted: heap[0] or heappop raises.                       *)
Raise ==
  /\ call # "none"
  /\ DOMAIN heap = {}
  /\ answer' = IndexError
  /\ call' = "none"
  /\ UNCHANGED <<dict, heap>>

Next ==
  \/ \E k \in Key, p \in Priority : SetItem(k, p) \/ SetDefault(k, p)
  \/ \E items \in [Key -> Priority \cup {Absent}] : Update(items)
  \/ \E k \in Key : DelItem(k)
  \/ \E lookup \in {"smallest", "pop_smallest"} : Ask(lookup)
  \/ \E entry \in DOMAIN heap : SkipStale(entry) \/ Return(entry)
  \/ Raise

Spec == Init /\ [][Next]_vars

(* A lookup that has begun runs on: there is one thread.                   *)
Lookup == (\E entry \in DOMAIN heap : SkipStale(entry) \/ Return(entry)) \/ Raise

FairSpec == Spec /\ WF_vars(Lookup)

-----------------------------------------------------------------------------

(* Every key in the dictionary has its current pair in the heap, among any *)
(* number of stale ones, whatever was assigned, deleted, popped or rebuilt *)
(* before.  It is why a lookup may stop at the first pair that is not      *)
(* stale.                                                                  *)
HeapCovers == \A k \in Present : <<dict[k], k>> \in DOMAIN heap

(* "When the heap grows larger than 2 * len(self), we rebuild it": stale   *)
(* pairs never outnumber what the fullest dictionary allows, although      *)
(* deletions leave theirs behind.                                          *)
HeapBounded == Size(heap) <= 2 * Cardinality(Key)

(* The heap, its stale pairs and the loops over them are invisible: a      *)
(* lookup answers with a key of lowest priority, and IndexError comes only *)
(* from an empty dictionary.                                               *)
Map == INSTANCE PriorityMap WITH map <- dict

Refinement == Map!Spec

(* Every lookup returns.                                                   *)
LookupsReturn == call # "none" ~> call = "none"

(* The inductive invariant behind Refinement.                              *)
IInv == TypeOK /\ HeapCovers
=============================================================================

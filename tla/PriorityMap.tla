---------------------------- MODULE PriorityMap ----------------------------
(***************************************************************************)
(* What priority_dict promises: a map from keys to priorities that can be  *)
(* asked for a key of lowest priority.                                     *)
(***************************************************************************)
EXTENDS Integers

CONSTANTS
  Key,
  Priority,
  Absent,       \* the priority of a key that is not in the dictionary
  NoAnswer,     \* nothing was returned
  IndexError    \* the exception of an empty dictionary

VARIABLES
  map,
  answer        \* what the last operation returned

vars == <<map, answer>>

Present == {k \in Key : map[k] # Absent}

Lowest(k) == k \in Present /\ \A j \in Present : map[k] <= map[j]

-----------------------------------------------------------------------------

Init ==
  /\ map \in [Key -> Priority \cup {Absent}]
  /\ answer = NoAnswer

(* self[k] = p, and update with several items.                             *)
Put(items) ==
  /\ map' = [k \in Key |-> IF items[k] = Absent THEN map[k] ELSE items[k]]
  /\ answer' = NoAnswer

Remove(k) ==
  /\ k \in Present
  /\ map' = [map EXCEPT ![k] = Absent]
  /\ answer' = NoAnswer

Smallest(k) == Lowest(k) /\ answer' = k /\ UNCHANGED map

PopSmallest(k) ==
  /\ Lowest(k)
  /\ answer' = k
  /\ map' = [map EXCEPT ![k] = Absent]

Refuse == Present = {} /\ answer' = IndexError /\ UNCHANGED map

Next ==
  \/ \E items \in [Key -> Priority \cup {Absent}] : Put(items)
  \/ \E k \in Key : Remove(k) \/ Smallest(k) \/ PopSmallest(k)
  \/ Refuse

Spec == Init /\ [][Next]_vars
=============================================================================

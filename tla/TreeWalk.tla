------------------------------ MODULE TreeWalk ------------------------------
(***************************************************************************)
(* tree_throughput.py: one packet of a flow walks the tree forwarding      *)
(* tables of its destination while links or switches are down.  The packet *)
(* carries its current tree and the set of trees it has found failed.      *)
(***************************************************************************)
EXTENDS TreeTables

CONSTANTS
  Model,         \* --model: "edst" or "adst"
  FailKinds,     \* what --fail may be: "edges", "vertices"
  MaxFailures,   \* bound on the failed edges or switches
  NoTree,        \* tree 0, on no tree yet
  TopTrees       \* 8: how many starting trees the cache keeps

ASSUME WalkAssumption ==
  /\ Model \in {"edst", "adst"}
  /\ FailKinds \subseteq {"edges", "vertices"}
  /\ MaxFailures \in Nat
  /\ NoTree \notin Trees
  /\ TopTrees \in Nat \ {0}

VARIABLES
  nh,            \* the forest
  lens,          \* lens[t][v]: path length of v in t
  shortest,      \* iG_shortest_paths: distance to Dst with nothing failed
  rows,          \* rows[v][t]: the entries for current tree t at v
  failedE, failedV,
  src,           \* the switch of the sending host
  v,             \* the switch the packet is at
  ctree,         \* the tree it is on
  failed_trees,  \* the trees its header marks as failed
  hops,          \* the edges crossed
  fail_exp,      \* whether it has changed trees
  status         \* "build", "ready", "idle", "walking", "delivered", "dropped"

tables == <<nh, lens, shortest, rows>>
round  == <<failedE, failedV, src>>
packet == <<v, ctree, failed_trees, hops, fail_exp>>
vars   == <<tables, round, packet, status>>

Entries == [up : Trees, mark : SUBSET Trees]

TypeOK ==
  /\ nh \in [Trees -> [Sources -> E]]
  /\ lens \in [Trees -> [V -> Nat]]
  /\ shortest \in [V -> Nat]
  /\ rows \in [Sources -> [Trees -> Seq(Entries)]]
  /\ failedE \subseteq E /\ failedV \subseteq V
  /\ src \in V /\ v \in V
  /\ ctree \in Trees \cup {NoTree}
  /\ failed_trees \subseteq Trees
  /\ hops \in Seq(E)
  /\ fail_exp \in BOOLEAN
  /\ status \in {"build", "ready", "idle", "walking", "delivered", "dropped"}

-----------------------------------------------------------------------------

(* Hops of a shortest path from every switch with nothing failed           *)
(* (iG_shortest_paths).                                                    *)
Distance ==
  LET within[n \in 0..Cardinality(V)] ==
        IF n = 0 THEN {Dst}
        ELSE LET near == within[n - 1]
             IN  near \cup {u \in V : \E e \in EdgesAt(u) : Other(u, e) \in near}
  IN  [w \in V |-> Cardinality({n \in 0..Cardinality(V) : w \notin within[n]})]

(* A forest as edst_forest and adst_forest return them, and no table yet.  *)
Init ==
  /\ nh \in [Trees -> Branchings]
  /\ IF Model = "edst" THEN EdgeDisjoint(nh) ELSE ArcDisjoint(nh)
  /\ lens = [t \in Trees |-> [w \in V |-> 0]]
  /\ shortest = Distance
  /\ rows = [w \in Sources |-> [t \in Trees |-> << >>]]
  /\ failedE = {} /\ failedV = {}
  /\ src = Dst /\ v = Dst
  /\ ctree = NoTree /\ failed_trees = {}
  /\ hops = << >> /\ fail_exp = FALSE
  /\ status = "build"

(* The table construction of tree_alg.py; s[w] is the shuffled and sorted  *)
(* list of trees of switch w.                                              *)
BuildTables ==
  /\ status = "build"
  /\ lens' = [t \in Trees |-> PathLens(nh[t])]
  /\ \E s \in [Sources -> UNION {Orders([t \in Trees |-> lens'[t][w]]) : w \in Sources}] :
       /\ \A w \in Sources : s[w] \in Orders([t \in Trees |-> lens'[t][w]])
       /\ rows' = [w \in Sources |-> [t \in Trees |-> RowOf(Model, nh, w, t, s[w])]]
  /\ status' = "ready"
  /\ UNCHANGED <<nh, shortest, round, packet>>

(* Mutant: only the edges between failed switches go down.                 *)
EdgesDown_Between(W) == {e \in E : Ends[e] \subseteq W}

(* for fv in failedV: failedE.update(fv.edgeSet)                           *)
EdgesDown(W) == UNION {EdgesAt(w) : w \in W}

(* main: the failed elements of a round and one of its flows.  A failed    *)
(* switch takes all its edges down.                                        *)
StartRound ==
  /\ status = "ready"
  /\ \/ /\ "edges" \in FailKinds
        /\ failedE' \in {F \in SUBSET E : Cardinality(F) <= MaxFailures}
        /\ failedV' = {}
     \/ /\ "vertices" \in FailKinds
        /\ failedV' \in {W \in SUBSET V : Cardinality(W) <= MaxFailures}
        /\ failedE' = EdgesDown(failedV')
  /\ src' \in V
  /\ v' = src'
  /\ status' = "idle"
  /\ UNCHANGED <<tables, ctree, failed_trees, hops, fail_exp>>

(* populate_topk_cache: the starting trees whose path is at most 1.35      *)
(* times the shortest, or else those with the best path; the TopTrees      *)
(* shortest of them, equal lengths in random order.                        *)
TopK(w) ==
  LET len(t) == lens[t][w]
      best   == {t \in StartTrees : \A u \in StartTrees : len(t) <= len(u)}
      close  == {t \in StartTrees : 100 * len(t) <= 135 * shortest[w]}
      good   == IF close = {} THEN best ELSE close
  IN  {t \in good : Cardinality({u \in good : len(u) < len(t)}) < TopTrees}

(* fwdtable_walk_path: both hosts on one switch.                           *)
SameSwitch ==
  /\ status = "idle"
  /\ src = Dst
  /\ status' = "delivered"
  /\ UNCHANGED <<tables, round, v, ctree, failed_trees, hops, fail_exp>>

(* fwdtable_walk_path: a starting tree is drawn from the cache and the     *)
(* walk begins, unless the switch itself is down.                          *)
Start ==
  /\ status = "idle"
  /\ src # Dst
  /\ ctree' \in TopK(src)
  /\ IF src \in failedV
       THEN status' = "dropped" /\ fail_exp' = TRUE
       ELSE status' = "walking" /\ UNCHANGED fail_exp
  /\ UNCHANGED <<tables, round, v, failed_trees, hops>>

Row == rows[v][ctree]

(* An entry matches when its tree is not marked and its edge is up.        *)
Matches(entry) ==
  /\ entry.up \notin failed_trees
  /\ nh[entry.up][v] \notin failedE

Matching(i) == i \in DOMAIN Row /\ Matches(Row[i])

Walking == status = "walking" /\ v # Dst

(* if ntree != ctree: fail_exp = True                                      *)
Changed(next) == fail_exp \/ next # ctree

(* The first entry that matches forwards the packet.                       *)
Forward ==
  /\ Walking
  /\ \E i \in DOMAIN Row :
       /\ Matching(i)
       /\ \A j \in DOMAIN Row : j < i => ~Matches(Row[j])
       /\ LET next == Row[i].up
              edge == nh[next][v]
          IN  /\ v' = Other(v, edge)
              /\ hops' = Append(hops, edge)
              /\ ctree' = next
              /\ fail_exp' = Changed(next)
              /\ failed_trees' = failed_trees \cup Row[i].mark
  /\ UNCHANGED <<tables, round, status>>

(* Mutant: give up only when the header marks every tree.                  *)
Drop_AllMarked ==
  /\ Walking
  /\ ResilientTrees \subseteq failed_trees
  /\ status' = "dropped"
  /\ fail_exp' = TRUE
  /\ UNCHANGED <<tables, round, v, ctree, failed_trees, hops>>

(* No entry matches: the walk gives up.                                    *)
Drop ==
  /\ Walking
  /\ \A i \in DOMAIN Row : ~Matches(Row[i])
  /\ status' = "dropped"
  /\ fail_exp' = TRUE
  /\ UNCHANGED <<tables, round, v, ctree, failed_trees, hops>>

Arrive ==
  /\ status = "walking"
  /\ v = Dst
  /\ status' = "delivered"
  /\ UNCHANGED <<tables, round, v, ctree, failed_trees, hops, fail_exp>>

Next == BuildTables \/ StartRound \/ SameSwitch \/ Start \/ Forward \/ Drop \/ Arrive

Spec == Init /\ [][Next]_vars

(* The walk is a loop of a single-threaded program.                        *)
FairSpec == Spec /\ WF_vars(Next)

-----------------------------------------------------------------------------
(* Properties.                                                             *)

Broken(t) == \E w \in Sources : nh[t][w] \in failedE

(* The switches of a path in order, Path.vertices.                         *)
Vertices ==
  LET at[i \in 0..Len(hops)] == IF i = 0 THEN src ELSE Other(at[i - 1], hops[i])
  IN  at

(* The header never condemns a tree that is intact: mark_failed lists the  *)
(* trees above the used entry whether or not this packet tried them.       *)
MarkedAreBroken == \A t \in failed_trees : Broken(t)

(* A packet is given up only when every resilient tree has a failed edge;  *)
(* one intact tree, wherever it lies, delivers.                            *)
IntactTreeDelivers ==
  status = "dropped" /\ src \notin failedV => \A t \in ResilientTrees : Broken(t)

(* k trees survive any k - 1 failed edges ("Resilience + 1" trees): always *)
(* when they are edge-disjoint, up to k = 3 when they are arc-disjoint.    *)
Resilient ==
  Cardinality(failedE) < NumRes /\ src \notin failedV => status # "dropped"

(* No link is crossed twice the same way, however often the packet changes *)
(* trees, two of which may use the two ways of one link.                   *)
NoArcTwice ==
  \A i, j \in DOMAIN hops : i # j =>
    <<Vertices[i], hops[i]>> # <<Vertices[j], hops[j]>>

(* "assert(v not in failedV)" in the walk, which only ever looks at edges: *)
(* a flow between different switches never stands on a failed one.         *)
TransitAvoidsFailures ==
  status \in {"walking", "delivered"} /\ src # Dst => v \notin failedV

(* Every walk ends.                                                        *)
Terminates == <>(status \in {"delivered", "dropped"})

-----------------------------------------------------------------------------
(* The inductive invariant behind MarkedAreBroken and IntactTreeDelivers,  *)
(* and Resilient for edge-disjoint trees.                                  *)

ForestStays ==
  /\ nh \in [Trees -> Branchings]
  /\ IF Model = "edst" THEN EdgeDisjoint(nh) ELSE ArcDisjoint(nh)

(* What a row is for: it offers every resilient tree, and an entry marks   *)
(* only trees that were offered above it.                                  *)
OffersAll(row) ==
  /\ \A t \in ResilientTrees : \E i \in DOMAIN row : row[i].up = t
  /\ \A i \in DOMAIN row : row[i].up \in Trees
  /\ \A i \in DOMAIN row : \A t \in row[i].mark :
       \E j \in DOMAIN row : j < i /\ row[j].up = t

RowsOffer ==
  status # "build" => \A w \in Sources, t \in Trees : OffersAll(rows[w][t])

PacketPlaced ==
  /\ status \in {"build", "ready", "idle", "walking", "delivered", "dropped"}
  /\ failedE \subseteq E
  /\ src \in V /\ v \in V
  /\ status = "walking" => ctree \in Trees
  /\ status \in {"build", "ready", "idle"} => failed_trees = {}

HeadersRight ==
  /\ ForestStays /\ RowsOffer /\ PacketPlaced
  /\ MarkedAreBroken /\ IntactTreeDelivers

IInv == TypeOK /\ HeadersRight

-----------------------------------------------------------------------------
(* The inductive invariant behind Resilient for arc-disjoint trees, where  *)
(* one failed edge may break two trees.                                    *)

(* The i-th entry of a row of switch w has its reverse tree right behind   *)
(* it, if not above it.                                                    *)
ReverseFollows(w, row, i) ==
  \A u \in ReverseTrees(nh, w, row[i].up) :
    \E j \in DOMAIN row : j <= i + 1 /\ row[j].up = u

(* A row begins with the current tree, has the others once, and marks what *)
(* stands above.                                                           *)
RowOrdered(c, row) ==
  /\ row # << >> /\ row[1].up = c
  /\ Len(row) <= IF c \in ResilientTrees THEN NumRes ELSE NumRes + 1
  /\ \A i \in DOMAIN row : i # 1 => row[i].up \in ResilientTrees
  /\ \A i \in DOMAIN row : row[i].mark = {row[j].up : j \in 1..(i - 1)}

(* What adst_fwdtable pairs: the exception is an entry that is itself the  *)
(* reverse tree of the one above it.                                       *)
RowPaired(w, row) ==
  \A i \in DOMAIN row :
    \/ ReverseFollows(w, row, i)
    \/ i >= 2 /\ row[i].up \in ReverseTrees(nh, w, row[i - 1].up)

RowsPaired ==
  status # "build" =>
    \A w \in Sources, c \in Trees : RowOrdered(c, rows[w][c]) /\ RowPaired(w, rows[w][c])

(* Without the exception.                                                  *)
ReversesFollow ==
  status # "build" =>
    \A w \in Sources, c \in Trees : \A i \in DOMAIN rows[w][c] : ReverseFollows(w, rows[w][c], i)

(* Going on along f from w, one never comes to x.                          *)
NeverMeets(f, w, x) ==
  \E S \in SUBSET V :
    /\ w \in S /\ x \notin S
    /\ \A y \in S \cap Sources : Other(y, f[y]) \in S

(* Every marked tree was found failed at a switch, no two of them over the *)
(* same edge, for the reverse tree is marked too or carries the packet     *)
(* away from the other end of the edge.                                    *)
FoundAt(at) ==
  /\ \A t \in DOMAIN at : nh[t][at[t]] \in failedE
  /\ \A t, u \in DOMAIN at : t # u => nh[t][at[t]] # nh[u][at[u]]
  /\ \A t \in DOMAIN at : \A u \in ReverseTrees(nh, at[t], t) :
       \/ u \in failed_trees
       \/ ctree = u /\ NeverMeets(nh[u], v, Other(at[t], nh[t][at[t]]))

Marks == failed_trees \cap ResilientTrees

MarksFound ==
  /\ status = "walking"
  /\ Cardinality(failedE) < NumRes
  /\ \A t \in ResilientTrees : Broken(t)
  => \E at \in [Marks -> Sources] : FoundAt(at)

FreshOnDefault == status = "walking" /\ ctree \in DefaultTrees => failed_trees = {}

ArcInv == RowsPaired /\ FreshOnDefault /\ MarksFound /\ Resilient
=============================================================================

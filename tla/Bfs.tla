-------------------------------- MODULE Bfs ---------------------------------
(***************************************************************************)
(* igraph_i_bfs as this repository patches it (visitors.c): two queues of  *)
(* triples <child, parent, distance of the parent>, one for the level that *)
(* is searched and one for the next.  The triples of a level are shuffled, *)
(* and a vertex becomes the child of the first triple that names it.       *)
(* One action per turn of each loop; finally is the stack on which igraph  *)
(* keeps what an error has to free.                                        *)
(***************************************************************************)
EXTENDS DQueue

CONSTANTS QueueSize,      \* cells of a new queue (100 in the code)
          FinallySize     \* entries the stack has room for (1000000 in the code)

VARIABLES adj,            \* [vertices -> sequence of neighbours], igraph_neighbors
          root,
          queue, qptr,    \* q and nq, and which of them is searched
          added, parents,
          vids,           \* its entries up to rank; what is behind them is never set
          layers, lastlayer,
          depth,          \* auxiliary: the distance a vertex was added at
          neis, i, nvect, actdist,
          finally,
          pc

results == <<added, parents, vids, layers, lastlayer, depth>>
locals  == <<neis, i, nvect, actdist>>
vars == <<adj, root, queue, qptr, results, locals, finally, pc>>

Nodes == DOMAIN adj
nqptr == IF qptr = "q" THEN "nq" ELSE "q"

NoResults ==
  /\ root = -1
  /\ queue = [x \in {"q", "nq"} |-> DqInit(QueueSize)] /\ qptr = "q"
  /\ added = {} /\ parents = [v \in {} |-> -1] /\ depth = [v \in {} |-> 0]
  /\ vids = << >> /\ layers = << >> /\ lastlayer = -1
  /\ neis = << >> /\ i = 0 /\ nvect = -1 /\ actdist = 0

Init == adj = [v \in {} |-> << >>] /\ NoResults /\ finally = << >> /\ pc = "idle"

(* Between two searches the graph may change, and others use the stack.    *)
Edit ==
  /\ pc = "idle"
  /\ \E n \in Nat : adj' \in [0..n - 1 -> Seq(0..n - 1)]
  /\ UNCHANGED <<root, queue, qptr, results, locals, pc>>

(* The caller has what was found.                                          *)
Forget ==
  /\ pc = "done"
  /\ root' = -1 /\ qptr' = "q"
  /\ added' = {}
  /\ parents' = [v \in {} |-> -1] /\ depth' = [v \in {} |-> 0]
  /\ vids' = << >> /\ layers' = << >> /\ lastlayer' = -1
  /\ pc' = "idle"
  /\ UNCHANGED <<adj, queue, locals, finally>>

Temporaries == <<"added", "neis", "q", "nq">>

(* Up to the loop over the children of vid, the root.                      *)
Call(vid) ==
  /\ pc = "idle"
  /\ Len(finally) + Len(Temporaries) <= FinallySize
  /\ root' = vid
  /\ queue' = [x \in {"q", "nq"} |-> DqInit(QueueSize)] /\ qptr' = "q"
  /\ added' = {vid}
  /\ parents' = [v \in Nodes |-> IF v = vid THEN vid ELSE -1]
  /\ depth' = [v \in Nodes |-> 0]
  /\ vids' = <<vid>> /\ layers' = <<0>> /\ lastlayer' = -1
  /\ neis' = adj[vid] /\ i' = 0 /\ nvect' = vid /\ actdist' = 0
  /\ finally' = finally \o Temporaries
  /\ pc' = "children"
  /\ UNCHANGED adj

(* assert (no<1000000) in IGRAPH_FINALLY_REAL.                             *)
Abort ==
  /\ pc = "idle" /\ Nodes # {}
  /\ Len(finally) + Len(Temporaries) > FinallySize
  /\ pc' = "abort"
  /\ UNCHANGED <<adj, root, queue, qptr, results, locals, finally>>

PushTriple(q, child, parent, dist) == DqPush(DqPush(DqPush(q, child), parent), dist)

Child ==
  /\ pc = "children" /\ i < Len(neis)
  /\ queue' = [queue EXCEPT !.q = PushTriple(@, neis[i + 1], root, 0)]
  /\ i' = i + 1
  /\ UNCHANGED <<adj, root, qptr, results, neis, nvect, actdist, finally, pc>>

ChildrenDone ==
  /\ pc = "children" /\ i = Len(neis)
  /\ pc' = "level"
  /\ UNCHANGED <<adj, root, queue, qptr, results, locals, finally>>

Items(q) == DqSize(q) \div 3

(* The shuffle of the level: one turn of its loop for each item but the    *)
(* last.                                                                   *)
Shuffle ==
  /\ pc = "level" /\ ~DqEmpty(queue[qptr])
  /\ i' = 0
  /\ pc' = "shuffle"
  /\ UNCHANGED <<adj, root, queue, qptr, results, neis, nvect, actdist, finally>>

Swap(j) ==
  /\ pc = "shuffle" /\ i < Items(queue[qptr]) - 1
  /\ queue' = [queue EXCEPT ![qptr] = DqSwap(@, i, j)]
  /\ i' = i + 1
  /\ UNCHANGED <<adj, root, qptr, results, neis, nvect, actdist, finally, pc>>

Shuffled ==
  /\ pc = "shuffle" /\ i >= Items(queue[qptr]) - 1
  /\ pc' = "pop"
  /\ UNCHANGED <<adj, root, queue, qptr, results, locals, finally>>

(* The three values popped, and the queue after that.                      *)
Popped(q) ==
  [child |-> DqHead(q), parent |-> DqHead(DqPop(q)), dist |-> DqHead(DqPop(DqPop(q))),
   rest |-> DqPop(DqPop(DqPop(q)))]

PopKnown ==
  /\ pc = "pop" /\ ~DqEmpty(queue[qptr])
  /\ Popped(queue[qptr]).child \in added
  /\ queue' = [queue EXCEPT ![qptr] = Popped(@).rest]
  /\ UNCHANGED <<adj, root, qptr, results, locals, finally, pc>>

(* Mutant: the layer of the parent is remembered, not the new one.         *)
PopNew_OldLayer ==
  LET p == Popped(queue[qptr])
  IN  /\ pc = "pop" /\ ~DqEmpty(queue[qptr])
      /\ p.child \notin added
      /\ queue' = [queue EXCEPT ![qptr] = p.rest]
      /\ added' = added \cup {p.child}
      /\ parents' = [parents EXCEPT ![p.child] = p.parent]
      /\ depth' = [depth EXCEPT ![p.child] = p.dist + 1]
      /\ layers' = IF lastlayer # p.dist + 1 THEN Append(layers, Len(vids)) ELSE layers
      /\ vids' = Append(vids, p.child)
      /\ lastlayer' = p.dist
      /\ nvect' = p.child /\ actdist' = p.dist
      /\ neis' = adj[p.child] /\ i' = 0
      /\ pc' = "scan"
      /\ UNCHANGED <<adj, root, qptr, finally>>

PopNew ==
  LET p == Popped(queue[qptr])
  IN  /\ pc = "pop" /\ ~DqEmpty(queue[qptr])
      /\ p.child \notin added
      /\ queue' = [queue EXCEPT ![qptr] = p.rest]
      /\ added' = added \cup {p.child}
      /\ parents' = [parents EXCEPT ![p.child] = p.parent]
      /\ depth' = [depth EXCEPT ![p.child] = p.dist + 1]
      /\ layers' = IF lastlayer # p.dist + 1 THEN Append(layers, Len(vids)) ELSE layers
      /\ vids' = Append(vids, p.child)
      /\ lastlayer' = p.dist + 1
      /\ nvect' = p.child /\ actdist' = p.dist
      /\ neis' = adj[p.child] /\ i' = 0
      /\ pc' = "scan"
      /\ UNCHANGED <<adj, root, qptr, finally>>

(* Mutant: it waits in the queue of the level that is searched.            *)
Scan_SameLevel ==
  /\ pc = "scan" /\ i < Len(neis)
  /\ queue' = IF neis[i + 1] \in added THEN queue
              ELSE [queue EXCEPT ![qptr] = PushTriple(@, neis[i + 1], nvect, actdist + 1)]
  /\ i' = i + 1
  /\ UNCHANGED <<adj, root, qptr, results, neis, nvect, actdist, finally, pc>>

(* A neighbour that is not added yet waits in the queue of the next level. *)
Scan ==
  /\ pc = "scan" /\ i < Len(neis)
  /\ queue' = IF neis[i + 1] \in added THEN queue
              ELSE [queue EXCEPT ![nqptr] = PushTriple(@, neis[i + 1], nvect, actdist + 1)]
  /\ i' = i + 1
  /\ UNCHANGED <<adj, root, qptr, results, neis, nvect, actdist, finally, pc>>

Scanned ==
  /\ pc = "scan" /\ i = Len(neis)
  /\ pc' = "pop"
  /\ UNCHANGED <<adj, root, queue, qptr, results, locals, finally>>

EndLevel ==
  /\ pc = "pop" /\ DqEmpty(queue[qptr])
  /\ qptr' = nqptr
  /\ pc' = "level"
  /\ UNCHANGED <<adj, root, queue, results, locals, finally>>

(* IGRAPH_FINALLY_CLEAN                                                    *)
Clean(stack, minus) == SubSeq(stack, 1, Len(stack) - minus)

Return ==
  /\ pc = "level" /\ DqEmpty(queue[qptr])
  /\ layers' = Append(layers, Len(vids))
  /\ neis' = << >> /\ i' = 0 /\ nvect' = -1 /\ actdist' = 0
  /\ queue' = [x \in {"q", "nq"} |-> DqInit(QueueSize)]
  /\ finally' = Clean(finally, 3)
  /\ pc' = "done"
  /\ UNCHANGED <<adj, root, qptr, added, parents, vids, lastlayer, depth>>

Step ==
  \/ Child \/ ChildrenDone
  \/ Shuffle \/ Shuffled \/ \E j \in i..Items(queue[qptr]) - 1 : Swap(j)
  \/ PopKnown \/ PopNew \/ Scan \/ Scanned \/ EndLevel \/ Return

Next == Edit \/ Forget \/ Abort \/ Step \/ \E vid \in Nodes : Call(vid)

Spec == Init /\ [][Next]_vars

-----------------------------------------------------------------------------
(* What is left to do, as pairs of a child and a parent: the triples of a  *)
(* queue, and the neighbours the loop has not come to.                     *)

Triples(q) ==
  {<<DqItems(q)[3 * n + 1], DqItems(q)[3 * n + 2]>> : n \in 0..Items(q) - 1}

Remaining(parent) == {<<neis[k], parent>> : k \in i + 1..Len(neis)}

New(pairs) == {e \in pairs : e[1] \notin added}

(* The variables of RandomBfs that are not variables here.                 *)
Reaches  == [v \in Nodes |-> {adj[v][k] : k \in DOMAIN adj[v]}]
Frontier == New(Triples(queue[qptr]) \cup IF pc = "children" THEN Remaining(root) ELSE {})
Ahead    == New(Triples(queue[nqptr]) \cup IF pc = "scan" THEN Remaining(nvect) ELSE {})
Phase    == IF pc \in {"idle", "abort"} THEN "idle"
            ELSE IF pc = "done" THEN "done" ELSE "level"

Abstract == INSTANCE RandomBfs WITH
  adj <- Reaches, frontier <- Frontier, next <- Ahead, phase <- Phase

(* The two queues, their wrapping and growing and the swaps in place make  *)
(* a search that gives every vertex to some vertex of the level before:    *)
(* no triple is lost, none is read from the wrong cells.                   *)
SearchRefines == Abstract!Spec

(* When a search has returned, the stack of what an error must free is as  *)
(* it was: igraph_i_bfs freed what it put there.                           *)
FinallyClean == pc = "done" => finally = << >>

(* vids are the vertices in the order of their distance, and layers says   *)
(* where each distance begins, and where the last one ends.                *)
LayersRight ==
  pc = "done" =>
    /\ {vids[k] : k \in DOMAIN vids} = added
    /\ \A k \in DOMAIN vids : LET d == depth[vids[k]]
                             IN  layers[d + 1] < k /\ k <= layers[d + 2]
    /\ layers[Len(layers)] = Len(vids)
=============================================================================

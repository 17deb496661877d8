------------------------------- MODULE DQueue -------------------------------
(***************************************************************************)
(* The double ended queue of the patched igraph (dqueue.pmt), as operators *)
(* on a queue: a record of the allocated cells, their number, and the      *)
(* pointers begin and end as offsets into them.  end is where the next     *)
(* element goes, NULL when the queue is empty, and equal to begin when it  *)
(* is full.                                                                *)
(***************************************************************************)
EXTENDS Integers, Sequences

(* Below every pointer, as the comparisons in the code have it.            *)
NULL == -1

DqInit(size) ==
  LET n == IF size <= 0 THEN 1 ELSE size
  IN  [stor |-> [k \in 0..n - 1 |-> 0], size |-> n, begin |-> 0, end |-> NULL]

DqEmpty(q) == q.end = NULL

DqFull(q) == q.begin = q.end

DqSize(q) ==
  IF q.end = NULL THEN 0
  ELSE IF q.begin < q.end THEN q.end - q.begin
  ELSE q.size - q.begin + q.end

DqClear(q) == [q EXCEPT !.begin = 0, !.end = NULL]

DqHead(q) == q.stor[q.begin]

DqBack(q) == q.stor[IF q.end = 0 THEN q.size - 1 ELSE q.end - 1]

(* The offset after k, around the end of the cells.                        *)
NextCell(q, k) == IF k + 1 = q.size THEN 0 ELSE k + 1

(* The queue after igraph_dqueue_pop; what pop returns is DqHead.          *)
DqPop(q) ==
  LET begin == NextCell(q, q.begin)
  IN  [q EXCEPT !.begin = begin, !.end = IF begin = @ THEN NULL ELSE @]

(* The queue after igraph_dqueue_pop_back, which returns DqBack.           *)
DqPopBack(q) ==
  LET end == IF q.end # 0 THEN q.end - 1 ELSE q.size - 1
  IN  [q EXCEPT !.end = IF q.begin = end THEN NULL ELSE end]

(* The two memcpys into 2 * n + 1 cells, of what lies from begin to the    *)
(* end of the cells and of what lies before.                               *)
Grown(q) ==
  LET high == q.size - q.begin
  IN  [stor |-> [k \in 0..2 * q.size |->
                   IF k < high THEN q.stor[q.begin + k]
                   ELSE IF k < high + q.end THEN q.stor[k - high] ELSE 0],
       size |-> 2 * q.size + 1, begin |-> 0, end |-> q.size]

DqPush(q, elem) ==
  LET room == IF DqFull(q) THEN Grown(q) ELSE q
      end  == IF room.end = NULL THEN room.begin ELSE room.end
  IN  [room EXCEPT !.stor[end] = elem, !.end = NextCell(room, end)]

(* The cell of the element at position idx, NULL if there is none.         *)
DqEPtr(q, idx) ==
  LET adj_idx == idx - (q.size - q.begin)
  IN  IF \/ q.begin + idx < q.end
         \/ q.begin >= q.end /\ q.begin + idx < q.size
      THEN q.begin + idx
      ELSE IF q.begin >= q.end /\ adj_idx < q.end THEN adj_idx
      ELSE NULL

(* Mutant: only the first elements of the items change places.             *)
DqSwap_FirstOnly(q, i, j) ==
  LET cell(n) == DqEPtr(q, n)
  IN  [q EXCEPT !.stor = [@ EXCEPT ![cell(3 * i)] = q.stor[cell(3 * j)],
                                   ![cell(3 * j)] = q.stor[cell(3 * i)]]]

(* One turn of the loop of igraph_dqueue_shuffle: the items i and j, of    *)
(* three elements each, change places.                                     *)
DqSwap(q, i, j) ==
  LET cell(n) == DqEPtr(q, n)
  IN  [q EXCEPT !.stor = [@ EXCEPT ![cell(3 * i)]     = q.stor[cell(3 * j)],
                                   ![cell(3 * i + 1)] = q.stor[cell(3 * j + 1)],
                                   ![cell(3 * i + 2)] = q.stor[cell(3 * j + 2)],
                                   ![cell(3 * j)]     = q.stor[cell(3 * i)],
                                   ![cell(3 * j + 1)] = q.stor[cell(3 * i + 1)],
                                   ![cell(3 * j + 2)] = q.stor[cell(3 * i + 2)]]]

-----------------------------------------------------------------------------
(* What a queue stands for.                                                *)

IsDQueue(q) ==
  /\ q \in [stor : [0..q.size - 1 -> Int], size : Nat \ {0}, begin : Nat, end : Int]
  /\ q.begin < q.size
  /\ NULL <= q.end /\ q.end < q.size

(* Where the element n places after the head lies.                         *)
DqCell(q, n) ==
  IF q.begin + n < q.size THEN q.begin + n ELSE q.begin + n - q.size

(* The elements in the order they will be popped.                          *)
DqItems(q) == [n \in 1..DqSize(q) |-> q.stor[DqCell(q, n - 1)]]
=============================================================================

------------------------------ MODULE PlinkoCdg ------------------------------
(***************************************************************************)
(* plinko_path_cdg of resnet_dfr.py: the channel dependency graph of a     *)
(* route and its backups, read off the tables by walking every route and   *)
(* looking up at each switch the entries for a packet that fails there.    *)
(* It is computed for the finished tables and compared with the walks of   *)
(* PlinkoWalk.                                                             *)
(***************************************************************************)
EXTENDS PlinkoWalk

CONSTANTS
  PortOf,   \* PortOf[v][e]: the port of v that e is plugged into, one edge each
  NoArc     \* None: no hop was made yet

(* A reverse path as the tables hold it: port numbers.                     *)
Ports(w, way) ==
  [n \in DOMAIN way |-> PortOf[After(w, SubSeq(way, 1, n - 1))][way[n]]]

(* A stack entry: a route from cv, the reverse path crp it was found by,   *)
(* and the arc the packet came over.                                       *)
Item(cp, crp, cv, parc) == [cp |-> cp, crp |-> crp, cv |-> cv, parc |-> parc]

Switch(item, n) == After(item.cv, SubSeq(item.cp, 1, n - 1))

Arc(item, n) == <<Switch(item, n), item.cp[n]>>

Parc(item, n) == IF n = 1 THEN item.parc ELSE Arc(item, n - 1)

(* crp + tuple(rev_path) at hop n                                          *)
Nrp(item, n) ==
  item.crp \o [k \in 1..n - 1 |-> PortOf[Switch(item, k + 1)][item.cp[k]]]

(* The routes found on the way: not at the first switch, whose entries     *)
(* were all pushed before.                                                 *)
Pushed(item) ==
  UNION {{Item(o.out, Nrp(item, n), o.at, Parc(item, n)) :
            o \in {p \in fwdtable : /\ p.at = Switch(item, n)
                                    /\ Ports(p.at, p.rp) = Nrp(item, n)}}
         : n \in 2..Len(item.cp)}

(* Everything that is ever on the stack; a reverse path grows with each    *)
(* push and is one of the table.                                           *)
Popped(first) ==
  LET depth == Max({Len(o.rp) : o \in fwdtable})
      upto[k \in 0..depth] ==
        IF k = 0 THEN {first}
        ELSE LET items == upto[k - 1] IN items \cup UNION {Pushed(it) : it \in items}
  IN  upto[depth]

PathCdg(o) ==
  UNION {{<<Parc(it, n), Arc(it, n)>> : n \in {m \in DOMAIN it.cp : Parc(it, m) # NoArc}}
         : it \in Popped(Item(o.out, <<>>, o.at, NoArc))}

(* get_path_cdgs: the graphs of the entries for packets without a reverse  *)
(* path.                                                                   *)
PathCdgs == {PathCdg(o) : o \in {p \in fwdtable : p.rp = <<>>}}

-----------------------------------------------------------------------------

(* The dependencies the walk makes: over one arc while holding the last.   *)
WalkDeps ==
  {<< <<After(src, SubSeq(hops, 1, n - 2)), hops[n - 1]>>,
      <<After(src, SubSeq(hops, 1, n - 1)), hops[n]>> >> : n \in 2..Len(hops)}

(* "Walk the path, finding arcs and dependencies and new paths": no packet *)
(* waits for an arc in a way that the graphs do not know of, not even one  *)
(* that uses no port twice, as --dfr wants it.                             *)
DependenciesFound ==
  status = "delivered" /\ Cardinality(Arcs(src, hops)) = Len(hops)
    => WalkDeps \subseteq UNION PathCdgs
=============================================================================

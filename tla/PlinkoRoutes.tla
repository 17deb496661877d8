---------------------------- MODULE PlinkoRoutes ----------------------------
(***************************************************************************)
(* The main loop of resnet_alg.py for one destination, --model plinko and  *)
(* --fail edges: default routes to Dst, then round after round a backup    *)
(* for every edge of every route of the round before.  A table entry is    *)
(* found by the reverse path, the way the packet came; the failures its    *)
(* route was computed for are never in the packet.                         *)
(*                                                                         *)
(* A hop is the edge behind the port; a reverse path starts at the switch  *)
(* that looks it up, the last hop first.                                   *)
(***************************************************************************)
EXTENDS Topology, SequencesExt

CONSTANTS
  Dst,
  Args   \* the arguments main may be called with

ArgsType ==
  [sources : SUBSET (V \ {Dst}),          \* the switches with hosts, but Dst
   rounds : Nat,                          \* --rounds
   fwd_routing : {"src", "hop-by-hop"},   \* --fwd-routing
   compression_aware : BOOLEAN,           \* --compression-aware-routing
   dfr : BOOLEAN]                         \* --dfr

ASSUME RoutesAssumption == Dst \in V /\ Args \subseteq ArgsType

VARIABLES
  args,           \* never changes
  fwdtable,       \* the entries of all switches
  dependencies,   \* the (edge set, route) pairs this round has to repair
  nextdep,        \* those of the next round
  i               \* rounds begun

routes == <<args, fwdtable, dependencies, nextdep, i>>

Sources == args.sources
Rounds == args.rounds

-----------------------------------------------------------------------------
(* Paths.                                                                  *)

(* The switch that the hops lead to.                                       *)
After(v, hops) ==
  LET at[n \in 0..Len(hops)] ==
        IF n = 0 THEN v ELSE LET last == at[n - 1] IN Other(last, hops[n])
  IN  at[Len(hops)]

Arcs(v, hops) ==
  {<<After(v, SubSeq(hops, 1, n - 1)), hops[n]>> : n \in DOMAIN hops}

(* The hops before the first failed edge (revpath_at_fail).                *)
Followed(hops, failed) ==
  LET broken == {n \in DOMAIN hops : hops[n] \in failed}
  IN  IF broken = {} THEN hops ELSE SubSeq(hops, 1, Min(broken) - 1)

(* Hops from every switch to Dst over the edges up, |V|+1 if there are none.*)
Distance(up) ==
  LET within[n \in 0..Cardinality(V)] ==
        IF n = 0 THEN {Dst}
        ELSE LET near == within[n - 1]
             IN  near \cup {w \in V : \E e \in EdgesAt(w) \cap up : Other(w, e) \in near}
  IN  [w \in V |-> Cardinality({n \in 0..Cardinality(V) : w \notin within[n]})]

(* All shortest paths from v to Dst over the edges up: the patched igraph  *)
(* returns any of them.                                                    *)
ShortestPaths(v, up) ==
  LET dist == Distance(up)
      from[n \in 0..Cardinality(V)] ==
        IF n = 0 THEN [w \in {Dst} |-> {<<>>}]
        ELSE LET last == from[n - 1]
                 ways(w) == {e \in EdgesAt(w) \cap up : Other(w, e) \in DOMAIN last}
             IN  [w \in {u \in V : dist[u] = n} |->
                    UNION {{<<e>> \o p : p \in last[Other(w, e)]} : e \in ways(w)}]
  IN  IF dist[v] > Cardinality(V) THEN {} ELSE from[dist[v]][v]

-----------------------------------------------------------------------------
(* Tables.                                                                 *)

(* A route: from v over hops to Dst, for packets that came along rp, with  *)
(* the edges in failedE known to be down.                                  *)
Route(v, hops, failedE, rp) == [v |-> v, hops |-> hops, failedE |-> failedE, rp |-> rp]

(* Mutant: the reverse path is not part of the key.                        *)
Entries_NoReverse(r) ==
  {[at |-> After(r.v, SubSeq(r.hops, 1, n - 1)), rp |-> <<>>, up |-> r.hops[n],
    down |-> r.failedE \cap EdgesAt(After(r.v, SubSeq(r.hops, 1, n - 1))),
    out |-> IF args.fwd_routing = "src" THEN r.hops ELSE <<r.hops[n]>>,
    full |-> SubSeq(r.hops, n, Len(r.hops))]
     : n \in IF args.fwd_routing = "src" THEN {1} ELSE DOMAIN r.hops}

(* The entries of a route: one at its head, or one per hop.                *)
Entries(r) ==
  LET entry(v, rp, rest, out) ==
        [at |-> v, rp |-> rp, up |-> rest[1], down |-> r.failedE \cap EdgesAt(v),
         out |-> out, full |-> rest]
  IN  IF args.fwd_routing = "src"
      THEN {entry(r.v, r.rp, r.hops, r.hops)}
      ELSE {LET done == SubSeq(r.hops, 1, n - 1)
            IN  entry(After(r.v, done), Reverse(done) \o r.rp,
                      SubSeq(r.hops, n, Len(r.hops)), <<r.hops[n]>>)
             : n \in DOMAIN r.hops}

(* v.fwdtable[rp, firste, localFailedE] = path                             *)
Install(new) ==
  {old \in fwdtable : \A o \in new :
      <<old.at, old.rp, old.up, old.down>> # <<o.at, o.rp, o.up, o.down>>} \cup new

(* update_deps: every edge of a route may fail on top of what has failed.  *)
Deps(r, edgeDeps) ==
  {[failed |-> edgeDeps \cup {e}, route |-> r] : e \in Range(r.hops)}

(* The default routes (build_init_paths) and their entries.                *)
Init ==
  /\ args \in Args
  /\ \E default \in [Sources -> UNION {ShortestPaths(s, E) : s \in Sources}] :
       /\ \A s \in Sources : default[s] \in ShortestPaths(s, E)
       /\ LET initial == {Route(s, default[s], {}, <<>>) : s \in Sources}
          IN  /\ fwdtable = UNION {Entries(r) : r \in initial}
              /\ nextdep = UNION {Deps(r, {}) : r \in initial}
  /\ dependencies = {}
  /\ i = 0

NextRound ==
  /\ dependencies = {} /\ nextdep # {}
  /\ i < Rounds
  /\ dependencies' = nextdep
  /\ nextdep' = {}
  /\ i' = i + 1
  /\ UNCHANGED <<args, fwdtable>>

(* The routes already in the table of v that a backup may repeat.          *)
Existing(v, known, arcSet) ==
  {o \in fwdtable :
     /\ o.at = v
     /\ Range(o.full) \cap known = {}
     /\ args.dfr => Arcs(v, o.full) \cap arcSet = {}}

(* With compression-aware routing one of the most common existing routes,  *)
(* if there is any; else a shortest path.  (In shortest_path, what --dfr   *)
(* removes from the graph is overwritten by the next branch.)              *)
Backups(v, known, arcSet) ==
  LET existing == Existing(v, known, arcSet)
      uses(hops) == Cardinality({o \in existing : o.full = hops})
      fulls == {o.full : o \in existing}
  IN  IF args.compression_aware /\ existing # {}
      THEN {hops \in fulls : \A h \in fulls : uses(h) <= uses(hops)}
      ELSE ShortestPaths(v, E \ known)

(* Mutant: the hops of the route are prepended in forward order.           *)
RevPath_Forward(d) == Followed(d.route.hops, d.failed) \o d.route.rp

(* fullRevPath: back from where the route of d fails.                      *)
RevPath(d) == Reverse(Followed(d.route.hops, d.failed)) \o d.route.rp

FailsAt(d) == After(d.route.v, Followed(d.route.hops, d.failed))

(* Mutant: only the failures at the switch are known.                      *)
Known_LocalOnly(d) == d.failed \cap EdgesAt(FailsAt(d))

(* knownFailedE: what the route was computed for, and what v sees.         *)
Known(d) == d.route.failedE \cup (d.failed \cap EdgesAt(FailsAt(d)))

(* One backup route; none if the failures disconnect the switch.           *)
Backup(d) ==
  LET v == FailsAt(d)
      rp == RevPath(d)
      backups == Backups(v, Known(d), Arcs(After(v, rp), Reverse(rp)))
  IN  /\ d \in dependencies
      /\ dependencies' = dependencies \ {d}
      /\ IF backups = {} THEN UNCHANGED <<fwdtable, nextdep>>
         ELSE \E hops \in backups :
                LET r == Route(v, hops, Known(d), rp)
                IN  /\ fwdtable' = Install(Entries(r))
                    /\ nextdep' = nextdep \cup Deps(r, d.failed)
      /\ UNCHANGED <<args, i>>

Built == dependencies = {} /\ (nextdep = {} \/ i = Rounds)

Build == NextRound \/ \E d \in dependencies : Backup(d)

-----------------------------------------------------------------------------

(* "assert(knownFailedE == edgeDeps)": what a switch can know, from the    *)
(* way the packet came and from its own ports, is exactly the set of edges *)
(* the round lets fail, in every round ("assert(len(edgeDeps) == i)").     *)
KnowsWhatFailed ==
  \A d \in dependencies : Known(d) = d.failed /\ Cardinality(d.failed) = i

(* Two entries that one header can reach exclude each other: the edge one  *)
(* of them needs up is among those the other needs down.  So the reverse   *)
(* path and the local failures tell all routes through a switch apart,     *)
(* also routes that know of different failures elsewhere, and no entry is  *)
(* written over another.                                                   *)
Exclusive ==
  \A o, p \in fwdtable :
    o.at = p.at /\ o.rp = p.rp /\ o # p => o.up \in p.down \/ p.up \in o.down
=============================================================================

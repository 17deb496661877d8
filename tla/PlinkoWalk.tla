----------------------------- MODULE PlinkoWalk -----------------------------
(***************************************************************************)
(* plinko_walk_path of resnet_throughput.py: a packet of a flow walks the  *)
(* tables of its destination.  It follows the route of the entry it        *)
(* matches until that meets a failed edge, and is looked up again there    *)
(* with the way it came.                                                   *)
(***************************************************************************)
EXTENDS PlinkoRoutes

CONSTANT MaxFailures   \* bound on the failed edges

ASSUME WalkAssumption == MaxFailures \in Nat

VARIABLES
  failedE,
  src,      \* the switch of the sending host
  v,        \* where the packet is
  rp,       \* its reverse path
  hops,     \* the edges it crossed
  status    \* "build", "walking", "delivered", "dropped"

packet == <<failedE, src, v, rp, hops, status>>

vars == <<routes, packet>>

WalkInit ==
  /\ Init
  /\ failedE = {} /\ src = Dst /\ v = Dst
  /\ rp = <<>> /\ hops = <<>>
  /\ status = "build"

BuildTables == status = "build" /\ Build /\ UNCHANGED packet

(* One flow, with any edges down.                                          *)
Send ==
  /\ status = "build" /\ Built
  /\ failedE' \in {F \in SUBSET E : Cardinality(F) <= MaxFailures}
  /\ src' \in Sources
  /\ v' = src'
  /\ status' = "walking"
  /\ UNCHANGED <<routes, rp, hops>>

(* Mutant: the edge that must be up is not looked at.                      *)
Matches_DownOnly ==
  {o \in fwdtable : o.at = v /\ o.rp = rp /\ o.down \subseteq failedE}

(* e not in localFailedE and fs <= localFailedE                            *)
Matches ==
  LET localFailedE == EdgesAt(v) \cap failedE
  IN  {o \in fwdtable : /\ o.at = v /\ o.rp = rp
                        /\ o.up \notin localFailedE
                        /\ o.down \subseteq localFailedE}

(* Follow the matching entry up to the first failed edge.                  *)
Forward(o) ==
  /\ status = "walking" /\ v # Dst
  /\ o \in Matches
  /\ LET done == Followed(o.out, failedE) IN
       /\ v' = After(v, done)
       /\ rp' = Reverse(done) \o rp
       /\ hops' = hops \o done
  /\ UNCHANGED <<routes, failedE, src, status>>

Drop ==
  /\ status = "walking" /\ v # Dst
  /\ Matches = {}
  /\ status' = "dropped"
  /\ UNCHANGED <<routes, failedE, src, v, rp, hops>>

Arrive ==
  /\ status = "walking" /\ v = Dst
  /\ status' = "delivered"
  /\ UNCHANGED <<routes, failedE, src, v, rp, hops>>

Walk == Drop \/ Arrive \/ \E o \in fwdtable : Forward(o)

Next == BuildTables \/ Send \/ Walk

Spec == WalkInit /\ [][Next]_vars

(* One thread walks a flow to its end.                                     *)
FairSpec == Spec /\ WF_packet(Walk)

-----------------------------------------------------------------------------

(* The promise of the paper: tables of t rounds deliver whenever at most t *)
(* edges are down and leave the source connected to the destination.       *)
Resilient ==
  status = "dropped" /\ Cardinality(failedE) <= Rounds
    => ShortestPaths(src, E \ failedE) = {}

(* A lookup either delivers or finds a failed edge no lookup found before, *)
(* so every walk ends.                                                     *)
Terminates == status = "walking" ~> status \in {"delivered", "dropped"}

(* --dfr: "it ensures that a single route never uses the same port twice". *)
NoPortTwice ==
  args.dfr => Cardinality(Arcs(src, hops)) = Len(hops)
=============================================================================

--------------------------- MODULE FlowThroughput ---------------------------
(***************************************************************************)
(* compute_flow_throughputs of tree_throughput.py: the flows of one round  *)
(* share the ports on their paths.  The port that can give its flows least *)
(* is taken from the priority_dict, its flows get that rate, and the ports *)
(* they also cross are re-prioritised.  Done once for the paths of the     *)
(* tables and once for the shortest paths, on the same Port objects.       *)
(* Rates are integers, "a large number", as the comment of Port allows.    *)
(***************************************************************************)
EXTENDS Integers, FiniteSets, FiniteSetsExt

CONSTANTS
  Port, Flow,
  Paths,      \* the ways the flows of a round may cross the ports
  Cap,        \* Port.rate
  Absent      \* the priority of a port that is not in the queue

ASSUME FlowAssumption ==
  /\ IsFiniteSet(Port) /\ IsFiniteSet(Flow)
  /\ Paths \subseteq [Flow -> SUBSET Port]
  /\ Cap \in Nat \ {0}
  /\ Absent \notin Int

VARIABLES
  model,    \* path_model of the loop in main
  ports,    \* flow.ports, empty for a flow without a path
  flows,    \* port.flows: the flows on the port that have no rate yet
  used,     \* port.used
  rate,     \* flow.rate
  portpq    \* the priority_dict of ports

vars == <<model, ports, flows, used, rate, portpq>>

TypeOK ==
  /\ model \in {"fwdtable", "shortest"}
  /\ ports \in [Flow -> SUBSET Port]
  /\ flows \in [Port -> SUBSET Flow]
  /\ used \in [Port -> Nat]
  /\ rate \in [Flow -> Nat]
  /\ portpq \in [Port -> Nat \cup {Absent}]

(* What PriorityDict implements: Lowest(p) for the next pop_smallest.      *)
PQ == INSTANCE PriorityMap
        WITH Key <- Port, Priority <- Nat, map <- portpq,
             NoAnswer <- Absent, IndexError <- Absent, answer <- Absent

-----------------------------------------------------------------------------

(* Mutant: the capacity is shared anew, whatever was given away.           *)
FlowRate_Fresh(p, u, fs) == IF fs[p] = {} THEN 0 ELSE Cap \div Cardinality(fs[p])

(* Port.flow_rate                                                          *)
FlowRate(p, u, fs) ==
  IF fs[p] = {} THEN 0 ELSE (Cap - u[p]) \div Cardinality(fs[p])

(* init_ports: a flow is on every port of its path.                        *)
FlowsOn(routes) == [p \in Port |-> {f \in Flow : p \in routes[f]}]

Idle == [p \in Port |-> 0]

Init ==
  /\ model = "fwdtable"
  /\ ports \in Paths
  /\ flows = FlowsOn(ports)
  /\ used = Idle
  /\ rate = [f \in Flow |-> 0]
  /\ portpq = [p \in Port |-> FlowRate(p, used, flows)]

(* Mutant: smallest instead of pop_smallest.                               *)
Pop_Smallest(p) == PQ!Lowest(p) /\ flows[p] = {} /\ UNCHANGED vars

(* rate is 0: a port without flows left is only taken from the queue.      *)
Pop(p) ==
  /\ PQ!Lowest(p)
  /\ flows[p] = {}
  /\ portpq' = [portpq EXCEPT ![p] = Absent]
  /\ UNCHANGED <<model, ports, flows, used, rate>>

(* Mutant: the priorities of the other ports are left as they were.        *)
Requeued_Stale(p, touched) ==
  [q \in Port |-> IF q = p THEN Absent ELSE portpq[q]]

(* portpq[up] = up.flow_rate(), the popped port among them.                *)
Requeued(p, touched) ==
  [q \in Port |-> IF q \in touched THEN FlowRate(q, used', flows')
                  ELSE IF q = p THEN Absent ELSE portpq[q]]

(* fp.used += rate, for every flow of p and every port fp of that flow.    *)
Charged(p, r) ==
  [q \in Port |-> used[q] + r * Cardinality({f \in flows[p] : q \in ports[f]})]

(* Give the flows of p their rate.                                         *)
Assign(p) ==
  LET r == FlowRate(p, used, flows) IN
  /\ PQ!Lowest(p)
  /\ flows[p] # {}
  /\ rate' = [f \in Flow |-> IF f \in flows[p] THEN r ELSE rate[f]]
  /\ used' = Charged(p, r)
  /\ flows' = [q \in Port |-> flows[q] \ flows[p]]
  /\ portpq' = Requeued(p, UNION {ports[f] : f \in flows[p]})
  /\ UNCHANGED <<model, ports>>

(* Mutant: port.used survives the first path model.                        *)
NextModel_UsedStays ==
  /\ PQ!Present = {}
  /\ model = "fwdtable"
  /\ model' = "shortest"
  /\ ports' \in Paths
  /\ flows' = FlowsOn(ports')
  /\ rate' = [f \in Flow |-> 0]
  /\ portpq' = [p \in Port |-> FlowRate(p, used, flows')]
  /\ UNCHANGED used

(* reset_flows, the shortest paths, reset_ports, init_ports, and the queue.*)
NextModel ==
  /\ PQ!Present = {}
  /\ model = "fwdtable"
  /\ model' = "shortest"
  /\ ports' \in Paths
  /\ flows' = FlowsOn(ports')
  /\ used' = Idle
  /\ rate' = [f \in Flow |-> 0]
  /\ portpq' = [p \in Port |-> FlowRate(p, used', flows')]

Next == (\E p \in Port : Pop(p) \/ Assign(p)) \/ NextModel

Spec == Init /\ [][Next]_vars

FairSpec == Spec /\ WF_vars(Next)

-----------------------------------------------------------------------------

(* No port is ever given away more than once: "assert(fp.used <= 1.01)"    *)
(* inside the loop, in every order of equally loaded ports.                *)
CapacityKept == \A p \in Port : used[p] <= Cap

(* The account of a port is the sum of the rates of the flows that cross   *)
(* it, after any number of assignments and in both path models.            *)
UsedIsSum ==
  \A p \in Port : used[p] = MapThenSumSet(LAMBDA f : rate[f],
                                          {f \in Flow : p \in ports[f]})

(* Max-min fairness, the meaning of the whole computation: every flow that *)
(* has its rate crosses a full port on which no flow has a higher one, so  *)
(* its rate cannot be raised but at the cost of a flow that has no more.   *)
Rated(f) == ports[f] # {} /\ \A p \in ports[f] : f \notin flows[p]

Bottleneck(f, p) ==
  p \in ports[f] /\ \A g \in Flow : p \in ports[g] => Rated(g) /\ rate[g] <= rate[f]

MaxMinFair ==
  \A f \in Flow : Rated(f) => \E p \in Port : Bottleneck(f, p) /\ used[p] = Cap

(* Flows get their rates in rising order: what makes the first port popped *)
(* the bottleneck of its flows.                                            *)
RatesRise ==
  [][model' = model =>
       \A f, g \in Flow : rate'[f] # rate[f] => rate[g] <= rate'[f]]_vars

(* Both path models are evaluated: the queue runs empty although ports are *)
(* put back into it.                                                       *)
Evaluated == <>(model = "shortest" /\ PQ!Present = {})

-----------------------------------------------------------------------------
(* The inductive invariant.                                                *)

(* A flow is on all of its ports or, once it has a rate, on none.          *)
OnAllOrNone ==
  /\ \A p \in Port : \A f \in flows[p] : p \in ports[f]
  /\ \A f \in Flow : \A p, q \in ports[f] : f \in flows[p] => f \in flows[q]

(* No priority in the queue is stale, and no port is lost with flows on it.*)
QueueCurrent ==
  \A p \in Port :
    /\ portpq[p] # Absent => portpq[p] = FlowRate(p, used, flows)
    /\ portpq[p] = Absent => flows[p] = {}

(* What is left offers every unrated flow at least what any flow has.      *)
RatesBelow ==
  \A p \in Port, g \in Flow : flows[p] # {} => rate[g] <= FlowRate(p, used, flows)

(* A flow that has no rate yet is charged to no port.                      *)
UnratedAtZero == \A p \in Port : \A f \in flows[p] : rate[f] = 0

(* Max-min fairness with rates rounded down, for any capacity: a bottleneck*)
(* keeps less than one unit for each flow that crosses it.                 *)
NearlyFair ==
  \A f \in Flow : Rated(f) =>
    \E p \in Port :
      /\ Bottleneck(f, p)
      /\ Cap - used[p] < Cardinality({g \in Flow : p \in ports[g]})

Accounted == TypeOK /\ CapacityKept /\ OnAllOrNone /\ QueueCurrent /\ RatesBelow

IInv == Accounted /\ UnratedAtZero /\ NearlyFair

(* "A large number": the flows of a port share what is left without a rest.*)
DivisionsExact ==
  \A p \in Port : flows[p] # {} => (Cap - used[p]) % Cardinality(flows[p]) = 0
=============================================================================

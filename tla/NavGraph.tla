------------------------------ MODULE NavGraph ------------------------------
(***************************************************************************)
(* The navigation graph as the searches see it, and the cost model every   *)
(* search shares: which parallel edge a step takes, what a turn costs,     *)
(* what a fully specified path costs, and the lower bound that steers A*.  *)
(*                                                                         *)
(* A graph is its CSR rows: row u lists the edges out of u in stored       *)
(* order.  The constraints of a request are deterministic functions of the *)
(* edge, so an edge carries their verdict: whether it is allowed and the   *)
(* soft penalty it costs.  Distances are whole nautical miles.  A heading  *)
(* is a number of degrees, or kNoBearing.                                  *)
(***************************************************************************)
EXTENDS Integers, Sequences, FiniteSets

CONSTANTS
    Vertex,     \* the vertex indices
    Chord,      \* Chord[u][v]: the straight line from u to v, a metric
    BearingTo   \* BearingTo[u][v]: the heading from u to v

kNoVertex  == -1
kNoBearing == -1
kInfinity  == -1

ASSUME VertexAssumption == IsFiniteSet(Vertex) /\ Vertex = 0..(Cardinality(Vertex) - 1)

ASSUME ChordAssumption ==
    /\ Chord \in [Vertex -> [Vertex -> Nat]]
    /\ \A v \in Vertex : Chord[v][v] = 0
    /\ \A u, v, w \in Vertex : Chord[u][w] <= Chord[u][v] + Chord[v][w]

ASSUME BearingAssumption == BearingTo \in [Vertex -> [Vertex -> 0..359]]

Edge == [to : Vertex, distance_nm : Nat, allowed : BOOLEAN, extra_cost : Nat]

\* A great-circle arc is never shorter than its chord.
IsGraph(G) ==
    /\ G \in [Vertex -> Seq(Edge)]
    /\ \A u \in Vertex : \A i \in DOMAIN G[u] :
           Chord[u][G[u][i].to] <= G[u][i].distance_nm

(***************************************************************************)
(* Costs.  kInfinity is above every number, and adding to it changes       *)
(* nothing.                                                                *)
(***************************************************************************)
Below(a, b) == a # kInfinity /\ (b = kInfinity \/ a < b)
Plus(a, b)  == IF a = kInfinity \/ b = kInfinity THEN kInfinity ELSE a + b

\* The running total of F[1], ..., F[n].
Total(F, n) ==
    LET sum[i \in 0..n] == IF i = 0 THEN 0 ELSE sum[i - 1] + F[i]
    IN  sum[n]

(***************************************************************************)
(* Turns.                                                                  *)
(***************************************************************************)
TurnAngleDeg(inbound, outbound) ==
    LET delta == IF inbound < outbound THEN outbound - inbound ELSE inbound - outbound
    IN  IF delta > 180 THEN 360 - delta ELSE delta

\* Nothing up to 45 degrees, linear to 20 NM at 90, quadratic to 200 NM at 180.
TurnPenalty(angle) ==
    CASE angle <= 45                 -> 0
      [] angle > 45  /\ angle <= 90  -> (20 * (angle - 45)) \div 45
      [] angle > 90  /\ angle < 180  -> 20 + (180 * (angle - 90) * (angle - 90)) \div 8100
      [] angle >= 180                -> 200

\* Charged only when the penalty is on and both headings are known.
TurnCost(turn, inbound, outbound) ==
    IF turn /\ inbound >= 0 /\ outbound >= 0
      THEN TurnPenalty(TurnAngleDeg(inbound, outbound))
      ELSE 0

(***************************************************************************)
(* Parallel edges.                                                         *)
(***************************************************************************)
EdgeCost(e) == e.distance_nm + e.extra_cost

\* The positions of the allowed edges from u to v in u's row.
Usable(G, u, v) == {i \in DOMAIN G[u] : G[u][i].to = v /\ G[u][i].allowed}

\* The first of the cheapest allowed ones.
SelectEdge(G, u, v) ==
    G[u][CHOOSE i \in Usable(G, u, v) :
            \A j \in Usable(G, u, v) :
               \/ EdgeCost(G[u][i]) < EdgeCost(G[u][j])
               \/ EdgeCost(G[u][i]) = EdgeCost(G[u][j]) /\ i <= j]

(***************************************************************************)
(* Endpoints: connection fixes with the procedure distance already flown   *)
(* (or still to fly) and the procedure's heading there.  Vertices out of   *)
(* range are ignored; of several at one vertex the first cheapest counts.  *)
(***************************************************************************)
SeededEndpoint ==
    [vertex : Vertex \cup {kNoVertex}, cost : Nat, bearing : (0..359) \cup {kNoBearing}]

\* The endpoints without those at a vertex of V.
DropAt(endpoints, V) ==
    LET kept[n \in 0..Len(endpoints)] ==
            IF n = 0 THEN <<>>
            ELSE IF endpoints[n].vertex \in V THEN kept[n - 1]
                 ELSE Append(kept[n - 1], endpoints[n])
    IN  kept[Len(endpoints)]

AtVertex(endpoints, v) == {i \in DOMAIN endpoints : endpoints[i].vertex = v}

CheapestAt(endpoints, v) ==
    endpoints[CHOOSE i \in AtVertex(endpoints, v) :
                 \A j \in AtVertex(endpoints, v) :
                    \/ endpoints[i].cost < endpoints[j].cost
                    \/ endpoints[i].cost = endpoints[j].cost /\ i <= j]

BuildSeedTable(endpoints) ==
    [v \in Vertex |-> IF AtVertex(endpoints, v) = {} THEN -1
                                                    ELSE CheapestAt(endpoints, v).cost]

BuildBearingTable(endpoints) ==
    [v \in Vertex |-> IF AtVertex(endpoints, v) = {} THEN kNoBearing
                                                    ELSE CheapestAt(endpoints, v).bearing]

\* Least chord to a goal plus that goal's seed; infinite when there is none.
MultiGoalHeuristic(goals, v) ==
    LET inRange == {i \in DOMAIN goals : goals[i].vertex \in Vertex}
        via(i)  == Chord[v][goals[i].vertex] + goals[i].cost
    IN  IF inRange = {}
          THEN kInfinity
          ELSE via(CHOOSE i \in inRange : \A j \in inRange : via(i) <= via(j))

(***************************************************************************)
(* What a fully specified path costs.  A bans record holds the NodeFilter  *)
(* and EdgeFilter of a search: the barred vertices, the range of airports  *)
(* among them, and the barred steps.                                       *)
(***************************************************************************)
NodeBlocked(bans, v) == v \in bans.nodes
EdgeBlocked(bans, u, v) == <<u, v>> \in bans.edges

PathUsable(G, path, bans) ==
    Len(path) >= 2 =>
       /\ \A i \in DOMAIN path : ~NodeBlocked(bans, path[i])
       /\ \A i \in 1..(Len(path) - 1) :
             /\ ~EdgeBlocked(bans, path[i], path[i + 1])
             /\ Usable(G, path[i], path[i + 1]) # {}

\* The heading a path arrives at its i-th vertex with.
InboundAt(path, srcBearing, i) ==
    IF i = 1 THEN srcBearing ELSE BearingTo[path[i - 1]][path[i]]

\* The heading it leaves its i-th vertex with.
OutboundAt(path, goalBearing, i) ==
    IF i = Len(path) THEN goalBearing ELSE BearingTo[path[i]][path[i + 1]]

EnrouteDistance(G, path) ==
    LET legs == Len(path) - 1
        step == [i \in 1..legs |-> SelectEdge(G, path[i], path[i + 1]).distance_nm]
    IN  Total(step, legs)

CostOfPath(G, path, turn, srcBearing, goalBearing) ==
    LET legs   == Len(path) - 1
        step   == [i \in 1..legs |-> EdgeCost(SelectEdge(G, path[i], path[i + 1]))]
        turnAt == [i \in DOMAIN path |-> TurnCost(turn, InboundAt(path, srcBearing, i),
                                                        OutboundAt(path, goalBearing, i))]
    IN  Total(step, legs) + Total(turnAt, Len(path))

\* Whether the re-cost of a source..goal path succeeds, its cost and distance.
Recostable(G, path, sourceSeed, goalSeed, bans) ==
    /\ path # <<>>
    /\ sourceSeed[Head(path)] >= 0
    /\ goalSeed[path[Len(path)]] >= 0
    /\ PathUsable(G, path, bans)

CostOfPathMulti(G, path, sourceSeed, goalSeed, sourceBearing, goalBearing, turn) ==
    sourceSeed[Head(path)] + goalSeed[path[Len(path)]]
      + CostOfPath(G, path, turn, sourceBearing[Head(path)], goalBearing[path[Len(path)]])

DistanceOfPathMulti(G, path, sourceSeed, goalSeed) ==
    sourceSeed[Head(path)] + goalSeed[path[Len(path)]] + EnrouteDistance(G, path)

IsSimple(path) == \A i, j \in DOMAIN path : path[i] = path[j] => i = j
=============================================================================

------------------------------- MODULE AStar -------------------------------
(***************************************************************************)
(* FindShortestPathMulti: A* from a set of seeded sources to a set of      *)
(* seeded goals, on a workspace that its caller reuses from search to      *)
(* search.  Nothing of the workspace is cleared between searches: a slot   *)
(* counts only if its stamp is the current generation.                     *)
(*                                                                         *)
(* One action is one iteration of one of the function's loops: seeding a   *)
(* source, popping the open set, looking at one edge, walking one step     *)
(* back along the predecessors.  The heap breaks ties as it likes.         *)
(***************************************************************************)
EXTENDS NavGraph

CONSTANT Networks   \* the graphs to search

ASSUME NetworksAssumption == \A G \in Networks : IsGraph(G)

VARIABLES
    graph,          \* the graph
    call,           \* the arguments of the search
    pc,             \* "idle", "seed", "pop", "relax", "walk" or "done"
    g, geo, prev, inbound, stamp, closedStamp, generation,  \* SearchWorkspace
    open,           \* its heap
    cursor,         \* the loop's position: in the sources, or in u's row
    u,              \* the vertex being expanded, or walked back from
    bestTotal, bestGoal,
    result          \* what the search returns

wsVars == <<g, geo, prev, inbound, stamp, closedStamp, generation>>
astarVars == <<graph, call, pc, wsVars, open, cursor, u, bestTotal, bestGoal, result>>

NotFound == [found |-> FALSE, vertices |-> <<>>, cost |-> 0, distance_nm |-> 0]

\* The arguments of a search: the endpoints, the per-vertex tables, and the options.
Call(sources, goals, goalSeed, sourceBearing, goalBearing, turn, bans) ==
    [sources |-> sources, goals |-> goals, goalSeed |-> goalSeed,
     sourceBearing |-> sourceBearing, goalBearing |-> goalBearing,
     turn |-> turn, bans |-> bans]

\* The convenience overload derives every table from the endpoints.
PlainCall(sources, goals, turn, bans) ==
    Call(sources, goals, BuildSeedTable(goals), BuildBearingTable(sources),
         BuildBearingTable(goals), turn, bans)

(***************************************************************************)
(* The workspace.                                                          *)
(***************************************************************************)
Live(v)    == stamp[v] = generation
G(v)       == IF Live(v) THEN g[v] ELSE kInfinity
Geo(v)     == IF Live(v) THEN geo[v] ELSE 0
Prev(v)    == IF Live(v) THEN prev[v] ELSE kNoVertex
Inbound(v) == IF Live(v) THEN inbound[v] ELSE kNoBearing
Closed(v)  == closedStamp[v] = generation

Relax(v, cost, dist, from, heading) ==
    /\ g' = [g EXCEPT ![v] = cost]
    /\ geo' = [geo EXCEPT ![v] = dist]
    /\ prev' = [prev EXCEPT ![v] = from]
    /\ inbound' = [inbound EXCEPT ![v] = heading]
    /\ stamp' = [stamp EXCEPT ![v] = generation]
    /\ UNCHANGED <<closedStamp, generation>>

MarkClosed(v) ==
    /\ closedStamp' = [closedStamp EXCEPT ![v] = generation]
    /\ UNCHANGED <<g, geo, prev, inbound, stamp, generation>>

\* Mutant: only the first goal is looked at.
HeuristicFirstGoal(v) == MultiGoalHeuristic(SubSeq(call.goals, 1, 1), v)

Heuristic(v) == MultiGoalHeuristic(call.goals, v)

Push(v, cost) == open' = open \cup {[f |-> Plus(cost, Heuristic(v)), vertex |-> v]}

(***************************************************************************)
(* A fresh workspace, before any search.                                   *)
(***************************************************************************)
NoBans == [nodes |-> {}, edges |-> {}]

NoCall == PlainCall(<<>>, <<>>, FALSE, NoBans)

Blank == [v \in Vertex |-> 0]

AStarInit ==
    /\ graph \in Networks
    /\ call = NoCall
    /\ pc = "idle"
    /\ g = Blank /\ geo = Blank /\ prev = Blank /\ inbound = Blank
    /\ stamp = Blank /\ closedStamp = Blank
    /\ generation = 0
    /\ open = {}
    /\ cursor = 1
    /\ u = kNoVertex
    /\ bestTotal = kInfinity
    /\ bestGoal = kNoVertex
    /\ result = NotFound

\* A caller that keeps no workspace, or a new one: the arrays are sized anew.
FreshWorkspace ==
    /\ g' = Blank /\ geo' = Blank /\ prev' = Blank /\ inbound' = Blank
    /\ stamp' = Blank /\ closedStamp' = Blank
    /\ generation' = 0
    /\ open' = {}
    /\ pc' = "idle"
    /\ call' = NoCall
    /\ cursor' = 1
    /\ u' = kNoVertex
    /\ bestTotal' = kInfinity
    /\ bestGoal' = kNoVertex
    /\ result' = NotFound
    /\ UNCHANGED graph

(***************************************************************************)
(* Entry.  Without sources the search returns before it touches the        *)
(* workspace; otherwise it starts a new generation.                        *)
(***************************************************************************)
\* Mutant: NextGeneration is not called.
BeginSameGeneration(c) ==
    /\ pc \in {"idle", "done"}
    /\ call' = c
    /\ result' = NotFound
    /\ bestTotal' = kInfinity
    /\ bestGoal' = kNoVertex
    /\ IF c.sources = <<>>
         THEN pc' = "done" /\ UNCHANGED <<open, cursor>>
         ELSE pc' = "seed" /\ open' = {} /\ cursor' = 1
    /\ UNCHANGED <<graph, g, geo, prev, inbound, stamp, closedStamp, generation, u>>

Begin(c) ==
    /\ pc \in {"idle", "done"}
    /\ call' = c
    /\ result' = NotFound
    /\ bestTotal' = kInfinity
    /\ bestGoal' = kNoVertex
    /\ IF c.sources = <<>>
         THEN pc' = "done" /\ UNCHANGED <<generation, open, cursor>>
         ELSE pc' = "seed" /\ generation' = generation + 1 /\ open' = {} /\ cursor' = 1
    /\ UNCHANGED <<graph, g, geo, prev, inbound, stamp, closedStamp, u>>

Seedable(s) ==
    /\ s.vertex \in Vertex
    /\ ~NodeBlocked(call.bans, s.vertex)
    /\ Below(s.cost, G(s.vertex))

SeedSource ==
    /\ pc = "seed"
    /\ cursor <= Len(call.sources)
    /\ LET s == call.sources[cursor]
       IN  \/ /\ Seedable(s)
              /\ Relax(s.vertex, s.cost, s.cost, kNoVertex, call.sourceBearing[s.vertex])
              /\ Push(s.vertex, s.cost)
           \/ /\ ~Seedable(s)
              /\ UNCHANGED <<wsVars, open>>
    /\ cursor' = cursor + 1
    /\ UNCHANGED <<graph, call, pc, u, bestTotal, bestGoal, result>>

SeedsDone ==
    /\ pc = "seed"
    /\ cursor > Len(call.sources)
    /\ pc' = "pop"
    /\ UNCHANGED <<graph, call, wsVars, open, cursor, u, bestTotal, bestGoal, result>>

(***************************************************************************)
(* The main loop.  Any of the entries with the least f may be popped.      *)
(***************************************************************************)
Tops == {top \in open : \A other \in open : ~Below(other.f, top.f)}

PopStale ==
    /\ pc = "pop"
    /\ \E top \in Tops :
          /\ Closed(top.vertex)
          /\ open' = open \ {top}
    /\ UNCHANGED <<graph, call, pc, wsVars, cursor, u, bestTotal, bestGoal, result>>

\* What finishing at v costs in all.
TotalAt(v) ==
    Plus(G(v), call.goalSeed[v] + TurnCost(call.turn, Inbound(v), call.goalBearing[v]))

Expand ==
    /\ pc = "pop"
    /\ \E top \in Tops :
          /\ ~Closed(top.vertex)
          /\ Below(top.f, bestTotal)
          /\ open' = open \ {top}
          /\ u' = top.vertex
          /\ MarkClosed(top.vertex)
          /\ IF call.goalSeed[top.vertex] >= 0 /\ Below(TotalAt(top.vertex), bestTotal)
               THEN bestTotal' = TotalAt(top.vertex) /\ bestGoal' = top.vertex
               ELSE UNCHANGED <<bestTotal, bestGoal>>
    /\ cursor' = 1
    /\ pc' = "relax"
    /\ UNCHANGED <<graph, call, result>>

\* The loop ends when the open set is empty, or cannot beat the best total.
Settle ==
    /\ pc = "pop"
    /\ \/ open = {} /\ UNCHANGED open
       \/ \E top \in Tops : /\ ~Closed(top.vertex)
                            /\ ~Below(top.f, bestTotal)
                            /\ open' = open \ {top}
    /\ u' = bestGoal
    /\ pc' = IF bestGoal = kNoVertex THEN "done" ELSE "walk"
    /\ UNCHANGED <<graph, call, wsVars, cursor, bestTotal, bestGoal, result>>

(***************************************************************************)
(* One edge out of u.                                                      *)
(***************************************************************************)
Passable(e) ==
    /\ ~Closed(e.to)
    /\ ~NodeBlocked(call.bans, e.to)
    /\ ~EdgeBlocked(call.bans, u, e.to)
    /\ e.allowed

\* The heading of the edge, which becomes its head's inbound heading.
Outbound(e) == IF call.turn THEN BearingTo[u][e.to] ELSE kNoBearing

Tentative(e) == Plus(G(u), EdgeCost(e) + TurnCost(call.turn, Inbound(u), Outbound(e)))

Improves(e) == Passable(e) /\ Below(Tentative(e), G(e.to))

RelaxEdge ==
    /\ pc = "relax"
    /\ cursor <= Len(graph[u])
    /\ LET e == graph[u][cursor]
       IN  \/ /\ Improves(e)
              /\ Relax(e.to, Tentative(e), Geo(u) + e.distance_nm, u, Outbound(e))
              /\ Push(e.to, Tentative(e))
           \/ /\ ~Improves(e)
              /\ UNCHANGED <<wsVars, open>>
    /\ cursor' = cursor + 1
    /\ UNCHANGED <<graph, call, pc, u, bestTotal, bestGoal, result>>

RowDone ==
    /\ pc = "relax"
    /\ cursor > Len(graph[u])
    /\ pc' = "pop"
    /\ UNCHANGED <<graph, call, wsVars, open, cursor, u, bestTotal, bestGoal, result>>

(***************************************************************************)
(* The answer: the predecessors back to a source, then the totals.         *)
(***************************************************************************)
WalkBack ==
    /\ pc = "walk"
    /\ u # kNoVertex
    /\ result' = [result EXCEPT !.vertices = <<u>> \o @]
    /\ u' = Prev(u)
    /\ UNCHANGED <<graph, call, pc, wsVars, open, cursor, bestTotal, bestGoal>>

Report ==
    /\ pc = "walk"
    /\ u = kNoVertex
    /\ result' = [found |-> TRUE, vertices |-> result.vertices, cost |-> bestTotal,
                  distance_nm |-> Geo(bestGoal) + call.goalSeed[bestGoal]]
    /\ pc' = "done"
    /\ UNCHANGED <<graph, call, wsVars, open, cursor, u, bestTotal, bestGoal>>

SearchStep ==
    \/ SeedSource \/ SeedsDone
    \/ PopStale \/ Expand \/ Settle
    \/ RelaxEdge \/ RowDone
    \/ WalkBack \/ Report

(***************************************************************************)
(* Reference: every way to fly the call, by brute force.                   *)
(***************************************************************************)
\* The simple paths that a search with the arguments c may return: those from a
\* source, grown a usable step at a time, that end at a goal.
Routes(gr, c) ==
    LET seed      == BuildSeedTable(c.sources)
        Starts    == {<<v>> : v \in {w \in Vertex : seed[w] >= 0 /\ ~NodeBlocked(c.bans, w)}}
        Onward(p) == {v \in Vertex : PathUsable(gr, Append(p, v), c.bans)}
        Longer(P) == {q \in UNION {{Append(p, v) : v \in Onward(p)} : p \in P} : IsSimple(q)}
        Upto[n \in 0..Cardinality(Vertex)] ==
            IF n = 0 THEN {} ELSE Starts \cup Longer(Upto[n - 1])
    IN  {p \in Upto[Cardinality(Vertex)] : c.goalSeed[p[Len(p)]] >= 0}

RouteCost(gr, c, p) ==
    CostOfPathMulti(gr, p, BuildSeedTable(c.sources), c.goalSeed,
                    c.sourceBearing, c.goalBearing, c.turn)

(***************************************************************************)
(* Properties.                                                             *)
(***************************************************************************)

\* Types: the workspace holds costs, predecessors and headings of vertices, and
\* the loop variables stay within the arrays they index.
AStarTypeOK ==
    /\ pc \in {"idle", "seed", "pop", "relax", "walk", "done"}
    /\ g \in [Vertex -> Nat] /\ geo \in [Vertex -> Nat]
    /\ prev \in [Vertex -> Vertex \cup {kNoVertex}]
    /\ inbound \in [Vertex -> (0..359) \cup {kNoBearing}]
    /\ stamp \in [Vertex -> 0..generation] /\ closedStamp \in [Vertex -> 0..generation]
    /\ generation \in Nat
    /\ \A o \in open : o.f \in Nat \cup {kInfinity} /\ o.vertex \in Vertex
    /\ cursor \in Nat \ {0}
    /\ u \in Vertex \cup {kNoVertex}
    /\ pc = "relax" => u \in Vertex
    /\ bestTotal \in Nat \cup {kInfinity}
    /\ bestGoal \in Vertex \cup {kNoVertex}

\* A search finds a path exactly when one exists under its constraints and bans,
\* with the turn penalty on or off (astar.cc: the loop ends early only once a goal
\* is reached), whatever earlier searches left in the workspace.  The answer is then
\* a loopless usable path whose reported cost and distance are those that re-costing
\* it edge by edge and turn by turn gives: the search and Yen's CostOfPathMulti rank
\* paths by the same numbers.
AnswerIsTrue ==
    pc = "done" =>
       /\ result.found <=> Routes(graph, call) # {}
       /\ result.found =>
             /\ result.vertices \in Routes(graph, call)
             /\ result.cost = RouteCost(graph, call, result.vertices)
             /\ result.distance_nm = DistanceOfPathMulti(graph, result.vertices,
                                          BuildSeedTable(call.sources), call.goalSeed)

\* With the turn penalty off the answer is the cheapest path: closing vertices once
\* and stopping at the first f that cannot win lose nothing (astar.h: "the result is
\* optimal under the effective (penalized) cost").
ShortestFound ==
    (pc = "done" /\ result.found /\ ~call.turn) =>
       \A p \in Routes(graph, call) : result.cost <= RouteCost(graph, call, p)
=============================================================================

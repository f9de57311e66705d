-------------------------------- MODULE Yen --------------------------------
(***************************************************************************)
(* FindKShortestPathsMulti: Yen's k shortest loopless paths with Lawler's  *)
(* rule, between several sources and several goals.  Every search is a run *)
(* of AStar, one action at a time, on the one workspace they all share.    *)
(*                                                                         *)
(* Spur positions are counted from 1 here and from 0 in the code; position *)
(* 0 is the super-source (-1 in the code), from which each accepted path   *)
(* leaves by its first fix.  Ending at a goal is a step into a super-sink. *)
(***************************************************************************)
EXTENDS AStar

VARIABLES
    phase,                \* "idle", "first", "round", "spur" or "return"
    request,
    results,              \* the accepted paths, in order
    candidates,           \* the candidate set B
    spur,                 \* the spur position; a round starts at the last path's deviation
    spur_source_bearing, spur_bearing_vertex, spur_goal_seed  \* tables kept from spur to spur

yenVars == <<phase, request, results, candidates, spur,
             spur_source_bearing, spur_bearing_vertex, spur_goal_seed>>
searchVars == <<astarVars, yenVars>>

source_seed    == BuildSeedTable(request.sources)
goal_seed      == BuildSeedTable(request.goals)
source_bearing == BuildBearingTable(request.sources)
goal_bearing   == BuildBearingTable(request.goals)
goal_count     == Cardinality({v \in Vertex : goal_seed[v] >= 0})

NoRequest == [sources |-> <<>>, goals |-> <<>>, k |-> 0, turn |-> FALSE,
              bans |-> NoBans]

YenInit ==
    /\ AStarInit
    /\ request = NoRequest
    /\ phase = "idle"
    /\ results = <<>>
    /\ candidates = {}
    /\ spur = 0
    /\ spur_source_bearing = [v \in Vertex |-> kNoBearing]
    /\ spur_bearing_vertex = kNoVertex
    /\ spur_goal_seed = BuildSeedTable(<<>>)

(***************************************************************************)
(* The call: new tables, a new workspace, an empty candidate set.          *)
(***************************************************************************)
FindKShortestPathsMulti(r) ==
    /\ phase \in {"idle", "return"}
    /\ request' = r
    /\ phase' = IF r.k <= 0 \/ r.sources = <<>> \/ r.goals = <<>> THEN "return" ELSE "first"
    /\ results' = <<>>
    /\ candidates' = {}
    /\ spur' = 0
    /\ spur_source_bearing' = [v \in Vertex |-> kNoBearing]
    /\ spur_bearing_vertex' = kNoVertex
    /\ spur_goal_seed' = BuildSeedTable(r.goals)
    /\ FreshWorkspace

(***************************************************************************)
(* The first path is a plain search.                                       *)
(***************************************************************************)
FirstSearch ==
    /\ phase = "first"
    /\ pc = "idle"
    /\ Begin(Call(request.sources, request.goals, goal_seed, source_bearing, goal_bearing,
                  request.turn, request.bans))
    /\ UNCHANGED yenVars

Path(r) == [vertices |-> r.vertices, cost |-> r.cost, distance_nm |-> r.distance_nm]

FirstDone ==
    /\ phase = "first"
    /\ pc = "done"
    /\ IF result.found
         THEN /\ results' = <<Path(result)>>
              /\ phase' = IF request.k = 1 THEN "return" ELSE "round"
         ELSE /\ phase' = "return"
              /\ UNCHANGED results
    /\ UNCHANGED <<astarVars, request, candidates, spur,
                   spur_source_bearing, spur_bearing_vertex, spur_goal_seed>>

(***************************************************************************)
(* One spur of a round.                                                    *)
(***************************************************************************)
PrevPath == results[Len(results)].vertices

\* Mutant: a skipped spur position is tried again.
SkipStays ==
    /\ spur' = spur
    /\ UNCHANGED <<astarVars, phase, request, results, candidates,
                   spur_source_bearing, spur_bearing_vertex, spur_goal_seed>>

Skip ==
    /\ spur' = spur + 1
    /\ UNCHANGED <<astarVars, phase, request, results, candidates,
                   spur_source_bearing, spur_bearing_vertex, spur_goal_seed>>

\* At the super-source: bar the first fix of every accepted path.
SpurSources ==
    DropAt(request.sources, {Head(results[i].vertices) : i \in DOMAIN results})

SourceSpur ==
    /\ phase = "round"
    /\ spur = 0
    /\ \/ SpurSources = <<>> /\ Skip
       \/ /\ SpurSources # <<>>
          /\ Begin(Call(SpurSources, request.goals, goal_seed, source_bearing, goal_bearing,
                        request.turn, request.bans))
          /\ phase' = "spur"
          /\ UNCHANGED <<request, results, candidates, spur,
                         spur_source_bearing, spur_bearing_vertex, spur_goal_seed>>

Root == SubSeq(PrevPath, 1, spur)

\* The accepted paths that begin with the root.
SharingRoot ==
    {i \in DOMAIN results : /\ Len(results[i].vertices) >= spur
                            /\ SubSeq(results[i].vertices, 1, spur) = Root}

\* Some accepted path is the root: its step into the super-sink is barred.
EndsAtSpur == \E i \in SharingRoot : Len(results[i].vertices) = spur

\* Mutant: only the last accepted path's step is barred.
SpurBansLastOnly ==
    [nodes |-> request.bans.nodes \cup {Root[i] : i \in 1..(spur - 1)},
     edges |-> request.bans.edges \cup
                  (IF Len(PrevPath) > spur THEN {<<PrevPath[spur], PrevPath[spur + 1]>>} ELSE {})]

SpurBans ==
    [nodes |-> request.bans.nodes \cup {Root[i] : i \in 1..(spur - 1)},
     edges |-> request.bans.edges \cup
                  {<<results[i].vertices[spur], results[i].vertices[spur + 1]>> :
                       i \in {j \in SharingRoot : Len(results[j].vertices) > spur}}]

InboundAtSpur ==
    IF spur = 1 THEN source_bearing[PrevPath[1]]
                ELSE BearingTo[PrevPath[spur - 1]][PrevPath[spur]]

\* With its own goal barred the spur node needs another goal to reach.
Hopeless == EndsAtSpur /\ goal_seed[PrevPath[spur]] >= 0 /\ goal_count < 2

NodeSpur ==
    /\ phase = "round"
    /\ spur \in 1..Len(PrevPath)
    /\ \/ Hopeless /\ Skip
       \/ /\ ~Hopeless
          /\ LET node    == PrevPath[spur]
                 cleared == [v \in Vertex |-> IF v = spur_bearing_vertex
                                                THEN kNoBearing ELSE spur_source_bearing[v]]
                 bearing == [cleared EXCEPT ![node] = InboundAtSpur]
                 goal    == IF EndsAtSpur THEN [spur_goal_seed EXCEPT ![node] = -1]
                                          ELSE spur_goal_seed
             IN  /\ Begin(Call(<<[vertex |-> node, cost |-> 0, bearing |-> kNoBearing]>>,
                               request.goals, goal, bearing, goal_bearing,
                               request.turn, SpurBans))
                 /\ spur_source_bearing' = bearing
                 /\ spur_bearing_vertex' = node
                 /\ spur_goal_seed' = goal
          /\ phase' = "spur"
          /\ UNCHANGED <<request, results, candidates, spur>>

\* The whole path: the root up to the spur node, then what the search found.
Stitched == (IF spur = 0 THEN <<>> ELSE SubSeq(PrevPath, 1, spur - 1)) \o result.vertices

CandidateOf(path) ==
    [cost |-> CostOfPathMulti(graph, path, source_seed, goal_seed, source_bearing,
                              goal_bearing, request.turn),
     distance_nm |-> DistanceOfPathMulti(graph, path, source_seed, goal_seed),
     vertices |-> path, deviation |-> spur]

\* B holds one candidate per cost and path: the one inserted first stays.
Known(c) == \E d \in candidates : d.cost = c.cost /\ d.vertices = c.vertices

AddCandidate ==
    IF /\ result.found
       /\ Recostable(graph, Stitched, source_seed, goal_seed, request.bans)
       /\ ~Known(CandidateOf(Stitched))
      THEN candidates \cup {CandidateOf(Stitched)}
      ELSE candidates

RestoreGoal ==
    [v \in Vertex |-> IF spur > 0 /\ v = PrevPath[spur] THEN goal_seed[v]
                                                        ELSE spur_goal_seed[v]]

SpurDone ==
    /\ phase = "spur"
    /\ pc = "done"
    /\ candidates' = AddCandidate
    /\ spur_goal_seed' = RestoreGoal
    /\ spur' = spur + 1
    /\ phase' = "round"
    /\ UNCHANGED <<astarVars, request, results,
                   spur_source_bearing, spur_bearing_vertex>>

(***************************************************************************)
(* The end of a round: accept the cheapest candidate.                      *)
(***************************************************************************)
LexBefore(p, q) ==
    \E n \in 0..Len(p) :
       /\ \A i \in 1..n : i <= Len(q) /\ p[i] = q[i]
       /\ n < Len(q)
       /\ n = Len(p) \/ p[n + 1] < q[n + 1]

Before(c, d) == c.cost < d.cost \/ (c.cost = d.cost /\ LexBefore(c.vertices, d.vertices))

Cheapest == CHOOSE c \in candidates : \A d \in candidates \ {c} : Before(c, d)

\* Mutant: the next round starts after the deviation.
AcceptPastDeviation ==
    /\ phase = "round"
    /\ spur > Len(PrevPath)
    /\ IF candidates = {}
         THEN /\ phase' = "return"
              /\ UNCHANGED <<results, candidates, spur>>
         ELSE /\ results' = Append(results, Path(Cheapest))
              /\ candidates' = candidates \ {Cheapest}
                        /\ spur' = Cheapest.deviation + 1
              /\ phase' = IF Len(results) + 1 = request.k THEN "return" ELSE "round"
    /\ UNCHANGED <<astarVars, request, spur_source_bearing, spur_bearing_vertex, spur_goal_seed>>

Accept ==
    /\ phase = "round"
    /\ spur > Len(PrevPath)
    /\ IF candidates = {}
         THEN /\ phase' = "return"
              /\ UNCHANGED <<results, candidates, spur>>
         ELSE /\ results' = Append(results, Path(Cheapest))
              /\ candidates' = candidates \ {Cheapest}
                        /\ spur' = Cheapest.deviation
              /\ phase' = IF Len(results) + 1 = request.k THEN "return" ELSE "round"
    /\ UNCHANGED <<astarVars, request, spur_source_bearing, spur_bearing_vertex, spur_goal_seed>>

Search == phase \in {"first", "spur"} /\ SearchStep /\ UNCHANGED yenVars

YenStep == FirstSearch \/ FirstDone \/ SourceSpur \/ NodeSpur \/ SpurDone \/ Accept \/ Search

(***************************************************************************)
(* Properties.                                                             *)
(***************************************************************************)

Question == Call(request.sources, request.goals, goal_seed, source_bearing, goal_bearing,
                 request.turn, request.bans)

Answer == {results[i].vertices : i \in DOMAIN results}

\* Types, and the bookkeeping that later spurs rely on: the goal table is the
\* request's outside a spur search, and a position names a vertex of the last path.
YenTypeOK ==
    /\ phase \in {"idle", "first", "round", "spur", "return"}
    /\ Len(results) <= IF request.k > 0 THEN request.k ELSE 0
    /\ \A c \in candidates : c.cost \in Nat /\ c.distance_nm \in Nat /\ c.vertices # <<>>
    /\ spur \in 0..(Cardinality(Vertex) + 1)
    /\ spur_bearing_vertex \in Vertex \cup {kNoVertex}
    /\ phase # "spur" => spur_goal_seed = goal_seed

\* Every path returned is a loopless route of the request with its true cost and
\* distance, and no path is returned twice, with the turn penalty on or off.
DistinctTrueRoutes ==
    /\ phase \in {"round", "return"} => \A i \in DOMAIN results :
          /\ results[i].vertices \in Routes(graph, Question)
          /\ results[i].cost = RouteCost(graph, Question, results[i].vertices)
          /\ results[i].distance_nm =
                DistanceOfPathMulti(graph, results[i].vertices, source_seed, goal_seed)
    /\ \A i, j \in DOMAIN results : results[i].vertices = results[j].vertices => i = j

\* With the turn penalty off the accepted paths are at every moment the cheapest
\* there are, and fewer than k come back only when there are no more
\* (yen_kshortest.h: "With turn_penalty disabled this is classical K-shortest"):
\* Lawler's rule, the super-source and the super-sink skip none.
KCheapest ==
    (~request.turn /\ phase \in {"round", "return"} /\ results # <<>>) =>
       \A p \in Routes(graph, Question) \ Answer :
          /\ \A i \in DOMAIN results : results[i].cost <= RouteCost(graph, Question, p)
          /\ phase = "return" => Len(results) = request.k
=============================================================================

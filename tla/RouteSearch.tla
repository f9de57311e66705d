---------------------------- MODULE RouteSearch ----------------------------
(***************************************************************************)
(* NavDatabase::FindRoutes over the searches: what it refuses, which       *)
(* search it runs, and how an avoided waypoint is kept out of every route  *)
(* (by the constraint on edges, by dropping connection fixes, and by       *)
(* refusing it as a via point).  The search entry points can also be       *)
(* called directly, as the library's clients and tests do, with any        *)
(* options; FindRoutes always has the turn penalty on.                     *)
(***************************************************************************)
EXTENDS ForcedRouter

\* A question: how it is asked (api "FindRoutes" or "library"), the endpoints the
\* planner found, the resolved via points and avoided vertices, and the error, if
\* any, that assembling the constraints or planning either endpoint ends in.
CONSTANTS
    Questions,
    kMaxForcedPoints

ASSUME ForcedPointsAssumption == kMaxForcedPoints \in Nat

ASSUME QuestionsAssumption ==
    \A q \in Questions :
       /\ q.sources \in Seq(SeededEndpoint) /\ q.goals \in Seq(SeededEndpoint)
       /\ q.forced \in Seq(Vertex \cup {kNoVertex})
       /\ q.k \in Int
       /\ q.turn \in BOOLEAN
       /\ q.avoid \subseteq Vertex
       /\ q.bans \in [nodes : SUBSET Vertex, edges : SUBSET (Vertex \X Vertex)]
       /\ \A part \in {"constraints", "departure", "arrival"} : q.refused[part] # "kNoRoute"

VARIABLES
    step,      \* "call", "run", "astar", "yen", "forced" or "done"
    asked,     \* the question
    outcome,   \* "pending", "ok" or an error code
    answer     \* the paths handed to the route assembler

topVars == <<step, asked, outcome, answer>>
vars == <<searchVars, forcedVars, topVars>>

Init ==
    /\ ForcedInit
    /\ asked \in Questions
    /\ step = "call"
    /\ outcome = "pending"
    /\ answer = <<>>

(***************************************************************************)
(* Before the search.                                                      *)
(***************************************************************************)
\* AvoidWaypointConstraint: no edge enters an avoided vertex.
Avoiding(rows, avoid) ==
    [v \in Vertex |-> [i \in DOMAIN rows[v] |->
        [rows[v][i] EXCEPT !.allowed = @ /\ rows[v][i].to \notin avoid]]]

\* Mutant: one avoided connection fix drops them all.
KeptAllOrNone(endpoints) ==
    IF \E i \in DOMAIN endpoints : endpoints[i].vertex \in asked.avoid THEN <<>> ELSE endpoints

\* Connection fixes to be avoided are dropped.
Kept(endpoints) == DropAt(endpoints, asked.avoid)

HasOutbound(v) == graph[v] # <<>>
HasInbound(v)  == \E w \in Vertex : \E i \in DOMAIN graph[w] : graph[w][i].to = v

\* The checks on via point i, in order.
ViaChecks(i) ==
    LET v == asked.forced[i]
    IN  <<[bad |-> v = kNoVertex, code |-> "kRouteParseError"],
          [bad |-> v \in asked.avoid, code |-> "kRouteParseError"],
          [bad |-> v # kNoVertex /\ (~HasInbound(v) \/ ~HasOutbound(v)), code |-> "kNoRoute"],
          [bad |-> \E j \in 1..(i - 1) : asked.forced[j] = v, code |-> "kRouteParseError"]>>

\* All the checks of FindRoutes, in order.
Checks ==
    <<[bad |-> asked.refused.constraints # "none", code |-> asked.refused.constraints],
      [bad |-> asked.refused.departure # "none", code |-> asked.refused.departure],
      [bad |-> asked.sources = <<>>, code |-> "kAirportNotFound"],
      [bad |-> asked.refused.arrival # "none", code |-> asked.refused.arrival],
      [bad |-> asked.goals = <<>>, code |-> "kAirportNotFound"],
      [bad |-> asked.avoid # {} /\ (Kept(asked.sources) = <<>> \/ Kept(asked.goals) = <<>>),
       code |-> "kNoRoute"],
      [bad |-> Len(asked.forced) > kMaxForcedPoints, code |-> "kRouteParseError"]>>
      \o FlattenSeq([i \in DOMAIN asked.forced |-> ViaChecks(i)])

Failed == {i \in DOMAIN Checks : Checks[i].bad}

Refuse ==
    /\ step = "call"
    /\ asked.api = "FindRoutes"
    /\ Failed # {}
    /\ outcome' = Checks[Min(Failed)].code
    /\ step' = "done"
    /\ UNCHANGED <<searchVars, forcedVars, asked, answer>>

Admit ==
    /\ step = "call"
    /\ asked.api = "FindRoutes" => Failed = {}
    /\ graph' = Avoiding(graph, asked.avoid)
    /\ step' = "run"
    /\ UNCHANGED <<call, pc, wsVars, open, cursor, u, bestTotal, bestGoal, result>>
    /\ UNCHANGED <<yenVars, forcedVars, asked, outcome, answer>>

(***************************************************************************)
(* The search: via points, one path, or several.                           *)
(***************************************************************************)
Sources == IF asked.api = "FindRoutes" THEN Kept(asked.sources) ELSE asked.sources
Goals   == IF asked.api = "FindRoutes" THEN Kept(asked.goals) ELSE asked.goals
Count   == IF asked.api = "FindRoutes" /\ asked.k < 1 THEN 1 ELSE asked.k

RunForced ==
    /\ step = "run"
    /\ asked.forced # <<>>
    /\ FindPaths([sources |-> Sources, goals |-> Goals, forced |-> asked.forced, k |-> Count,
                  turn |-> asked.turn, bans |-> asked.bans])
    /\ step' = "forced"
    /\ UNCHANGED <<asked, outcome, answer>>

RunOne ==
    /\ step = "run"
    /\ asked.forced = <<>>
    /\ Count = 1
    /\ Begin(PlainCall(Sources, Goals, asked.turn, asked.bans))
    /\ step' = "astar"
    /\ UNCHANGED <<yenVars, forcedVars, asked, outcome, answer>>

RunSeveral ==
    /\ step = "run"
    /\ asked.forced = <<>>
    /\ Count # 1
    /\ FindKShortestPathsMulti([sources |-> Sources, goals |-> Goals, k |-> Count,
                                turn |-> asked.turn, bans |-> asked.bans])
    /\ step' = "yen"
    /\ UNCHANGED <<forcedVars, asked, outcome, answer>>

Work ==
    \/ /\ step = "forced"
       /\ ForcedStep
       /\ UNCHANGED topVars
    \/ /\ step = "astar"
       /\ SearchStep
       /\ UNCHANGED <<yenVars, forcedVars, topVars>>
    \/ /\ step = "yen"
       /\ YenStep
       /\ UNCHANGED <<forcedVars, topVars>>

Done ==
    \/ step = "forced" /\ stage = "return"
    \/ step = "astar" /\ pc = "done"
    \/ step = "yen" /\ phase = "return"

Found ==
    CASE step = "forced" -> routes
      [] step = "yen"    -> results
      [] step = "astar"  -> IF result.found THEN <<Path(result)>> ELSE <<>>

Return ==
    /\ step \in {"forced", "astar", "yen"}
    /\ Done
    /\ answer' = Found
    /\ outcome' = IF Found = <<>> THEN "kNoRoute" ELSE "ok"
    /\ step' = "done"
    /\ UNCHANGED <<searchVars, forcedVars, asked>>

Finished == step = "done" /\ UNCHANGED vars

Progress == Refuse \/ Admit \/ RunForced \/ RunOne \/ RunSeveral \/ Work \/ Return

Next == Progress \/ Finished

Spec == Init /\ [][Next]_vars /\ WF_vars(Progress)

(***************************************************************************)
(* Properties.                                                             *)
(***************************************************************************)

\* Types of the searches and of the question's progress.
TypeOK ==
    /\ AStarTypeOK
    /\ YenTypeOK
    /\ ForcedTypeOK
    /\ step \in {"call", "run", "astar", "yen", "forced", "done"}
    /\ asked \in Questions
    /\ outcome \in {"pending", "ok", "kNoRoute", "kRouteParseError", "kAirportNotFound",
                    "kProcedureNotFound"}

\* A request without via points is told there is no route only when every route of
\* the network between its connection fixes passes an avoided waypoint: dropping
\* fixes and barring edges rules out nothing else.
NoRouteIsTrue ==
    (outcome = "kNoRoute" /\ asked.forced = <<>> /\ Count > 0) =>
       Routes(graph, PlainCall(asked.sources, asked.goals, asked.turn,
                               [asked.bans EXCEPT !.nodes = @ \cup asked.avoid])) = {}

\* Every question is answered: A*, Yen and the via merge all end.
EveryQuestionAnswered == <>(step = "done")
=============================================================================

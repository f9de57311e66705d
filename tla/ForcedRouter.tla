---------------------------- MODULE ForcedRouter ----------------------------
(***************************************************************************)
(* ForcedRouter::FindPaths: up to k routes through an ordered list of via  *)
(* points.  Each hop's alternatives are a run of Yen; the combinations are *)
(* enumerated best first, by the sum of the hop costs, and re-costed as    *)
(* whole routes so that the turns at the via points count.  If no          *)
(* combination is a simple route, one is built hop by hop with A*.         *)
(*                                                                         *)
(* Candidate indices, hops and `last' are counted from 1.                  *)
(***************************************************************************)
EXTENDS Yen, SequencesExt

CONSTANT kMaxStitchedPicks   \* combinations stitched before settling for what is ready

ASSUME PicksAssumption == kMaxStitchedPicks \in Nat

VARIABLES
    stage,      \* "idle", "ask", "hop", "merge", "bar", "search" or "return"
    query,      \* the arguments: sources, goals, forced, k, turn, bans
    hop,        \* the hop being searched
    segments,   \* the alternatives of the hops searched so far
    frontier,   \* picks to explore, each with its lower bound and last advanced hop
    ready,      \* valid stitched routes not yet emitted
    explored,   \* how many picks were stitched
    path,       \* the route the fallback has built so far
    routes      \* the answer

forcedVars == <<stage, query, hop, segments, frontier, ready, explored, path, routes>>

hops == Len(query.forced) + 1

At(v, bearing) == <<[vertex |-> v, cost |-> 0, bearing |-> bearing]>>

HopSources(bearing) == IF hop = 1 THEN query.sources ELSE At(query.forced[hop - 1], bearing)
HopGoals == IF hop = hops THEN query.goals ELSE At(query.forced[hop], kNoBearing)

NoQuery == [sources |-> <<>>, goals |-> <<>>, forced |-> <<>>, k |-> 0, turn |-> FALSE,
            bans |-> NoBans]

ForcedInit ==
    /\ YenInit
    /\ query = NoQuery
    /\ stage = "idle"
    /\ hop = 1
    /\ segments = <<>>
    /\ frontier = {}
    /\ ready = {}
    /\ explored = 0
    /\ path = <<>>
    /\ routes = <<>>

FindPaths(q) ==
    /\ stage = "idle"
    /\ query' = q
    /\ stage' = IF q.k <= 0 \/ q.forced = <<>> THEN "return" ELSE "ask"
    /\ UNCHANGED <<searchVars, hop, segments, frontier, ready, explored, path, routes>>

(***************************************************************************)
(* The alternatives of each hop.                                           *)
(***************************************************************************)
AskHop ==
    /\ stage = "ask"
    /\ FindKShortestPathsMulti([sources |-> HopSources(kNoBearing), goals |-> HopGoals,
                                k |-> query.k, turn |-> query.turn, bans |-> query.bans])
    /\ stage' = "hop"
    /\ UNCHANGED <<query, hop, segments, frontier, ready, explored, path, routes>>

SearchHop == stage = "hop" /\ YenStep /\ UNCHANGED forcedVars

\* std::stable_sort by cost: n paths go before the one at place n + 1.
Cheaper(paths, i, j) ==
    \/ paths[i].cost < paths[j].cost
    \/ paths[i].cost = paths[j].cost /\ i < j

PlaceOf(paths, i) == Cardinality({j \in DOMAIN paths : Cheaper(paths, j, i)}) + 1

ByCost(paths) ==
    [n \in DOMAIN paths |-> paths[CHOOSE i \in DOMAIN paths : PlaceOf(paths, i) = n]]

\* The sum of the costs of the picked alternatives.
LowerOf(segs, pick) ==
    Total([h \in DOMAIN pick |-> segs[h][pick[h]].cost], Len(pick))

PickItem(segs, pick, last) == [lower |-> LowerOf(segs, pick), pick |-> pick, last |-> last]

HopDone ==
    /\ stage = "hop"
    /\ phase = "return"
    /\ LET segs == Append(segments, ByCost(results))
       IN  IF results = <<>>
             THEN /\ stage' = "return"
                  /\ UNCHANGED <<segments, hop, frontier>>
             ELSE /\ segments' = segs
                  /\ hop' = hop + 1
                  /\ stage' = IF hop = hops THEN "merge" ELSE "ask"
                  /\ frontier' = IF hop = hops
                                   THEN {PickItem(segs, [h \in 1..hops |-> 1], 1)}
                                   ELSE {}
    /\ UNCHANGED <<searchVars, query, ready, explored, path, routes>>

(***************************************************************************)
(* The merge.                                                              *)
(***************************************************************************)
\* Hop paths that meet at their seams, joined one after the other.
Concatenate(parts) ==
    LET joined[h \in 1..Len(parts)] ==
            IF h = 1 THEN parts[1] ELSE joined[h - 1] \o Tail(parts[h])
    IN  joined[Len(parts)]

WholeSeed    == BuildSeedTable(query.sources)
WholeGoals   == BuildSeedTable(query.goals)

\* Mutant: a repeated vertex goes unnoticed.
IsRouteMaybeLooping(p) == Recostable(graph, p, WholeSeed, WholeGoals, query.bans)

\* StitchAndCost: a path that repeats a vertex or cannot be re-costed is no route.
IsRoute(p) == IsSimple(p) /\ Recostable(graph, p, WholeSeed, WholeGoals, query.bans)

Costed(p) ==
    [vertices |-> p,
     cost |-> CostOfPathMulti(graph, p, WholeSeed, WholeGoals, BuildBearingTable(query.sources),
                              BuildBearingTable(query.goals), query.turn),
     distance_nm |-> DistanceOfPathMulti(graph, p, WholeSeed, WholeGoals)]

Stitch(pick) == Concatenate([h \in 1..hops |-> segments[h][pick[h]].vertices])

CanExplore == frontier # {} /\ explored < kMaxStitchedPicks

LeastItems == {item \in frontier : \A other \in frontier : item.lower <= other.lower}

FirstReady == CHOOSE r \in ready : \A q \in ready \ {r} : Before(r, q)

\* Mutant: a ready route is emitted at once.
MayEmitAtOnce == ready # {}

\* No unexplored pick can undercut the cheapest ready route.
MayEmit ==
    /\ ready # {}
    /\ CanExplore => \E item \in LeastItems : FirstReady.cost <= item.lower

Emit ==
    /\ stage = "merge"
    /\ Len(routes) < query.k
    /\ MayEmit
    /\ routes' = Append(routes, FirstReady)
    /\ ready' = ready \ {FirstReady}
    /\ UNCHANGED <<searchVars, stage, query, hop, segments, frontier, explored, path>>

\* A pick advances the hops from the last advanced one on, each by one alternative.
Successors(item) ==
    {PickItem(segments, [item.pick EXCEPT ![h] = @ + 1], h) :
        h \in {j \in item.last..hops : item.pick[j] < Len(segments[j])}}

Explore ==
    /\ stage = "merge"
    /\ Len(routes) < query.k
    /\ ~MayEmit
    /\ CanExplore
    /\ \E item \in LeastItems :
          /\ frontier' = (frontier \ {item}) \cup Successors(item)
          /\ ready' = IF IsRoute(Stitch(item.pick))
                        THEN ready \cup {Costed(Stitch(item.pick))} ELSE ready
    /\ explored' = explored + 1
    /\ UNCHANGED <<searchVars, stage, query, hop, segments, path, routes>>

MergeDone ==
    /\ stage = "merge"
    /\ Len(routes) = query.k \/ (~MayEmit /\ ~CanExplore)
    /\ stage' = IF routes # <<>> THEN "return" ELSE "bar"
    /\ hop' = 1
    /\ UNCHANGED <<searchVars, query, segments, frontier, ready, explored, path, routes>>

(***************************************************************************)
(* The fallback.                                                           *)
(***************************************************************************)
NewWorkspace ==
    /\ stage = "bar"
    /\ FreshWorkspace
    /\ stage' = "search"
    /\ UNCHANGED <<yenVars, query, hop, segments, frontier, ready, explored, path, routes>>

\* Barred: the vertices already used, and the via points after this hop's own.
HopBans ==
    [query.bans EXCEPT !.nodes = @ \cup {path[i] : i \in 1..(Len(path) - 1)}
                                   \cup {query.forced[j] : j \in (hop + 1)..Len(query.forced)}]

ArrivalBearing ==
    IF Len(path) >= 2 THEN BearingTo[path[Len(path) - 1]][path[Len(path)]] ELSE kNoBearing

BarredSearch ==
    /\ stage = "search"
    /\ pc = "idle"
    /\ Begin(PlainCall(HopSources(ArrivalBearing), HopGoals, query.turn, HopBans))
    /\ UNCHANGED <<yenVars, forcedVars>>

SearchBarred == stage = "search" /\ SearchStep /\ UNCHANGED <<yenVars, forcedVars>>

BarredDone ==
    /\ stage = "search"
    /\ pc = "done"
    /\ LET whole == path \o (IF path = <<>> THEN result.vertices ELSE Tail(result.vertices))
       IN  IF ~result.found
             THEN stage' = "return" /\ UNCHANGED <<path, hop, routes>>
             ELSE /\ path' = whole
                  /\ hop' = hop + 1
                  /\ stage' = IF hop = hops THEN "return" ELSE "bar"
                  /\ routes' = IF hop = hops /\ IsRoute(whole) THEN <<Costed(whole)>> ELSE routes
    /\ UNCHANGED <<searchVars, query, segments, frontier, ready, explored>>

ForcedStep ==
    \/ AskHop \/ SearchHop \/ HopDone
    \/ Emit \/ Explore \/ MergeDone
    \/ NewWorkspace \/ BarredSearch \/ SearchBarred \/ BarredDone

(***************************************************************************)
(* Properties.                                                             *)
(***************************************************************************)

\* All picks: one alternative of each hop.
Picks == {p \in [1..hops -> 1..query.k] : \A h \in 1..hops : p[h] <= Len(segments[h])}

\* Types: the merge's heaps hold picks of the segments and costed routes.
ForcedTypeOK ==
    /\ stage \in {"idle", "ask", "hop", "merge", "bar", "search", "return"}
    /\ hop \in 1..(hops + 1)
    /\ Len(segments) <= hops
    /\ explored \in 0..kMaxStitchedPicks
    /\ stage = "merge" => \A item \in frontier : item.pick \in Picks /\ item.last \in 1..hops
    /\ \A r \in ready : r.cost \in Nat /\ r.vertices # <<>>
    /\ Len(routes) <= IF query.k > 0 THEN query.k ELSE 0

\* Every route returned is simple, passes the via points in the order given, and
\* carries the cost and distance of the whole path, the turns at the via points
\* included (a via point asked for twice in a row is passed once); none is returned
\* twice (forced_router.h: "in ascending re-costed order
\* (the full path under the turn model, including the turns at the forced fixes)").
RoutesAreForced ==
    /\ \A r \in {routes[i] : i \in DOMAIN routes} :
          /\ IsSimple(r.vertices)
          /\ Recostable(graph, r.vertices, WholeSeed, WholeGoals, query.bans)
          /\ r = Costed(r.vertices)
          /\ \E at \in [1..(hops - 1) -> DOMAIN r.vertices] :
                /\ \A h \in 1..(hops - 1) : r.vertices[at[h]] = query.forced[h]
                /\ \A h \in 1..(hops - 2) : at[h] <= at[h + 1]
    /\ \A i, j \in DOMAIN routes : routes[i] = routes[j] => i = j

RoutesAscend ==
    \A i, j \in DOMAIN routes : i < j => routes[i].cost <= routes[j].cost

\* Routes come out in ascending order of their true cost (forced_router.cc: "output
\* is in true cost order"), although they are explored by a bound that leaves out
\* the turns at the via points, and whether or not the budget ran out.  Unless it
\* did, a valid combination that is left out is no cheaper than any route returned,
\* and none is left out of an answer of fewer than k routes: a clash of the cheapest
\* alternatives does not end the search.
BestCombinations ==
    /\ RoutesAscend
    /\ (stage \in {"merge", "bar", "return"} /\ Len(segments) = hops
          /\ explored < kMaxStitchedPicks) =>
          \A p \in Picks :
             LET whole == Stitch(p)
             IN  (IsRoute(whole) /\ \A i \in DOMAIN routes : routes[i].vertices # whole) =>
                    /\ \A i \in DOMAIN routes : routes[i].cost <= Costed(whole).cost
                    /\ stage # "merge" => Len(routes) = query.k
=============================================================================

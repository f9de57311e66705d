---------------------------- MODULE RoutePipeline ----------------------------
(***************************************************************************)
(* The database answering one question, from the loaded data to the text:  *)
(* build the graph, perhaps restore it from a cache, then either           *)
(*   - plan both ends, search, assemble the route and file its string,     *)
(*     which somebody files back (ParseRoute), or                          *)
(*   - parse a string filed by hand, or                                    *)
(*   - look up the fixes nearest a position.                               *)
(* The search is what module RouteSearch promises of it: a simple path     *)
(* between a kept connection of each side, its distance with both seeds    *)
(* included.                                                               *)
(***************************************************************************)
EXTENDS RouteParser

CONSTANTS
    Worlds,       \* the data sets: [nav, cifp, kind], cifp a lookup result per airport
                  \* and kind the kind of question put to it
    Requests,     \* by kind: [dep, arr, via, avoid_waypoints, rules, altitude, level, seed],
                  \* an end being [airport, procedure, runway]
    kMaxForcedPoints,
    Filings,      \* token sequences filed by hand
    Positions     \* [coord, count, inbound]: nearest-fix questions

\* A data set holds sequences, and its positions are ones that have distances.
ASSUME WorldsAssumption ==
    /\ \A w \in Worlds :
          /\ w.nav.waypoints \in Seq(ToSet(w.nav.waypoints))
          /\ w.nav.airports \in Seq(ToSet(w.nav.airports))
          /\ w.nav.airways \in Seq(ToSet(w.nav.airways))
          /\ \A p \in ToSet(w.nav.waypoints) : p.coord \in DOMAIN DistanceTo
          /\ \A c \in ToSet(w.nav.airways) :
                {c.from_hint, c.to_hint} \subseteq DOMAIN DistanceTo \cup {NoHint}
    /\ \A q \in Positions : q.coord \in DOMAIN DistanceTo /\ q.count \in Int

VARIABLES step, world, db, asked, options, dep, arr, vias, route, parsed, found

vars == <<step, world, db, asked, options, dep, arr, vias, route, parsed, found>>

NoLookup  == [error |-> "none", published |-> FALSE]
Unstarted == [ok |-> FALSE, code |-> "none"]

CifpFor(w, icao) == IF icao \in DOMAIN w.cifp THEN w.cifp[icao] ELSE NoLookup

Init ==
    /\ world \in Worlds
    /\ step = "load"
    /\ db = <<>> /\ asked = <<>> /\ options = <<>> /\ dep = EmptyPlan /\ arr = EmptyPlan
    /\ vias = <<>> /\ route = <<>> /\ parsed = Unstarted /\ found = <<>>

\* The built graph with its airway index.
Opened(b) == [part \in DOMAIN b \cup {"airways"} |->
                 IF part = "airways" THEN BuildAirwayIndex(b) ELSE b[part]]

Build ==
    /\ step = "load"
    /\ Populatable(world.nav)
    /\ \E built \in {Populate(world.nav)} :
          /\ ~built.overflow
          /\ \E opened \in {built, FromSnapshot(ToSnapshot(built))} : db' = Opened(opened)
    /\ step' = "open"
    /\ UNCHANGED <<world, asked, options, dep, arr, vias, route, parsed, found>>

BuildRefused ==
    /\ step = "load"
    /\ Populatable(world.nav) => Populate(world.nav).overflow
    /\ step' = "done"
    /\ UNCHANGED <<world, db, asked, options, dep, arr, vias, route, parsed, found>>

(***************************************************************************)
(* FindRoutes.                                                             *)
(***************************************************************************)
PlanFor(r, departure) ==
    LET end == IF departure THEN r.dep ELSE r.arr
    IN  Plan(db, end, departure, CifpFor(world, ToUpper(end.airport)), options.avoid_vertices)

\* Whether a plan is answered with an error instead.
Unusable(plan) ==
    \/ plan.error # "none"
    \/ plan.unknown_runway
    \/ plan.named_procedure_unmatched
    \/ plan.connections = <<>>

\* The constraints come first.
FindRoutes ==
    /\ step = "open" /\ world.kind \in DOMAIN Requests
    /\ \E r \in Requests[world.kind] :
          asked' = r /\ options' = ConstraintBundle(db, world.nav.mora, r)
    /\ step' = IF options'.refused THEN "done" ELSE "asked"
    /\ UNCHANGED <<world, db, dep, arr, vias, route, parsed, found>>

\* First the departure, then the arrival; an unusable plan ends the request.
PlanNextEnd ==
    /\ step \in {"asked", "planned"}
    /\ \E plan \in {PlanFor(asked, step = "asked")} :
          IF step = "asked"
            THEN /\ dep' = plan /\ arr' = arr
                 /\ step' = IF Unusable(plan) THEN "done" ELSE "planned"
            ELSE /\ dep' = dep /\ arr' = plan
                 /\ step' = IF Unusable(plan) THEN "done" ELSE "vias"
    /\ UNCHANGED <<world, db, asked, options, vias, route, parsed, found>>

\* ForcedRouter::ResolvePoint: a name means the point a route can pass, then one on the
\* network at all, then any; of those the least detour, the first of equals.  The index
\* by name holds no airports.
ResolvePoint(token) ==
    LET up      == ToUpper(token)
        coord(end) == db.coords[VertexByAirport(db, ToUpper(end.airport))]
        tier(v)    == IF v \in db.inbound /\ v \in db.outbound THEN 0
                      ELSE IF OnNetwork(db, v) THEN 1 ELSE 2
        detour(v)  == DistanceTo[coord(asked.dep)][db.coords[v]]
                        + DistanceTo[db.coords[v]][coord(asked.arr)]
        better(v, w) == \/ tier(v) < tier(w)
                        \/ tier(v) = tier(w) /\ detour(v) < detour(w)
                        \/ tier(v) = tier(w) /\ detour(v) = detour(w) /\ v < w
    IN  IF up \in DOMAIN Slashed THEN VertexByIdent(db, Slashed[up])
        ELSE FirstOf(InOrder(ToSet(VerticesByIdent(db, up)), better))

\* The connection fixes that are not to be avoided.
Kept(conns) == {i \in DOMAIN conns : conns[i].fix \notin options.avoid_vertices}

\* A via point must be known, not avoided, on the network both ways and not yet named.
ViaUsable(v) ==
    /\ v # kNoVertex
    /\ v \notin options.avoid_vertices
    /\ v \in db.inbound /\ v \in db.outbound
    /\ ~Contains(vias, v)

\* The via points in turn, then the search; an avoided end or a bad point ends it.
ResolveVias ==
    /\ step = "vias"
    /\ LET refused == \/ Kept(dep.connections) = {} \/ Kept(arr.connections) = {}
                      \/ Len(asked.via) > kMaxForcedPoints
           next    == Len(vias) + 1
       IN  IF refused
             THEN step' = "done" /\ vias' = vias
             ELSE IF next > Len(asked.via)
             THEN step' = "search" /\ vias' = vias
             ELSE \E v \in {ResolvePoint(asked.via[next])} :
                     IF ViaUsable(v) THEN step' = "vias" /\ vias' = Append(vias, v)
                     ELSE step' = "done" /\ vias' = vias
    /\ UNCHANGED <<world, db, asked, options, dep, arr, route, parsed, found>>

\* Simple paths over the open edges.
SimplePaths(from) ==
    LET grow(paths) == UNION {{Append(p, x.edge.to) : x \in {y \in ToSet(options.rows[Last(p)]) :
                                  ~Contains(p, y.edge.to)}} : p \in paths}
        upTo[n \in 0..Cardinality(DOMAIN db.idents)] ==
            IF n = 0 THEN {<<from>>} ELSE grow(upTo[n - 1])
    IN  UNION {upTo[n] : n \in DOMAIN upTo}

\* What a search may return: a path by the via points in their order, and its length
\* with the seeds it was given.
FoundPaths ==
    LET starts == ToSearchEndpoints(dep.connections, FALSE)
        goals  == ToSearchEndpoints(arr.connections, arr.soft_prefer_star)
        flown(p) == LET nm(i) == SelectEdge(options, p[i], p[i + 1]).distance_nm
                    IN  MapThenSumSet(nm, 1..(Len(p) - 1))
        byVias(p) == SelectSeq(p, LAMBDA v : Contains(vias, v)) = vias
        ending(paths, j) == {p \in paths : Last(p) = arr.connections[j].fix}
        seeded(i, paths) ==
          UNION {{[vertices |-> p, distance_nm |-> starts[i].cost + flown(p) + goals[j].cost]
                  : p \in ending(paths, j)} : j \in Kept(arr.connections)}
    IN  UNION {seeded(i, {p \in SimplePaths(dep.connections[i].fix) : byVias(p)})
               : i \in Kept(dep.connections)}

\* A path is assembled into a route; without one the request fails.
Search ==
    /\ step = "search"
    /\ \E paths \in {FoundPaths} :
          \/ \E path \in paths :
                route' = Assemble(db, path, dep, arr, options) /\ step' = "filed"
          \/ paths = {} /\ route' = route /\ step' = "done"
    /\ UNCHANGED <<world, db, asked, options, dep, arr, vias, parsed, found>>

(***************************************************************************)
(* ParseRoute.                                                             *)
(***************************************************************************)
Parsed(tokens) ==
    ParseRoute(db, tokens,
               IF tokens = <<>> THEN NoLookup ELSE CifpFor(world, Head(tokens)),
               IF tokens = <<>> THEN NoLookup ELSE CifpFor(world, Last(tokens)))

FileBack ==
    /\ step = "filed"
    /\ parsed' = Parsed(route.route.route_string)
    /\ step' = "done"
    /\ UNCHANGED <<world, db, asked, options, dep, arr, vias, route, found>>

FileByHand ==
    /\ step = "open" /\ world.kind = "strings"
    /\ \E tokens \in Filings : asked' = tokens /\ parsed' = Parsed(tokens)
    /\ step' = "parsed"
    /\ UNCHANGED <<world, db, options, dep, arr, vias, route, found>>

(***************************************************************************)
(* NearestOnNetwork.                                                       *)
(***************************************************************************)
Nearest ==
    /\ step = "open" /\ world.kind = "nearest"
    /\ \E q \in Positions :
          asked' = q /\ found' = NearestOnNetwork(db, q.coord, q.count, q.inbound)
    /\ step' = "nearest"
    /\ UNCHANGED <<world, db, options, dep, arr, vias, route, parsed>>

Next ==
    \/ Build \/ BuildRefused
    \/ FindRoutes \/ PlanNextEnd \/ ResolveVias \/ Search
    \/ FileBack \/ FileByHand \/ Nearest

Spec == Init /\ [][Next]_vars

(***************************************************************************)
(* Properties.                                                             *)
(***************************************************************************)
\* Every way the connector finds to fly between the runway and the network for one
\* unnamed request, before any folding.
OffersFor(plan, departure) ==
    LET data    == CifpFor(world, plan.airport).data
        apt     == VertexByAirport(db, plan.airport)
        avoid   == options.avoid_vertices
        orElse(gates, others) == IF gates # <<>> THEN gates ELSE others
    IN  orElse(CollectSide(data, departure, apt, db, plan.runway),
               IF departure
                 THEN CollectSidSpliceDepartures(data, apt, db, plan.runway, NoSelector, avoid)
                 ELSE CollectStarSpliceArrivals(data, apt, db, plan.runway, NoSelector, avoid)
                        \o CollectApproachArrivals(data, apt, db, plan.runway))

\* The figures of c are those of an offer of the procedure it lists first, no offer at
\* that fix ranks better, and every procedure offered there is listed.
PricedByFront(c, offers, soft) ==
    LET here    == {o \in ToSet(offers) : o.fix = c.fix}
        rank(o) == o.seed + (IF soft /\ o.ref.type = "kApproach" THEN kProcedurePreferNm ELSE 0)
    IN  /\ \E o \in here :
              /\ o.ref = Head(c.procedures)
              /\ <<o.seed, o.bearing, o.splice, o.splice_leg, o.approach>>
                   = <<c.seed, c.bearing, c.splice, c.splice_leg, c.approach>>
              /\ \A other \in here : rank(o) <= rank(other)
        /\ {o.ref : o \in here} = ToSet(c.procedures)

UsesProcedures(plan) == plan.used_procedures \/ plan.used_approach \/ plan.soft_prefer_star

\* The distance, heading and splice a request without a named procedure is routed with
\* belong to the procedure the route is then filed and reported with, and are the best
\* at that fix under the ranking, whatever order the procedures come in
\* (procedure_connector.cc: "the winning ref is moved to procedures.front() so
\* SelectProcedures / metadata pick the priced option"; endpoint_planner.cc: ranking by
\* effective seed, "stored seed_distance_nm stays raw").
PlanPricesWhatItFiles ==
    step \in {"planned", "vias"} =>
      LET departure == step = "planned"
          plan == IF departure THEN dep ELSE arr
          end  == IF departure THEN asked.dep ELSE asked.arr
      IN  (end.procedure = NoSelector /\ UsesProcedures(plan)) =>
             \E offers \in {OffersFor(plan, departure)} :
                \A c \in ToSet(plan.connections) :
                   PricedByFront(c, offers, plan.soft_prefer_star)

\* A route's legs lead from each point to the next and their lengths, like its three
\* phases, add up to its total.
AddsUp(r) ==
    LET nm(i) == r.legs[i].distance_nm
    IN  /\ Len(r.legs) = Len(r.points) - 1
        /\ \A i \in DOMAIN r.legs : /\ r.legs[i].from = NameOf(db, r.points[i])
                                    /\ r.legs[i].to = NameOf(db, r.points[i + 1])
        /\ MapThenSumSet(nm, DOMAIN r.legs) = r.total
        /\ r.dep + r.enroute + r.arr = r.total

\* Every route handed out, computed or parsed, is a chain of legs whose lengths add up:
\* the splice is counted once, in the enroute phase, and nothing of the preference the
\* search charged an approach is left (route.h: "Their sum equals total_distance_nm").
RoutesAddUp ==
    /\ step = "filed" => AddsUp(route.route)
    /\ parsed.ok => AddsUp(parsed)

\* The open cells a chord passes through, found without walking it: the stretches it
\* spends in the cell's row and in its column overlap.
PassesThrough(p, q, cell) ==
    LET dlat == q.lat - p.lat
        dlon == q.lon - p.lon
        la   == Max({1, Abs(dlat)})
        lo   == Max({1, Abs(dlon)})
        enter(at, d, k) == IF d > 0 THEN 10 * k - at ELSE at - 10 * k - 10
        in(at, d, k, other)  == IF d = 0 THEN 0 ELSE other * enter(at, d, k)
        out(at, d, k, other) == IF d # 0 THEN other * (enter(at, d, k) + 10)
                                ELSE IF Cell(at) = k THEN la * lo ELSE 0
    IN  Max({0, in(p.lat, dlat, cell[1], lo), in(p.lon, dlon, cell[2], la)})
          < Min({la * lo, out(p.lat, dlat, cell[1], lo), out(p.lon, dlon, cell[2], la)})

\* The highest terrain under a track.
TerrainUnder(stops) ==
    LET rows  == {Cell(stops[i].lat) : i \in DOMAIN stops}
        cols  == {Cell(stops[i].lon) : i \in DOMAIN stops}
        under(cell) == \E i \in 1..(Len(stops) - 1) : PassesThrough(stops[i], stops[i + 1], cell)
    IN  Max({0} \cup {MoraAtCell(world.nav.mora, c[1], c[2]) : c \in
              {x \in (Min(rows)..Max(rows)) \X (Min(cols)..Max(cols)) : under(x)}})

\* An edge a request may be flown over: some level is inside the band and the highest is
\* clear of the terrain, and no rule forbids one of its designators at one of its ends.
Flyable(e, r) ==
    /\ r.altitude # NoAltitude =>
         /\ \E fl \in r.altitude.min_fl..r.altitude.max_fl :
               (e.base_fl = 0 \/ e.base_fl <= fl) /\ (e.top_fl = 0 \/ fl <= e.top_fl)
         /\ TerrainUnder(Chords(db.coords[e.from], db.coords[e.to])) <= r.altitude.max_fl
    /\ \A i \in DOMAIN r.rules : r.rules[i].action = "kBlock" =>
         \A v \in {e.from, e.to}, d \in Designators(db, e) :
            ~ /\ MatchesAnyPrefix(db.idents[v].region, r.rules[i].region_prefixes)
              /\ MatchesAnyDesignator(d, r.rules[i].designators, r.rules[i].match)

\* Whether a token of a request names vertex v.
Names(token, v) ==
    IF token \in DOMAIN Slashed THEN db.idents[v] = Slashed[token] ELSE NameOf(db, v) = token

\* A computed route is one the request allows as it is filed: it passes no fix to be
\* avoided, splices included, it passes the via points in their order, and every leg
\* filed under an airway is an edge of that airway whose band, terrain and rules allow
\* the flight, also where parallel airways join the same fixes (mora_constraint.h: "a
\* cell the track only clips at a corner still counts").
RoutesObeyRequest ==
    step = "filed" =>
      LET stops == route.route.points
          legs  == route.route.legs
          fixes == SubSeq(stops, 2, Len(stops) - 1)
          named(leg) == IF leg.concurrent = <<>> THEN leg.via ELSE leg.concurrent
          passed == [i \in DOMAIN asked.via |->
                       SelectInSeq(fixes, LAMBDA v : Names(ToUpper(asked.via[i]), v))]
      IN  /\ \A v \in ToSet(fixes), token \in asked.avoid_waypoints : ~Names(ToUpper(token), v)
          /\ \A i \in DOMAIN passed : passed[i] > (IF i = 1 THEN 0 ELSE passed[i - 1])
          /\ \A i \in DOMAIN legs :
               \/ legs[i].via \in {<<kDctToken>>, <<kSidToken>>, <<kStarToken>>}
               \/ \E e \in ToSet(db.rows[stops[i]]) :
                     /\ e.to = stops[i + 1]
                     /\ SplitDesignators(AirwayName(db, e.airway_id)) = named(legs[i])
                     /\ Flyable(e, asked)

\* The string a computed route is filed with parses, to a route filed with that string
\* (route_integration_test.cc:924-925: "Feeding a computed route string back into
\* ParseRoute must validate and reproduce the same canonical route string").
ComputedStringParsesBack ==
    (step = "done" /\ route # <<>>) =>
       parsed.ok /\ parsed.route_string = route.route.route_string

\* Where the namesake nearest the point before is the fix that was meant, computed strings
\* parse back; and the route parsed from any string is filed with a string that parses to
\* itself: folding the legs of an airway loses nothing ParseRoute needs to expand it again.
\* In most data sets no two fixes share a name, in some a fix has a namesake off the network.
FiledStringParsesBack ==
    LET same(again) == again.ok /\ again.route_string = parsed.route_string
    IN  /\ ComputedStringParsesBack
        /\ parsed.ok => same(Parsed(parsed.route_string))

\* The fixes reported nearest a position are the nearest of the whole network, ties by
\* vertex, wherever it lies: beside the antimeridian, near a pole, across cell borders
\* (graph_builder.cc: "the result always matches a full O(V) scan").
NearestIsFullScan ==
    step = "nearest" =>
       LET mask == IF asked.inbound THEN db.inbound ELSE db.outbound
           all  == ByDistance(db, asked.coord, {v \in mask : OnGlobe(db.coords[v])})
       IN  found = IF OnGlobe(asked.coord) THEN SubSeq(all, 1, Min({asked.count, Len(all)}))
                   ELSE <<>>
=============================================================================

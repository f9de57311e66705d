----------------------------- MODULE Constraints -----------------------------
(***************************************************************************)
(* What a request says of each airway edge: whether it may be flown and    *)
(* what it costs beside its length.  Constraints are built once per        *)
(* request; an edge any of them blocks is closed, and their penalties add. *)
(*                                                                         *)
(* A penalty fraction is a percentage and a cost a number of 1/10000 mile. *)
(* Flight levels are whole; 0 in an edge's band or the MORA grid is "not   *)
(* known".  MORA is sampled along the chords of a leg's track in latitude  *)
(* and longitude, in exact tenths of a degree.                             *)
(***************************************************************************)
EXTENDS GraphBuilder

CONSTANTS
    ToUpper(_),             \* the upper-case form of a name
    Slashed,                \* the IDENT/REGION tokens, each with its key
    StartsWith,             \* the pairs <<text, prefix>>
    GreatCircle,            \* [position -> [position -> the points that split the arc]]
    Hash01,                 \* [seed -> [edge -> percentage]]: the noise of a seed
    kMoraGreatCirclePiece,  \* the longest chord walked as it is (50 tenths in the code)
    kMaxRules               \* airway rules per request (32 in the code)

kDefaultPenaltyFraction == 50
kDefaultEps             == 5

NoAltitude == [min_fl |-> 0, max_fl |-> -1]
NoSeed     == -1

\* Empty parts (a stray hyphen) are no designators.
SplitDesignators(via) == SelectSeq(via, LAMBDA d : d # "")

(***************************************************************************)
(* Verdicts.                                                               *)
(***************************************************************************)
Allow          == [allowed |-> TRUE, extra_cost |-> 0]
Block          == [allowed |-> FALSE, extra_cost |-> 0]
Penalize(cost) == [allowed |-> TRUE, extra_cost |-> cost]

AltitudeBand(e, r) ==
    IF /\ r.altitude # NoAltitude
       /\ \/ e.base_fl # 0 /\ r.altitude.max_fl < e.base_fl
          \/ e.top_fl # 0 /\ r.altitude.min_fl > e.top_fl
      THEN Block ELSE Allow

LevelPreference(e, r) ==
    IF r.level = "kNone" \/ e.level = "kBoth" \/ ((e.level = "kHigh") <=> (r.level = "kHigh"))
      THEN Allow
      ELSE Penalize(e.distance_nm * 100 * kDefaultPenaltyFraction)

AvoidWaypoint(e, avoid) == IF e.to \in avoid THEN Block ELSE Allow

Randomize(e, r) ==
    IF r.seed = NoSeed THEN Allow
    ELSE Penalize(e.distance_nm * kDefaultEps * Hash01[r.seed][<<e.from, e.to, e.airway_id>>])

(***************************************************************************)
(* Terrain along a leg.                                                    *)
(***************************************************************************)
MoraAtCell(mora, row, col) ==
    LET cell == <<IF row = 90 THEN 89 ELSE row, ((col + 180) % 360) - 180>>
    IN  IF cell \in DOMAIN mora THEN mora[cell] ELSE 0

\* Mutant: only the cells of the two ends.
WalkCellsEnds(lat0, lon0, lat1, lon1) == {<<Cell(lat0), Cell(lon0)>>, <<Cell(lat1), Cell(lon1)>>}

\* How far it is to the border ahead.
Gap(at, d) == IF d > 0 THEN 10 * (Cell(at) + 1) - at ELSE at - 10 * Cell(at)

Towards(d) == IF d > 0 THEN 1 ELSE -1

\* Over the nearer of the two borders ahead, but never past the last row or column.
CrossBorder(s, dlat, dlon, row1, col1) ==
    LET rowFirst == /\ s.row # row1
                    /\ s.col = col1 \/ s.rowGap * Abs(dlon) < s.colGap * Abs(dlat)
    IN  IF rowFirst THEN [s EXCEPT !.row = @ + Towards(dlat), !.rowGap = @ + 10]
        ELSE [s EXCEPT !.col = @ + Towards(dlon), !.colGap = @ + 10]

\* The cells of a chord, from border to border.
WalkCells(lat0, lon0, lat1, lon1) ==
    LET crossings == Abs(Cell(lat1) - Cell(lat0)) + Abs(Cell(lon1) - Cell(lon0))
        visit[i \in 0..crossings] ==
          IF i = 0
            THEN [row |-> Cell(lat0), col |-> Cell(lon0),
                  rowGap |-> Gap(lat0, lat1 - lat0), colGap |-> Gap(lon0, lon1 - lon0)]
            ELSE CrossBorder(visit[i - 1], lat1 - lat0, lon1 - lon0, Cell(lat1), Cell(lon1))
    IN  {<<visit[i].row, visit[i].col>> : i \in 0..crossings}

\* The shorter way round.
ShorterWay(dlon) ==
    IF dlon > 1800 THEN dlon - 3600 ELSE IF dlon < -1800 THEN dlon + 3600 ELSE dlon

\* The ends of the chords of a leg, longitudes running on past 180.
Chords(from, to) ==
    LET long == Max({Abs(to.lat - from.lat), Abs(ShorterWay(to.lon - from.lon))})
                  > kMoraGreatCirclePiece
        next(stops, c) ==
          Append(stops, [c EXCEPT !.lon = Last(stops).lon + ShorterWay(@ - Last(stops).lon)])
    IN  FoldLeft(next, <<from>>, (IF long THEN GreatCircle[from][to] ELSE <<>>) \o <<to>>)

MaxMoraAlongChords(mora, stops) ==
    Max({0} \cup UNION {
      {MoraAtCell(mora, c[1], c[2]) :
          c \in WalkCells(stops[i].lat, stops[i].lon, stops[i + 1].lat, stops[i + 1].lon)}
      : i \in 1..(Len(stops) - 1)})

MaxMoraAlongLeg(mora, from, to) == MaxMoraAlongChords(mora, Chords(from, to))

Mora(b, mora, e, r) ==
    IF /\ r.altitude # NoAltitude
       /\ r.altitude.max_fl < MaxMoraAlongLeg(mora, b.coords[e.from], b.coords[e.to])
      THEN Block ELSE Allow

(***************************************************************************)
(* Airway rules.                                                           *)
(***************************************************************************)
\* An empty list, and an empty entry, match everything.
MatchesAnyPrefix(region, prefixes) ==
    prefixes = {} \/ "" \in prefixes \/ \E p \in prefixes : <<region, p>> \in StartsWith

MatchesAnyDesignator(designator, wanted, match) ==
    \/ wanted = {} \/ "" \in wanted
    \/ \E w \in wanted : IF match = "kPrefix" THEN <<designator, w>> \in StartsWith
                         ELSE designator = w

VertexMask(b, rules, v) ==
    {i \in DOMAIN rules : MatchesAnyPrefix(b.idents[v].region, rules[i].region_prefixes)}

AirwayMask(b, rules, id) ==
    IF id = 0 THEN {}
    ELSE {i \in DOMAIN rules : \E d \in ToSet(SplitDesignators(AirwayName(b, id))) :
             MatchesAnyDesignator(d, rules[i].designators, rules[i].match)}

\* The rules on a leg: either end in a region, any designator matching.
AirwayRules(b, e, r) ==
    LET matching == (VertexMask(b, r.rules, e.from) \cup VertexMask(b, r.rules, e.to))
                      \cap AirwayMask(b, r.rules, e.airway_id)
        fraction(i) == Max({0, r.rules[i].penalty_fraction})
    IN  IF \E i \in matching : r.rules[i].action = "kBlock" THEN Block
        ELSE Penalize(e.distance_nm * 100 * MapThenSumSet(fraction, matching))

(***************************************************************************)
(* The constraints of a request, and the edges they leave open.            *)
(***************************************************************************)
ResolveAvoidVertices(b, waypoints) ==
    UNION {LET up == ToUpper(raw)
           IN  IF up \in DOMAIN Slashed
                 THEN {v \in ToSet(VerticesByIdent(b, Slashed[up].ident)) :
                          b.idents[v].region = Slashed[up].region}
                 ELSE ToSet(VerticesByIdent(b, up))
           : raw \in waypoints}

Combined(verdicts) ==
    [allowed    |-> \A i \in DOMAIN verdicts : verdicts[i].allowed,
     extra_cost |-> FoldLeft(LAMBDA sum, v : sum + v.extra_cost, 0, verdicts)]

EdgeAllowed(b, mora, e, r, avoid) ==
    Combined(<<AltitudeBand(e, r), Mora(b, mora, e, r), LevelPreference(e, r),
               AvoidWaypoint(e, avoid), AirwayRules(b, e, r), Randomize(e, r)>>)

\* The edges of a row that may be flown, each with what it costs.
OpenRow(b, mora, row, r, avoid) ==
    LET offer(open, e, v) ==
          IF ~v.allowed THEN open
          ELSE Append(open, [edge |-> e, cost |-> 10000 * e.distance_nm + v.extra_cost])
    IN  FoldLeft(LAMBDA open, e : offer(open, e, EdgeAllowed(b, mora, e, r, avoid)), <<>>, row)

Bundle(b, mora, r, avoid) ==
    [refused |-> FALSE, avoid_vertices |-> avoid,
     rows |-> [v \in DOMAIN b.rows |-> OpenRow(b, mora, b.rows[v], r, avoid)]]

\* The constraints of a request: the vertices to avoid and the edges left open.
ConstraintBundle(b, mora, r) ==
    IF Len(r.rules) > kMaxRules THEN [refused |-> TRUE]
    ELSE Bundle(b, mora, r, ResolveAvoidVertices(b, r.avoid_waypoints))

\* The edge flown between two vertices: the cheapest that is open, the first of equals.
SelectEdge(options, u, w) ==
    LET open == SelectSeq(options.rows[u], LAMBDA p : p.edge.to = w)
    IN  open[CHOOSE i \in DOMAIN open : \A j \in DOMAIN open :
                open[i].cost < open[j].cost \/ (open[i].cost = open[j].cost /\ i <= j)].edge
=============================================================================

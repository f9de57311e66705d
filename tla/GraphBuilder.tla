---------------------------- MODULE GraphBuilder ----------------------------
(***************************************************************************)
(* The graph builder: from a loaded data set to the vertices, the airway   *)
(* table, the adjacency rows, the on-network flags, and the indices every  *)
(* lookup uses.  Waypoints are the vertices below firstAirport, airports   *)
(* the rest; vertices count from 0.                                        *)
(*                                                                         *)
(* A position is its latitude and longitude in tenths of a degree, and a   *)
(* distance a whole number of nautical miles.  Great circles are taken as  *)
(* given (DistanceTo, BearingTo, and Across: how far a point at a latitude *)
(* is from the meridian so many tenths away).  A raw airway name is the    *)
(* sequence of its parts between hyphens.                                  *)
(***************************************************************************)
EXTENDS Integers, SequencesExt

CONSTANTS
    DistanceTo, BearingTo,  \* [position -> [position -> miles, degrees]]
    Across,                 \* [latitude -> [tenths -> miles]]
    TooLong,                \* the names that do not fit a fixed-size ident
    kMaxAirwayId,           \* the largest airway id (65535 in the code)
    kFixHintToleranceNm

kNoVertex  == -1
kNoBearing == -1
kDctToken  == "DCT"
NoHint     == [lat |-> 0, lon |-> 99999]
Infinity   == 1000000

Abs(x) == IF x < 0 THEN -x ELSE x

(***************************************************************************)
(* The grid of degree cells over the waypoints.                            *)
(***************************************************************************)
\* A position read from a damaged row is kept out of the grid.
OnGlobe(c) == Abs(c.lat) <= 900 /\ Abs(c.lon) <= 1800

\* How far apart two meridians are, the short way; the distances of those up to a
\* quarter turn away; and the points on every meridian.
LonGap(p, q) == IF Abs(p.lon - q.lon) <= 1800 THEN Abs(p.lon - q.lon)
                ELSE 3600 - Abs(p.lon - q.lon)
QuarterTurn  == 0..900
AtPole(p)    == Abs(p.lat) = 900

\* What the bounds of the grid search owe to the sphere: two points are no nearer than
\* their parallels, nor than the first is to a meridian the second is on or beyond
\* (DistanceTo and the comment of OutsideLowerBoundNm, a degree of arc being 60 miles or
\* a little more).
ASSUME GlobeAssumption ==
    /\ DistanceTo \in [DOMAIN DistanceTo -> [DOMAIN DistanceTo -> Nat]]
    /\ \A p \in DOMAIN DistanceTo : p.lat \in Int /\ p.lon \in Int
    /\ \A p, q \in DOMAIN DistanceTo : OnGlobe(p) /\ OnGlobe(q) =>
          /\ 6 * Abs(p.lat - q.lat) <= DistanceTo[p][q]
          /\ \A t \in QuarterTurn :
                /\ Across[p.lat][t] \in Nat
                /\ t <= LonGap(p, q) \/ AtPole(q) => Across[p.lat][t] <= DistanceTo[p][q]

Cell(tenths) == tenths \div 10

WrapLon(lon) == IF lon < -180 THEN lon + 360 ELSE IF lon >= 180 THEN lon - 360 ELSE lon

KeyForCoord(c) == [lat |-> Cell(c.lat), lon |-> WrapLon(Cell(c.lon))]

RebuildGrid(coords, firstAirport) ==
    [v \in {w \in 0..(firstAirport - 1) : OnGlobe(coords[w])} |-> KeyForCoord(coords[v])]

\* The waypoints in the cells within a radius, across the antimeridian too.
Near(b, c, radius) ==
    LET columns == {WrapLon(WrapLon(Cell(c.lon) + d)) : d \in (-radius)..radius}
    IN  {v \in DOMAIN b.grid : /\ Abs(b.grid[v].lat - Cell(c.lat)) <= radius
                               /\ b.grid[v].lon \in columns}

\* A lower bound on the distance to anything outside those cells.
OutsideLowerBoundNm(c, radius) ==
    LET south == 10 * (Cell(c.lat) - radius)
        north == 10 * (Cell(c.lat) + radius + 1)
        west  == 10 * (Cell(c.lon) - radius)
        east  == 10 * (Cell(c.lon) + radius + 1)
        gaps  == (IF south > -900 THEN {6 * (c.lat - south)} ELSE {})
                   \cup (IF north < 900 THEN {6 * (north - c.lat)} ELSE {})
                   \cup (IF 2 * radius + 1 < 360
                           THEN {Across[c.lat][Min({c.lon - west, east - c.lon, 900})]}
                           ELSE {})
    IN  Min(gaps \cup {Infinity})

(***************************************************************************)
(* Lookups.                                                                *)
(***************************************************************************)
Fits(ident) == ident.ident \notin TooLong /\ ident.region \notin TooLong

\* The members of S in a strict order: each after as many as come before it.
InOrder(S, before(_, _)) ==
    [i \in 1..Cardinality(S) |-> CHOOSE v \in S : Cardinality({w \in S : before(w, v)}) = i - 1]

Ascending(S) == InOrder(S, <)

\* The vertices under every key, in loading order.
IndexBy(key(_), S) == [k \in {key(v) : v \in S} |-> Ascending({v \in S : key(v) = k})]

RebuildIndices(idents, firstAirport) ==
    LET waypoints == 0..(firstAirport - 1)
        airports  == DOMAIN idents \ waypoints
    IN  [ident   |-> IndexBy(LAMBDA v : idents[v], waypoints),
         all     |-> IndexBy(LAMBDA v : idents[v].ident, waypoints),
         airport |-> IndexBy(LAMBDA v : idents[v].ident, airports)]

Under(index, key) == IF key \in DOMAIN index THEN index[key] ELSE <<>>
FirstOf(s)        == IF s = <<>> THEN kNoVertex ELSE Head(s)

VertexByIdent(b, ident)   == FirstOf(Under(b.index.ident, ident))
VerticesByIdent(b, name)  == Under(b.index.all, name)
VertexByAirport(b, icao)  == FirstOf(Under(b.index.airport, icao))
IsAirport(b, v)           == v \in DOMAIN b.idents /\ v >= b.firstAirport
OnNetwork(b, v)           == v \in b.outbound \/ v \in b.inbound

\* Of the vertices with that key within the tolerance, the nearest, then the first.
VertexNear(b, ident, near, tolerance) ==
    LET nm(v)  == DistanceTo[near][b.coords[v]]
        inside == {v \in ToSet(Under(b.index.ident, ident)) : nm(v) <= tolerance}
    IN  IF inside = {} THEN kNoVertex
        ELSE Min({v \in inside : \A w \in inside : nm(v) <= nm(w)})

\* By distance, then by vertex.
ByDistance(b, c, S) ==
    InOrder(S, LAMBDA v, w :
        LET dv == DistanceTo[c][b.coords[v]]
            dw == DistanceTo[c][b.coords[w]]
        IN  dv < dw \/ (dv = dw /\ v < w))

Radii == <<2, 4, 8, 16, 32, 64, 128, 180>>

\* Mutant: stop at the first radius with enough candidates.
SettledWhenEnough(b, c, found, count, radius) == Len(found) >= count

\* Whether the nearest candidates so far are nearer than anything not yet visited.
Settled(b, c, found, count, radius) ==
    /\ Len(found) >= count
    /\ DistanceTo[c][b.coords[found[count]]] < OutsideLowerBoundNm(c, radius)

NearestOnNetwork(b, c, count, isInbound) ==
    LET mask     == IF isInbound THEN b.inbound ELSE b.outbound
        found(r) == ByDistance(b, c, Near(b, c, r) \cap mask)
        done     == {i \in DOMAIN Radii : Settled(b, c, found(Radii[i]), count, Radii[i])}
        last     == found(Radii[Min(done \cup {Len(Radii)})])
    IN  IF count <= 0 \/ ~OnGlobe(c) THEN <<>>
        ELSE SubSeq(last, 1, Min({count, Len(last)}))

(***************************************************************************)
(* Building from a data set.                                               *)
(***************************************************************************)
Vertices(data) ==
    data.waypoints \o [i \in DOMAIN data.airports |->
        [ident |-> data.airports[i].ident, coord |-> data.airports[i].coord, kind |-> "kFix"]]

FromZero(s, f(_)) == [v \in 0..(Len(s) - 1) |-> f(s[v + 1])]

\* Points that are listed with the navaids but are no part of the network.
IsGraphVertexKind(kind) == kind \notin {"kOther", "kIlsDme"}

\* A kind a loader must have dropped, or a name too long, refuses the data set.
Populatable(data) ==
    /\ \A i \in DOMAIN data.waypoints : IsGraphVertexKind(data.waypoints[i].kind)
    /\ \A i \in DOMAIN Vertices(data) : Fits(Vertices(data)[i].ident)

\* An endpoint with a position is the point of that name there, else the first.
ResolveEnd(b, ident, hint) ==
    IF ~Fits(ident) THEN kNoVertex
    ELSE IF hint = NoHint THEN VertexByIdent(b, ident)
    ELSE VertexNear(b, ident, hint, kFixHintToleranceNm)

\* Names in order of first use, DCT being 0; past the last id none is added, which
\* refuses the data set as a whole (overflow).
AirwayTable(names) ==
    FoldLeft(LAMBDA table, name :
                IF Contains(Tail(table), name) \/ Len(table) > kMaxAirwayId THEN table
                ELSE Append(table, name),
             << <<kDctToken>> >>, names)

\* The id of a name, or -1: its edges are dropped rather than made direct.
AirwayIdFor(table, name) == SelectInSubSeq(table, 2, Len(table), LAMBDA n : n = name) - 1

AirwayName(b, id) == b.names[id + 1]

\* The edges of one connection, by its direction.
EdgesOf(b, conn, from, to, id) ==
    LET edge(u, w) == [from |-> u, to |-> w, airway_id |-> id,
                       distance_nm |-> DistanceTo[b.coords[u]][b.coords[w]],
                       level |-> conn.level, base_fl |-> conn.base_fl, top_fl |-> conn.top_fl]
    IN  (IF conn.direction # "kBackward" THEN <<edge(from, to)>> ELSE <<>>)
          \o (IF conn.direction # "kForward" THEN <<edge(to, from)>> ELSE <<>>)

\* Rows, and the flags the rows imply.
WithRows(b, edges) ==
    [b EXCEPT !.rows     = [v \in DOMAIN b.idents |-> SelectSeq(edges, LAMBDA e : e.from = v)],
              !.outbound = {edges[i].from : i \in DOMAIN edges},
              !.inbound  = {edges[i].to : i \in DOMAIN edges}]

\* What a cache stores of a builder, and the builder rebuilt from it.
ToSnapshot(b) ==
    [coords |-> b.coords, idents |-> b.idents, firstAirport |-> b.firstAirport,
     names |-> b.names, rows |-> b.rows, outbound |-> b.outbound, inbound |-> b.inbound]

FromSnapshot(s) ==
    [coords |-> s.coords, idents |-> s.idents, firstAirport |-> s.firstAirport,
     names |-> s.names, rows |-> s.rows, outbound |-> s.outbound, inbound |-> s.inbound,
     overflow |-> FALSE, index |-> RebuildIndices(s.idents, s.firstAirport),
     grid  |-> RebuildGrid(s.coords, s.firstAirport)]

Populate(data) ==
    LET count   == Len(data.waypoints)
        bare    == FromSnapshot(
                     [coords |-> FromZero(Vertices(data), LAMBDA p : p.coord),
                      idents |-> FromZero(Vertices(data), LAMBDA p : p.ident),
                      firstAirport |-> count, names |-> <<>>, rows |-> <<>>,
                      outbound |-> {}, inbound |-> {}])
        from(c) == ResolveEnd(bare, c.from, c.from_hint)
        to(c)   == ResolveEnd(bare, c.to, c.to_hint)
        ends(c) == from(c) # kNoVertex /\ to(c) # kNoVertex
        used    == SelectSeq(data.airways, ends)
        table   == AirwayTable([i \in DOMAIN used |-> used[i].name])
        id(c)   == AirwayIdFor(table, c.name)
        edges(c) == IF ends(c) /\ id(c) >= 0 THEN EdgesOf(bare, c, from(c), to(c), id(c))
                    ELSE <<>>
    IN  WithRows([bare EXCEPT !.names = table,
                              !.overflow = \E i \in DOMAIN used : id(used[i]) < 0],
                 FlattenSeq([i \in DOMAIN data.airways |-> edges(data.airways[i])]))
=============================================================================

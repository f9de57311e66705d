----------------------------- MODULE RouteParser -----------------------------
(***************************************************************************)
(* NavDatabase::ParseRoute: a filed string, as its tokens, resolved on the *)
(* network.  The departure airport is first and the arrival last; beside   *)
(* each stands SID / STAR, a published name, or DCT; in between fixes and  *)
(* connectors alternate.  The result is the route with the string rebuilt  *)
(* from its legs, or an error.                                             *)
(***************************************************************************)
EXTENDS RouteAssembler

(***************************************************************************)
(* The airway index.                                                       *)
(***************************************************************************)
AllEdges(b) == UNION {ToSet(b.rows[v]) : v \in DOMAIN b.rows}

Designators(b, e) == IF e.airway_id = 0 THEN {} ELSE ToSet(SplitDesignators(AirwayName(b, e.airway_id)))

\* The legs registered under each designator that fits a fixed-size name.
BuildAirwayIndex(b) ==
    LET legs(d) == {[from |-> NameOf(b, e.from), to |-> NameOf(b, e.to),
                     distance_nm |-> e.distance_nm] : e \in {x \in AllEdges(b) : d \in Designators(b, x)}}
    IN  [d \in UNION {Designators(b, e) : e \in AllEdges(b)} \ TooLong |-> legs(d)]

IsAirway(b, token) == token \in DOMAIN b.airways

(***************************************************************************)
(* Fixes and airways.                                                      *)
(***************************************************************************)
\* IDENT/REGION names one key; else the point of that name nearest the previous point,
\* the first of equals.
ResolveToken(b, token, ref) ==
    IF token \in DOMAIN Slashed
      THEN VertexByIdent(b, Slashed[token])
      ELSE FirstOf(ByDistance(b, b.coords[ref], ToSet(VerticesByIdent(b, token))))

\* Mutant: only legs whose whole name is the designator are on the airway.
OnAirwayExact(b, e, name) == e.airway_id # 0 /\ AirwayName(b, e.airway_id) = <<name>>

OnAirway(b, e, name) == name \in Designators(b, e)

\* The simple ways along one designator.
AirwayPaths(b, name, from) ==
    LET step(paths) ==
          UNION {{Append(p, e.to) : e \in {x \in ToSet(b.rows[Last(p)]) :
                                              OnAirway(b, x, name) /\ ~Contains(p, x.to)}}
                 : p \in paths}
        reach[n \in 0..Cardinality(DOMAIN b.rows)] ==
          IF n = 0 THEN {<<from>>} ELSE step(reach[n - 1])
    IN  UNION {reach[n] : n \in DOMAIN reach}

PathNm(b, path) ==
    LET span(i) == Between(b, path[i], path[i + 1])
    IN  MapThenSumSet(span, 1..(Len(path) - 1))

\* The shortest of them without its start; empty when there is none.
ExpandAirway(b, name, from, to) ==
    LET ways == {p \in AirwayPaths(b, name, from) : Last(p) = to}
    IN  IF ways = {} THEN <<>>
        ELSE Tail(CHOOSE p \in ways : \A q \in ways : PathNm(b, p) <= PathNm(b, q))

(***************************************************************************)
(* The middle of the route: fixes and connectors in turn.                  *)
(***************************************************************************)
kNone == ""

\* Take a fix: the first, a direct leg, or the legs of an airway.
TakeFix(b, s, v) ==
    LET chain == IF s.pending \in {kNone, kDctToken} THEN <<v>>
                 ELSE ExpandAirway(b, s.pending, s.prev, v)
        via   == IF s.pending = kNone THEN <<kDctToken>> ELSE <<s.pending>>
        hops  == <<s.prev>> \o chain
        legs  == [i \in DOMAIN chain |->
                    Leg(NameOf(b, hops[i]), NameOf(b, hops[i + 1]), via,
                        Between(b, hops[i], hops[i + 1]))]
    IN  CASE v = kNoVertex -> [s EXCEPT !.failed = TRUE]
          [] v # kNoVertex /\ s.prev = kNoVertex ->
               [s EXCEPT !.points = <<v>>, !.prev = v, !.ref = v, !.expectFix = FALSE]
          [] v # kNoVertex /\ s.prev # kNoVertex /\ chain = <<>> -> [s EXCEPT !.failed = TRUE]
          [] v # kNoVertex /\ s.prev # kNoVertex /\ chain # <<>> ->
               [s EXCEPT !.points = @ \o chain, !.legs = @ \o legs, !.prev = v, !.ref = v,
                         !.pending = kNone, !.expectFix = FALSE]

TakeConnector(b, s, token) ==
    IF token = kDctToken \/ IsAirway(b, token)
      THEN [s EXCEPT !.pending = token, !.expectFix = TRUE]
      ELSE [s EXCEPT !.failed = TRUE]

ParseMiddle(b, tokens, ref) ==
    FoldLeft(LAMBDA s, token :
                IF s.failed THEN s
                ELSE IF s.expectFix THEN TakeFix(b, s, ResolveToken(b, token, s.ref))
                ELSE TakeConnector(b, s, token),
             [points |-> <<>>, legs |-> <<>>, prev |-> kNoVertex, ref |-> ref,
              pending |-> kNone, expectFix |-> TRUE, failed |-> FALSE],
             tokens)

(***************************************************************************)
(* The whole route.                                                        *)
(***************************************************************************)
\* What stands beside the airports: how far it reaches and how it connects.
Publishes(lookup, name, type) ==
    lookup.published /\ \E i \in DOMAIN lookup.data.procedures :
        lookup.data.procedures[i].type = type /\ lookup.data.procedures[i].name = name

Shape(tokens, depLookup, arrLookup) ==
    LET n     == Len(tokens)
        tail  == n - 2 > 1 /\ tokens[n - 1] = kDctToken       \* "DCT ARR" consumed
        end   == IF tail THEN n - 2 ELSE n - 1
        sid   == end >= 2 /\ (tokens[2] = kSidToken \/ Publishes(depLookup, tokens[2], "kSid"))
        head  == ~sid /\ end > 2 /\ tokens[2] = kDctToken     \* "DEP DCT" consumed
        start == IF sid \/ head THEN 3 ELSE 2
        star  == end >= start
                   /\ (tokens[end] = kStarToken \/ Publishes(arrLookup, tokens[end], "kStar"))
    IN  [depAsked |-> tokens[2] # kSidToken,
         arrAsked |-> end >= start /\ tokens[end] # kStarToken,
         sid |-> sid, star |-> star, dep_explicit |-> sid \/ head, arr_explicit |-> tail \/ star,
         sidName  |-> IF sid /\ tokens[2] # kSidToken THEN tokens[2] ELSE "",
         starName |-> IF star /\ tokens[end] # kStarToken THEN tokens[end] ELSE "",
         middle   |-> SubSeq(tokens, start, IF star THEN end - 1 ELSE end)]

\* Totals, and the split read off the SID and STAR legs.
FinalizePhaseSplit(b, shape, stops, legs) ==
    LET nm(i)     == legs[i].distance_nm
        over(via) == MapThenSumSet(nm, {i \in DOMAIN legs : legs[i].via = <<via>>})
        total     == MapThenSumSet(nm, DOMAIN legs)
        dep       == over(kSidToken)
        arr       == over(kStarToken)
    IN  [ok |-> TRUE, points |-> stops, legs |-> FiledLegs(legs),
         route_string |-> BuildRouteString(NameOf(b, Head(stops)), legs),
         total |-> total, dep |-> dep, arr |-> arr, enroute |-> AtLeast0(total - dep - arr),
         sid |-> shape.sidName, star |-> shape.starName]

ParseError(code) ==
    [ok |-> FALSE, code |-> code, points |-> <<>>, legs |-> <<>>, route_string |-> <<>>]

\* The legs beside the airports and those in between, joined; s is the parsed middle.
Joined(b, tokens, shape, s) ==
    LET dep   == VertexByAirport(b, Head(tokens))
        arr   == VertexByAirport(b, Last(tokens))
        first == Leg(Head(tokens), NameOf(b, Head(s.points)),
                     IF shape.sid THEN <<kSidToken>> ELSE <<kDctToken>>,
                     Between(b, dep, Head(s.points)))
        last  == Leg(NameOf(b, Last(s.points)), Last(tokens),
                     IF shape.star THEN <<kStarToken>> ELSE <<kDctToken>>,
                     Between(b, Last(s.points), arr))
        straight == Leg(Head(tokens), Last(tokens), <<kDctToken>>, Between(b, dep, arr))
    IN  IF shape.middle = <<kDctToken>> /\ ~shape.sid /\ ~shape.star
          THEN FinalizePhaseSplit(b, shape, <<dep, arr>>, <<straight>>)
        ELSE IF s.failed \/ s.points = <<>> \/ s.pending # kNone
                  \/ ~shape.dep_explicit \/ ~shape.arr_explicit
          THEN ParseError("kRouteParseError")
        ELSE FinalizePhaseSplit(b, shape, <<dep>> \o s.points \o <<arr>>,
                                <<first>> \o s.legs \o <<last>>)

\* A failed lookup of the procedures that a token may name is the answer.
ParseBracketed(b, tokens, shape, depLookup, arrLookup) ==
    LET errors   == (IF shape.depAsked THEN <<depLookup.error>> ELSE <<>>)
                      \o (IF shape.arrAsked THEN <<arrLookup.error>> ELSE <<>>)
        failures == SelectSeq(errors, LAMBDA e : e # "none")
    IN  IF failures # <<>> THEN ParseError(Head(failures))
        ELSE Joined(b, tokens, shape,
                    ParseMiddle(b, shape.middle, VertexByAirport(b, Head(tokens))))

ParseRoute(b, tokens, depLookup, arrLookup) ==
    IF Len(tokens) < 3 \/ VertexByAirport(b, Head(tokens)) = kNoVertex
                       \/ VertexByAirport(b, Last(tokens)) = kNoVertex
      THEN ParseError("kRouteParseError")
      ELSE ParseBracketed(b, tokens, Shape(tokens, depLookup, arrLookup), depLookup, arrLookup)
=============================================================================

--------------------------- MODULE RouteAssembler ---------------------------
(***************************************************************************)
(* From a path of the search and the plans of its two ends to the route    *)
(* that is reported: points, legs, the filed string, the procedures that   *)
(* could be flown, and the distance split by phase.  A leg's via is the    *)
(* sequence of its designators; a filed string is its tokens.              *)
(***************************************************************************)
EXTENDS EndpointPlanner

kSidToken  == "SID"
kStarToken == "STAR"

(***************************************************************************)
(* The filed string.                                                       *)
(***************************************************************************)
IsDirect(leg) == leg.via = <<kDctToken>> \/ SplitDesignators(leg.via) = <<>>

\* The designators of leg i that legs i..j all have.
Running(legs, i, j) ==
    SelectSeq(SplitDesignators(legs[i].via),
              LAMBDA d : \A k \in i..j : Contains(SplitDesignators(legs[k].via), d))

\* The last leg of the group that starts at i.
GroupEnd(legs, i) ==
    Max({j \in i..Len(legs) :
            \A k \in (i + 1)..j : legs[k].via # <<kDctToken>> /\ Running(legs, i, k) # <<>>})

\* The groups: runs of legs that share an airway, and single direct legs.
Groups(legs) ==
    LET from[i \in 1..(Len(legs) + 1)] ==
          IF i > Len(legs) THEN <<>>
          ELSE LET j == IF IsDirect(legs[i]) THEN i ELSE GroupEnd(legs, i)
               IN  <<[first |-> i, last |-> j]>> \o from[j + 1]
    IN  from[1]

Chosen(legs, g) == IF IsDirect(legs[g.first]) THEN kDctToken
                   ELSE Head(Running(legs, g.first, g.last))

BuildRouteString(firstPoint, legs) ==
    LET groups == Groups(legs)
    IN  <<firstPoint>> \o FlattenSeq([k \in DOMAIN groups |->
            <<Chosen(legs, groups[k]), legs[groups[k].last].to>>])

\* The legs once filed: the one designator chosen, and what else the leg is called.
FiledLegs(legs) ==
    LET groups == Groups(legs)
        filed(leg, via, all) ==
          [leg EXCEPT !.via = IF IsDirect(leg) THEN @ ELSE <<via>>,
                      !.concurrent = IF IsDirect(leg) \/ Len(all) <= 1 THEN <<>> ELSE all]
    IN  FlattenSeq([k \in DOMAIN groups |->
            [i \in 1..(groups[k].last - groups[k].first + 1) |->
                LET leg == legs[groups[k].first + i - 1]
                IN  filed(leg, Chosen(legs, groups[k]), SplitDesignators(leg.via))]])

(***************************************************************************)
(* One route.                                                              *)
(***************************************************************************)
Leg(from, to, via, nm) ==
    [from |-> from, to |-> to, via |-> via, distance_nm |-> nm, concurrent |-> <<>>]

NameOf(b, v) == b.idents[v].ident
AtLeast0(x)  == IF x < 0 THEN 0 ELSE x

NoConnection == [fix |-> kNoVertex, seed |-> 0, bearing |-> kNoBearing, approach |-> kNoBearing,
                 splice |-> kNoVertex, splice_leg |-> 0, procedures |-> <<>>]

FindConnection(plan, fix) ==
    LET i == SelectInSeq(plan.connections, LAMBDA c : c.fix = fix)
    IN  IF i = 0 THEN NoConnection ELSE plan.connections[i]

\* The procedure's own distance, without the direct splice to its gate.
BodyNm(c) == IF c.splice # kNoVertex THEN AtLeast0(c.seed - c.splice_leg) ELSE c.seed

DepartureLegs(b, apt, c, fix, sid) ==
    IF c.splice # kNoVertex
      THEN <<Leg(apt, NameOf(b, c.splice), <<kSidToken>>, BodyNm(c)),
             Leg(NameOf(b, c.splice), NameOf(b, fix), <<kDctToken>>, c.splice_leg)>>
      ELSE <<Leg(apt, NameOf(b, fix), IF sid = "" THEN <<kDctToken>> ELSE <<kSidToken>>, c.seed)>>

EnrouteLegs(b, path, options) ==
    [i \in 1..(Len(path) - 1) |->
        LET e == SelectEdge(options, path[i], path[i + 1])
        IN  Leg(NameOf(b, path[i]), NameOf(b, path[i + 1]), AirwayName(b, e.airway_id),
                e.distance_nm)]

ArrivalLegs(b, apt, c, fix, star) ==
    IF c.splice # kNoVertex
      THEN <<Leg(NameOf(b, fix), NameOf(b, c.splice), <<kDctToken>>, c.splice_leg),
             Leg(NameOf(b, c.splice), apt, <<kStarToken>>, BodyNm(c))>>
      ELSE <<Leg(NameOf(b, fix), apt, IF star = "" THEN <<kDctToken>> ELSE <<kStarToken>>, c.seed)>>

SpliceFix(c) == IF c.splice # kNoVertex THEN <<c.splice>> ELSE <<>>

MakeRoute(b, path, dep, arr, sid, star, options) ==
    LET from   == FindConnection(dep, Head(path.vertices))
        to     == FindConnection(arr, Last(path.vertices))
        stops  == <<VertexByAirport(b, dep.airport)>> \o SpliceFix(from) \o path.vertices
                    \o SpliceFix(to) \o <<VertexByAirport(b, arr.airport)>>
        legs   == DepartureLegs(b, dep.airport, from, Head(path.vertices), sid)
                    \o EnrouteLegs(b, path.vertices, options)
                    \o ArrivalLegs(b, arr.airport, to, Last(path.vertices), star)
    IN  [points |-> stops, legs |-> FiledLegs(legs),
         route_string |-> BuildRouteString(dep.airport, legs),
         total |-> path.distance_nm, dep |-> BodyNm(from), arr |-> BodyNm(to),
         enroute |-> AtLeast0(path.distance_nm - BodyNm(from) - BodyNm(to)),
         sid |-> sid, star |-> star]

(***************************************************************************)
(* Procedures and kinds.                                                   *)
(***************************************************************************)
\* The first ref that is (or is not) an approach names the route; all are options.
Refs(plan, fix, approach) ==
    SelectSeq(FindConnection(plan, fix).procedures,
              LAMBDA ref : (ref.type = "kApproach") <=> approach)

SelectProcedures(plan, fix) ==
    LET refs == Refs(plan, fix, FALSE)
    IN  [name    |-> IF refs = <<>> THEN "" ELSE Head(refs).name,
         runway  |-> IF refs = <<>> THEN "" ELSE Head(refs).runway,
         options |-> refs]

SelectApproachProcedures(plan, fix) ==
    LET refs == Refs(plan, fix, TRUE)
    IN  [name    |-> IF refs = <<>> THEN "" ELSE Head(refs).name,
         iaf     |-> IF refs = <<>> THEN "" ELSE Head(refs).iaf,
         runway  |-> IF refs = <<>> THEN "" ELSE Head(refs).runway,
         bearing |-> FindConnection(plan, fix).approach,
         options |-> refs]

ConnectionKindOf(plan) ==
    CASE plan.used_approach -> "kTerminalTransition"
      [] ~plan.used_approach /\ plan.used_procedures -> "kProcedure"
      [] ~plan.used_approach /\ ~plan.used_procedures /\ plan.has_procedures -> "kRadarVectors"
      [] ~plan.used_approach /\ ~plan.used_procedures /\ ~plan.has_procedures -> "kDirect"

ArrivalKindForFix(arr, fix) ==
    LET c == FindConnection(arr, fix)
    IN  IF c.procedures = <<>> THEN ConnectionKindOf(arr)
        ELSE IF IsApproachFront(c) THEN "kTerminalTransition" ELSE "kProcedure"

\* Mutant: the preference is taken off every route of a mixed pool.
StrippedAlways(route, soft, kind) ==
    IF soft
      THEN LET total == AtLeast0(route.total - kProcedurePreferNm)
           IN  [route EXCEPT !.total = total, !.enroute = AtLeast0(total - route.dep - route.arr)]
      ELSE route

\* The preference an approach paid in the search is no distance flown.
Stripped(route, soft, kind) ==
    IF soft /\ kind = "kTerminalTransition"
      THEN LET total == AtLeast0(route.total - kProcedurePreferNm)
           IN  [route EXCEPT !.total = total, !.enroute = AtLeast0(total - route.dep - route.arr)]
      ELSE route

\* The route, how each end attaches, and the procedures offered for it.
Assemble(b, path, dep, arr, options) ==
    LET fix   == Last(path.vertices)
        kind  == ArrivalKindForFix(arr, fix)
        sid   == SelectProcedures(dep, Head(path.vertices))
        apch  == SelectApproachProcedures(arr, fix)
        star  == IF kind = "kTerminalTransition" THEN [name |-> "", runway |-> apch.runway,
                                                       options |-> <<>>]
                 ELSE SelectProcedures(arr, fix)
    IN  [route |-> Stripped(MakeRoute(b, path, dep, arr, sid.name, star.name, options),
                            arr.soft_prefer_star, kind),
         dep_kind |-> ConnectionKindOf(dep), arr_kind |-> kind, sid |-> sid, star |-> star,
         approach |-> IF kind = "kTerminalTransition" THEN apch ELSE [apch EXCEPT !.name = ""]]
=============================================================================

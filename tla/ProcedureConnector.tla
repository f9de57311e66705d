------------------------- MODULE ProcedureConnector -------------------------
(***************************************************************************)
(* Where an airport's published procedures hand off to the airway network. *)
(* A record's definite fixes that resolve to vertices are its track; an    *)
(* offer is one way to fly between the runway and a network fix, with the  *)
(* distance flown (the seed), the heading at the fix, the off-network gate *)
(* spliced in (or none) and the procedure.  Offers at one fix fold into    *)
(* one connection that keeps the shortest.                                 *)
(***************************************************************************)
EXTENDS GraphBuilder

CONSTANT kSpliceProxyK      \* proxies per off-network gate (5 in the code)

kApproachProxyK == kSpliceProxyK

(***************************************************************************)
(* Matching and resolving.                                                 *)
(***************************************************************************)
\* A selector names a procedure, and perhaps one of its transitions.
NoSelector == [name |-> "", dotted |-> FALSE, transition |-> ""]

RunwayMatches(p, runway) == runway = "" \/ p.runway = "" \/ p.runway = runway

NameMatches(p, sel) ==
    \/ sel = NoSelector
    \/ p.name = sel.name /\ (sel.dotted => p.transition = sel.transition)

MakeRef(p) ==
    [type |-> p.type, name |-> p.name, transition |-> p.transition, runway |-> p.runway,
     iaf |-> ""]

MakeApproachRef(p, iaf) == [MakeRef(p) EXCEPT !.iaf = iaf]

TerminatesAtFix(term) == term \in {"TF", "IF", "DF", "CF", "AF", "RF", "HF"}

FixIsDefinite(leg) == TerminatesAtFix(leg.path_term) /\ leg.fix.ident # ""

\* A published position decides; without one the first point of that name does.
ResolveFix(b, leg) ==
    IF leg.fix.ident = "" THEN kNoVertex
    ELSE IF leg.hint # NoHint THEN VertexNear(b, leg.fix, leg.hint, kFixHintToleranceNm)
    ELSE VertexByIdent(b, leg.fix)

LegVertex(b, leg) == IF FixIsDefinite(leg) THEN ResolveFix(b, leg) ELSE kNoVertex

(***************************************************************************)
(* The track of a record, and distances along it.                          *)
(***************************************************************************)
\* The legs that end at a vertex, in order.
Track(b, p) ==
    SelectSeq([i \in DOMAIN p.legs |-> [leg |-> i, v |-> LegVertex(b, p.legs[i])]],
              LAMBDA t : t.v # kNoVertex)

\* From one track fix to the next: what the legs in between publish, if anything.
SpanNm(b, p, s, t) ==
    LET published(m) == p.legs[m].distance_nm
        pending      == MapThenSumSet(published, (s.leg + 1)..(t.leg - 1))
    IN  IF pending > 0 THEN pending ELSE DistanceTo[b.coords[s.v]][b.coords[t.v]]

AlongNm(b, p, track, i, j) ==
    LET span(k) == SpanNm(b, p, track[k], track[k + 1])
    IN  MapThenSumSet(span, i..(j - 1))

\* The record's last leg that names a definite fix (0: none).
LastFixBearingLeg(p) == SelectLastInSeq(p.legs, FixIsDefinite)

\* The positions on the track where the record hands off to the network.
Gates(b, p, track, departure) ==
    {i \in DOMAIN track :
        IF departure
          THEN track[i].v \in b.outbound /\ track[i].leg = LastFixBearingLeg(p)
          ELSE track[i].v \in b.inbound /\ p.legs[track[i].leg].path_term = "IF"}

NoWalk == [found |-> FALSE, nm |-> 0, end |-> kNoVertex, next |-> kNoVertex]

\* Along a track from a start vertex (or its first fix) to the missed approach point or
\* the end.
WalkTrack(b, p, track, start, stopAtMapt) ==
    LET first == IF start = kNoVertex THEN 1 ELSE SelectInSeq(track, LAMBDA t : t.v = start)
        mapts == {i \in first..Len(track) : stopAtMapt /\ p.legs[track[i].leg].is_mapt}
        end   == IF mapts = {} THEN Len(track) ELSE Min(mapts)
        ended == first <= Len(track) /\ (start = kNoVertex \/ end > first \/ mapts # {})
    IN  IF first = 0
          THEN NoWalk
          ELSE [found |-> TRUE,
                nm    |-> AlongNm(b, p, track, first, end),
                end   |-> IF ended THEN track[end].v ELSE kNoVertex,
                next  |-> IF end > first THEN track[first + 1].v ELSE kNoVertex]

WalkApproachSegment(b, p, start, stopAtMapt) ==
    WalkTrack(b, p, Track(b, p), start, stopAtMapt)

Between(b, u, w) == DistanceTo[b.coords[u]][b.coords[w]]
Heading(b, u, w) == BearingTo[b.coords[u]][b.coords[w]]

(***************************************************************************)
(* Offers.                                                                 *)
(***************************************************************************)
Offer(fix, seed, bearing, ref) ==
    [fix |-> fix, seed |-> seed, bearing |-> bearing, approach |-> kNoBearing,
     splice |-> kNoVertex, splice_leg |-> 0, ref |-> ref]

Of(cifp, type, runway, sel) ==
    SelectSeq(cifp.procedures,
              LAMBDA p : p.type = type /\ RunwayMatches(p, runway) /\ NameMatches(p, sel))

\* One record's published gates on the network, in track order, measured along the track
\* with a straight line between the airport and the track's near end.
GateOffers(b, p, track, airport, departure) ==
    LET n     == Len(track)
        gates == Ascending(Gates(b, p, track, departure))
        at(i) ==
          IF departure
            THEN Offer(track[i].v,
                       Between(b, airport, track[1].v) + AlongNm(b, p, track, 1, i),
                       Heading(b, IF i = 1 THEN airport ELSE track[i - 1].v, track[i].v),
                       MakeRef(p))
            ELSE Offer(track[i].v,
                       AlongNm(b, p, track, i, n) + Between(b, track[n].v, airport),
                       Heading(b, track[i].v, IF i = n THEN airport ELSE track[i + 1].v),
                       MakeRef(p))
    IN  [k \in DOMAIN gates |-> at(gates[k])]

CollectSide(cifp, departure, airport, b, runway) ==
    LET records == Of(cifp, IF departure THEN "kSid" ELSE "kStar", runway, NoSelector)
    IN  FlattenSeq([k \in DOMAIN records |->
            GateOffers(b, records[k], Track(b, records[k]), airport, departure)])

\* The legs of a record that start it at an initial fix with a vertex.
InitialFixes(b, p) ==
    SelectSeq(p.legs, LAMBDA leg : leg.path_term = "IF" /\ LegVertex(b, leg) # kNoVertex)

\* The transition's final segment: the record of that name without a transition.
FindApproachFinal(cifp, name) ==
    SelectInSeq(cifp.procedures,
                LAMBDA p : p.type = "kApproach" /\ p.name = name /\ p.transition = "")

\* From a gate along its record, on along the final segment, and straight to the airport.
BodyAndStub(b, gate, airport, walk, final) ==
    LET end == IF final.end # kNoVertex THEN final.end
               ELSE IF walk.end # kNoVertex THEN walk.end ELSE gate
    IN  IF ~walk.found
          THEN [nm |-> Between(b, airport, gate), bearing |-> kNoBearing]
          ELSE [nm      |-> walk.nm + (IF final.end # kNoVertex THEN final.nm ELSE 0)
                              + Between(b, end, airport),
                bearing |-> Heading(b, gate, IF walk.next # kNoVertex THEN walk.next ELSE airport)]

\* A transition continues on its final segment, to the missed approach point.
ApproachBodyAndStub(p, gate, cifp, airport, b) ==
    LET isFinal == p.transition = ""
        f       == FindApproachFinal(cifp, p.name)
    IN  BodyAndStub(b, gate, airport, WalkApproachSegment(b, p, gate, isFinal),
                    IF isFinal \/ f = 0 THEN NoWalk
                    ELSE WalkApproachSegment(b, cifp.procedures[f], kNoVertex, TRUE))

StarBodyAndStubNm(p, gate, airport, b) ==
    BodyAndStub(b, gate, airport, WalkApproachSegment(b, p, gate, FALSE), NoWalk).nm

SidBodyToExitNm(p, exit, airport, b) ==
    LET flown(track, walk) == IF walk.end = kNoVertex THEN Between(b, airport, exit)
                              ELSE Between(b, airport, track[1].v) + walk.nm
    IN  flown(Track(b, p), WalkApproachSegment(b, p, kNoVertex, FALSE))

\* The network fixes that stand in for an off-network gate.
Proxies(b, gate, k, isInbound) ==
    SelectSeq(NearestOnNetwork(b, b.coords[gate], k, isInbound), LAMBDA f : f # gate)

\* A direct leg between each proxy and the gate, then the body.
SpliceOffers(b, ref, gate, body, departure, proxies) ==
    [i \in DOMAIN proxies |->
        LET f   == proxies[i]
            leg == Between(b, f, gate)
        IN  [Offer(f, leg + body, IF departure THEN Heading(b, gate, f) ELSE Heading(b, f, gate), ref)
               EXCEPT !.splice = gate, !.splice_leg = leg]]

CollectStarSpliceArrivals(cifp, airport, b, runway, sel, avoid) ==
    LET records     == Of(cifp, "kStar", runway, sel)
        at(p, gate) == IF gate \in b.inbound \cup avoid THEN <<>>
                       ELSE SpliceOffers(b, MakeRef(p), gate, StarBodyAndStubNm(p, gate, airport, b),
                                         FALSE, Proxies(b, gate, kSpliceProxyK, TRUE))
        each(p, ifs) == FlattenSeq([j \in DOMAIN ifs |-> at(p, LegVertex(b, ifs[j]))])
    IN  FlattenSeq([k \in DOMAIN records |-> each(records[k], InitialFixes(b, records[k]))])

CollectSidSpliceDepartures(cifp, airport, b, runway, sel, avoid) ==
    LET records     == Of(cifp, "kSid", runway, sel)
        exit(p)     == IF LastFixBearingLeg(p) = 0 THEN kNoVertex
                       ELSE ResolveFix(b, p.legs[LastFixBearingLeg(p)])
        at(p, gate) == IF gate \in {kNoVertex} \cup b.outbound \cup avoid THEN <<>>
                       ELSE SpliceOffers(b, MakeRef(p), gate, SidBodyToExitNm(p, gate, airport, b),
                                         TRUE, Proxies(b, gate, kSpliceProxyK, FALSE))
    IN  FlattenSeq([k \in DOMAIN records |-> at(records[k], exit(records[k]))])

\* An initial approach fix on the network is a goal itself; another has proxies.
ApproachOffers(b, p, leg, iaf, rest, proxies) ==
    LET to(f, seed, bearing) ==
          [Offer(f, seed, bearing, MakeApproachRef(p, leg.fix.ident)) EXCEPT !.approach = rest.bearing]
    IN  IF iaf \in b.inbound THEN <<to(iaf, rest.nm, rest.bearing)>>
        ELSE [i \in DOMAIN proxies |->
                to(proxies[i], Between(b, proxies[i], iaf) + rest.nm, Heading(b, proxies[i], iaf))]

CollectApproachArrivals(cifp, airport, b, runway) ==
    LET records == Of(cifp, "kApproach", runway, NoSelector)
        at(p, leg, iaf) ==
          ApproachOffers(b, p, leg, iaf, ApproachBodyAndStub(p, iaf, cifp, airport, b),
                         Proxies(b, iaf, kApproachProxyK, TRUE))
        each(p, ifs) == FlattenSeq([j \in DOMAIN ifs |-> at(p, ifs[j], LegVertex(b, ifs[j]))])
    IN  FlattenSeq([k \in DOMAIN records |-> each(records[k], InitialFixes(b, records[k]))])

(***************************************************************************)
(* Connections.                                                            *)
(***************************************************************************)
NewConnection(o) ==
    [fix |-> o.fix, seed |-> o.seed, bearing |-> o.bearing, approach |-> o.approach,
     splice |-> o.splice, splice_leg |-> o.splice_leg, procedures |-> <<o.ref>>]

\* Exchange the first and the i-th.
SwapFront(s, i) == [s EXCEPT ![1] = s[i], ![i] = s[1]]

\* Take the winner's figures.
Repriced(c, o) ==
    [c EXCEPT !.seed = o.seed, !.bearing = o.bearing, !.approach = o.approach,
              !.splice = o.splice, !.splice_leg = o.splice_leg]

\* Fold an offer into the connection at its fix; a strictly shorter one wins.
Accumulate(conns, o) ==
    LET i == SelectInSeq(conns, LAMBDA c : c.fix = o.fix)
        c == [conns[i] EXCEPT !.procedures = Append(@, o.ref)]
    IN  IF i = 0 THEN Append(conns, NewConnection(o))
        ELSE [conns EXCEPT ![i] =
                IF o.seed < c.seed
                  THEN [Repriced(c, o) EXCEPT !.procedures = SwapFront(@, Len(@))]
                  ELSE c]

\* By seed, then by fix.
Finalize(conns) ==
    SortSeq(conns, LAMBDA c, d : c.seed < d.seed \/ (c.seed = d.seed /\ c.fix < d.fix))

Connections(offers) == Finalize(FoldLeft(Accumulate, <<>>, offers))

BuildSide(cifp, departure, airport, b, runway) ==
    Connections(CollectSide(cifp, departure, airport, b, runway))

BuildApproachArrival(cifp, airport, b, runway) ==
    Connections(CollectApproachArrivals(cifp, airport, b, runway))

BuildStarSpliceArrival(cifp, airport, b, runway, sel, avoid) ==
    Connections(CollectStarSpliceArrivals(cifp, airport, b, runway, sel, avoid))

BuildSidSpliceDeparture(cifp, airport, b, runway, sel, avoid) ==
    Connections(CollectSidSpliceDepartures(cifp, airport, b, runway, sel, avoid))

\* Straight lines to the nearest network fixes, in that order, without procedures.
BuildDctFallback(airport, b, count, arrival) ==
    LET nearest == NearestOnNetwork(b, b.coords[airport], count, arrival)
    IN  [i \in DOMAIN nearest |->
            [fix |-> nearest[i], seed |-> Between(b, airport, nearest[i]),
             bearing |-> IF arrival THEN Heading(b, nearest[i], airport)
                         ELSE Heading(b, airport, nearest[i]),
             approach |-> kNoBearing, splice |-> kNoVertex, splice_leg |-> 0,
             procedures |-> <<>>]]
=============================================================================

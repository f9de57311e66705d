--------------------------- MODULE EndpointPlanner ---------------------------
(***************************************************************************)
(* How one end of a request attaches to the network: its procedures'       *)
(* gates, then splices to off-network gates, for an arrival pooled with    *)
(* the approaches, and at last direct lines.  A plan also says why there   *)
(* is none.                                                                *)
(***************************************************************************)
EXTENDS ProcedureConnector, Constraints

CONSTANTS
    Prefixed,               \* the runway names that begin with RW
    kProcedurePreferNm,     \* what an approach pays beside a STAR (15 in the code)
    kDctFallbackCount       \* direct links per airport (5 in the code)

EmptyPlan ==
    [error |-> "none", airport |-> "", connections |-> <<>>, used_procedures |-> FALSE,
     used_approach |-> FALSE, has_procedures |-> FALSE, named_procedure_unmatched |-> FALSE,
     unknown_runway |-> FALSE, runway |-> "", soft_prefer_star |-> FALSE]

RefMatchesSelector(ref, sel) ==
    ref.name = sel.name /\ (sel.dotted => ref.transition = sel.transition)

\* Only the refs that match, and only the connections that keep one.
FilterConnectionsByName(conns, sel) ==
    LET kept == [i \in DOMAIN conns |->
                   [conns[i] EXCEPT !.procedures =
                      SelectSeq(@, LAMBDA ref : RefMatchesSelector(ref, sel))]]
    IN  SelectSeq(kept, LAMBDA c : c.procedures # <<>>)

NormalizeRunway(runway) ==
    LET up == ToUpper(runway)
    IN  IF up = "" \/ up \in Prefixed THEN up ELSE "RW" \o up

AirportHasRunway(cifp, runway) ==
    \/ Contains(cifp.runways, runway)
    \/ \E i \in DOMAIN cifp.procedures : cifp.procedures[i].runway = runway

IsApproachFront(c) == c.procedures # <<>> /\ Head(c.procedures).type = "kApproach"

\* Mutant: the preference is charged to whatever the pool holds.
EffectiveSeedNmAll(c, soft) == c.seed + (IF soft THEN kProcedurePreferNm ELSE 0)

\* The seed the ranking and the search see.
EffectiveSeedNm(c, soft) ==
    c.seed + (IF soft /\ IsApproachFront(c) THEN kProcedurePreferNm ELSE 0)

\* Fold a connection into the one at its fix; the ranking is by effective seed.
MergeConnection(conns, c, soft) ==
    LET i  == SelectInSeq(conns, LAMBDA d : d.fix = c.fix)
        n  == Len(conns[i].procedures)
        d  == [conns[i] EXCEPT !.procedures = @ \o c.procedures]
    IN  IF i = 0 THEN Append(conns, c)
        ELSE [conns EXCEPT ![i] =
                IF EffectiveSeedNm(c, soft) < EffectiveSeedNm(d, soft)
                  THEN [Repriced(d, c) EXCEPT !.procedures =
                          IF c.procedures = <<>> THEN @ ELSE SwapFront(@, n + 1)]
                  ELSE d]

MergeAll(dst, src, soft) == FoldLeft(LAMBDA acc, c : MergeConnection(acc, c, soft), dst, src)

SortConnectionsBySeed(conns, soft) ==
    SortSeq(conns, LAMBDA c, d :
        \/ EffectiveSeedNm(c, soft) < EffectiveSeedNm(d, soft)
        \/ EffectiveSeedNm(c, soft) = EffectiveSeedNm(d, soft) /\ c.fix < d.fix)

AnyOfType(conns, type) ==
    \E i \in DOMAIN conns : \E j \in DOMAIN conns[i].procedures :
        conns[i].procedures[j].type = type

ToSearchEndpoints(conns, soft) ==
    [i \in DOMAIN conns |-> [vertex |-> conns[i].fix, cost |-> EffectiveSeedNm(conns[i], soft),
                             bearing |-> conns[i].bearing]]

(***************************************************************************)
(* Plan.  The lookup of the airport's procedures may fail ("kCacheCorrupt") *)
(* or find that none are published.                                        *)
(***************************************************************************)
HasProcedures(cifp, departure) ==
    \E i \in DOMAIN cifp.procedures :
        cifp.procedures[i].type \in (IF departure THEN {"kSid"} ELSE {"kStar", "kApproach"})

\* A named procedure: its on-network gates, or else its splices.
PlanNamed(plan, filtered, splices) ==
    LET conns == IF filtered # <<>> THEN filtered ELSE splices
    IN  IF conns = <<>> THEN [plan EXCEPT !.named_procedure_unmatched = TRUE]
        ELSE [plan EXCEPT !.connections = conns, !.used_procedures = TRUE]

\* No gate on the network: STAR splices and approaches in one pool.
PlanPool(plan, soft, pool) ==
    LET star == AnyOfType(pool, "kStar")
        apch == AnyOfType(pool, "kApproach")
    IN  [plan EXCEPT !.connections = pool, !.used_procedures = star /\ ~apch,
                     !.used_approach = apch /\ ~star, !.soft_prefer_star = soft]

PlanPooled(plan, stars, approaches) ==
    LET soft == stars # <<>> /\ approaches # <<>>
    IN  PlanPool(plan, soft, SortConnectionsBySeed(MergeAll(stars, approaches, soft), soft))

\* The ways of one side: its gates on the network, its splices and its approaches.
PlanSide(plan, departure, sel, gates, splices, approaches) ==
    CASE sel # NoSelector -> PlanNamed(plan, FilterConnectionsByName(gates, sel), splices)
      [] sel = NoSelector /\ gates # <<>> ->
           [plan EXCEPT !.connections = gates, !.used_procedures = TRUE]
      [] sel = NoSelector /\ gates = <<>> /\ departure ->
           [plan EXCEPT !.connections = splices, !.used_procedures = splices # <<>>]
      [] sel = NoSelector /\ gates = <<>> /\ ~departure -> PlanPooled(plan, splices, approaches)

PlanWith(plan, cifp, airport, b, departure, sel, avoid) ==
    PlanSide(plan, departure, sel,
             BuildSide(cifp, departure, airport, b, plan.runway),
             IF departure
               THEN BuildSidSpliceDeparture(cifp, airport, b, plan.runway, sel, avoid)
               ELSE BuildStarSpliceArrival(cifp, airport, b, plan.runway, sel, avoid),
             BuildApproachArrival(cifp, airport, b, plan.runway))

\* Nothing found: direct lines.
OrDirect(plan, airport, b, departure) ==
    IF plan.connections # <<>> \/ plan.named_procedure_unmatched THEN plan
    ELSE [plan EXCEPT !.connections =
            BuildDctFallback(airport, b, kDctFallbackCount, ~departure)]

UpperSelector(sel) ==
    [sel EXCEPT !.name = ToUpper(@), !.transition = ToUpper(@)]

\* lookup is [error, published, data]; ask is the end of the request planned for.
Plan(b, ask, departure, lookup, avoid) ==
    LET airport == VertexByAirport(b, ToUpper(ask.airport))
        sel     == UpperSelector(ask.procedure)
        rwy     == NormalizeRunway(ask.runway)
        plan    == [EmptyPlan EXCEPT !.airport = ToUpper(ask.airport)]
        known   == [plan EXCEPT !.has_procedures = HasProcedures(lookup.data, departure),
                                !.runway = rwy]
    IN  CASE airport = kNoVertex -> EmptyPlan
          [] airport # kNoVertex /\ lookup.error # "none" ->
               [EmptyPlan EXCEPT !.error = lookup.error]
          [] airport # kNoVertex /\ lookup.error = "none" /\ ~lookup.published ->
               IF sel # NoSelector THEN [plan EXCEPT !.named_procedure_unmatched = TRUE]
               ELSE OrDirect(plan, airport, b, departure)
          [] airport # kNoVertex /\ lookup.error = "none" /\ lookup.published ->
               IF rwy # "" /\ ~AirportHasRunway(lookup.data, rwy)
                 THEN [known EXCEPT !.unknown_runway = TRUE]
                 ELSE OrDirect(PlanWith(known, lookup.data, airport, b, departure, sel, avoid),
                               airport, b, departure)
=============================================================================

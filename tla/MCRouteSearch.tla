--------------------------- MODULE MCRouteSearch ---------------------------
(***************************************************************************)
(* Questions over the small network: calls of the search functions with    *)
(* the turn penalty off and on, and requests to FindRoutes.                *)
(***************************************************************************)
EXTENDS RouteSearch, MCNetwork

NothingRefused == [constraints |-> "none", departure |-> "none", arrival |-> "none"]

Library(sources, goals, forced, k, turn, bans) ==
    [api |-> "library", sources |-> sources, goals |-> goals, forced |-> forced, k |-> k,
     turn |-> turn, bans |-> bans, avoid |-> {}, refused |-> NothingRefused]

Asked(sources, goals, forced, k, avoid) ==
    [api |-> "FindRoutes", sources |-> sources, goals |-> goals, forced |-> forced, k |-> k,
     turn |-> TRUE, bans |-> NoBans, avoid |-> avoid, refused |-> NothingRefused]

Refused(which, code) ==
    [Asked(<<Fix(0, 0)>>, <<Fix(3, 0)>>, <<>>, 1, {})
        EXCEPT !.refused = [NothingRefused EXCEPT ![which] = code]]

SidSources == <<Procedure(0, 5, 90), Procedure(2, 8, 270)>>
StarGoals  == <<Procedure(3, 4, 270), Procedure(1, 20, 90)>>

\* One search: duplicate and absent sources, a barred vertex, a barred step, none at all.
Single == {
    Library(<<Fix(0, 7), Fix(kNoVertex, 0), Fix(0, 2)>>, <<Fix(3, 0), Fix(4, 1)>>, <<>>, 1, FALSE,
            NoBans),
    Library(SidSources, StarGoals, <<>>, 1, FALSE, [nodes |-> {4}, edges |-> {<<2, 1>>}]),
    Library(<<>>, StarGoals, <<>>, 1, FALSE, NoBans)}

\* Several: one pair, several pairs, a source that is a goal, more than there are, none.
Several == {
    Library(<<Fix(0, 0)>>, <<Fix(3, 0)>>, <<>>, 4, FALSE, NoBans),
    Library(SidSources, StarGoals, <<>>, 5, FALSE, NoBans),
    Library(<<Fix(2, 0)>>, <<Fix(2, 3), Fix(1, 0)>>, <<>>, 4, FALSE, NoBans),
    Library(SidSources, StarGoals, <<>>, 3, TRUE, NoBans),
    Library(SidSources, StarGoals, <<>>, 0, FALSE, NoBans)}

\* Via points: a budget of six of nine combinations, two via points, a clash.
Via == {
    Library(<<Fix(0, 0)>>, StarGoals, <<2>>, 3, FALSE, NoBans),
    Library(<<Fix(0, 0)>>, <<Fix(3, 0)>>, <<1, 2>>, 2, FALSE, NoBans),
    Library(<<Fix(0, 0)>>, <<Fix(3, 0)>>, <<2>>, 1, TRUE, NoBans),
    Library(<<Fix(0, 0)>>, <<Fix(4, 0)>>, <<3>>, 1, TRUE, NoBans),
    Library(<<Procedure(0, 5, 90)>>, StarGoals, <<2>>, 3, TRUE, NoBans),
    Library(SidSources, <<Procedure(3, 4, 270), Procedure(4, 2, 0)>>, <<1>>, 3, TRUE, NoBans),
    Library(<<Fix(0, 0)>>, <<Fix(3, 0)>>, <<2>>, 0, TRUE, NoBans)}

\* Requests: avoided waypoints on the way, among the connection fixes and among the
\* via points; unknown, repeated, too many and unconnected via points.
Requests == {
    Asked(SidSources, StarGoals, <<>>, 2, {2}),
    Asked(SidSources, StarGoals, <<>>, 1, {1}),
    Asked(<<Fix(0, 0)>>, StarGoals, <<2>>, 2, {1}),
    Asked(SidSources, StarGoals, <<>>, 0, {4}),
    Asked(SidSources, StarGoals, <<>>, 1, {1, 3}),
    Asked(SidSources, StarGoals, <<2>>, 1, {2}),
    Asked(SidSources, StarGoals, <<kNoVertex>>, 1, {}),
    Asked(SidSources, StarGoals, <<2, 2>>, 1, {}),
    Asked(SidSources, StarGoals, <<1, 2, 4>>, 1, {}),
    Asked(SidSources, StarGoals, <<0>>, 1, {}),
    Asked(<<>>, StarGoals, <<>>, 1, {}),
    Refused("constraints", "kRouteParseError"),
    Refused("departure", "kProcedureNotFound"),
    Refused("arrival", "kAirportNotFound")}

MCQuestions == Single \cup Several \cup Via \cup Requests

\* The request whose third and fourth routes come out of order.
OrderQuestions == {Asked(SidSources, StarGoals, <<>>, 4, {})}
=============================================================================

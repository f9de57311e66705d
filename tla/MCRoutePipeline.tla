--------------------------- MODULE MCRoutePipeline ---------------------------
(***************************************************************************)
(* Fifteen points around the antimeridian at 77N to 89N, the great-circle  *)
(* distances and bearings between them (whole miles and degrees), and the  *)
(* data sets, requests, strings and positions of the run.                  *)
(***************************************************************************)
EXTENDS RoutePipeline

At(lat, lon) == [lat |-> lat, lon |-> lon]

\* LOST is off the globe, TWIN stands beside the airway from ALFA to BRAVO.
Where ==
    [ALFA |-> At(780, 1780), BRAVO |-> At(785, 1795), CHAR |-> At(790, -1795),
     DELTA |-> At(785, -1780), ECHO |-> At(780, -1760), GATE |-> At(775, -1755),
     EXIT |-> At(775, 1775), IAF |-> At(772, -1750), WEST |-> At(800, -1745),
     NORTH |-> At(822, 1800), LOST |-> At(9999, 0), DEPA |-> At(770, 1770),
     ARRI |-> At(770, -1750), TWIN |-> At(783, 1790), POLE |-> At(895, -900)]

Order == <<"ALFA", "BRAVO", "CHAR", "DELTA", "ECHO", "GATE", "EXIT", "IAF", "WEST", "NORTH",
           "LOST", "DEPA", "ARRI", "TWIN", "POLE">>

\* Nm[i][j]: miles from the i-th point to the j-th.
Nm == <<
    <<0, 36, 68, 58, 75, 88, 31, 103, 148, 253, 1, 62, 109, 22, 722>>,
    <<36, 0, 33, 30, 63, 87, 65, 105, 113, 223, 1, 96, 114, 14, 691>>,
    <<68, 33, 0, 35, 74, 103, 98, 122, 82, 193, 1, 128, 133, 46, 661>>,
    <<58, 30, 35, 0, 39, 68, 83, 87, 99, 223, 1, 111, 98, 39, 690>>,
    <<75, 63, 74, 39, 0, 31, 88, 50, 122, 256, 1, 109, 62, 65, 719>>,
    <<88, 87, 103, 68, 31, 0, 91, 20, 151, 286, 1, 104, 31, 85, 749>>,
    <<31, 65, 98, 83, 88, 91, 0, 101, 177, 284, 1, 31, 104, 52, 752>>,
    <<103, 105, 122, 87, 50, 20, 101, 0, 169, 305, 1, 108, 12, 101, 766>>,
    <<148, 113, 82, 99, 122, 151, 177, 169, 0, 142, 1, 207, 181, 126, 598>>,
    <<253, 223, 193, 223, 256, 286, 284, 305, 142, 0, 1, 314, 317, 235, 469>>,
    <<1, 1, 1, 1, 1, 1, 1, 1, 1, 1, 0, 1, 1, 1, 1>>,
    <<62, 96, 128, 111, 109, 104, 31, 108, 207, 314, 1, 0, 108, 83, 783>>,
    <<109, 114, 133, 98, 62, 31, 104, 12, 181, 317, 1, 108, 0, 110, 778>>,
    <<22, 14, 46, 39, 65, 85, 52, 101, 126, 235, 1, 83, 110, 0, 704>>,
    <<722, 691, 661, 690, 719, 749, 752, 766, 598, 469, 1, 783, 778, 704, 0>>>>

\* Deg[i][j]: the bearing on leaving the i-th point for the j-th.
Deg == <<
    <<0, 30, 25, 56, 87, 106, 192, 114, 31, 3, 0, 192, 119, 33, 2>>,
    <<212, 0, 20, 88, 116, 131, 203, 135, 33, 1, 0, 200, 139, 206, 2>>,
    <<207, 201, 0, 148, 143, 149, 203, 150, 39, 358, 0, 201, 152, 203, 2>>,
    <<240, 271, 330, 0, 139, 151, 225, 152, 21, 355, 0, 217, 155, 253, 2>>,
    <<272, 300, 326, 321, 0, 167, 253, 164, 7, 352, 0, 240, 167, 288, 2>>,
    <<293, 316, 333, 333, 348, 0, 273, 159, 3, 352, 0, 256, 167, 307, 2>>,
    <<11, 21, 20, 40, 66, 86, 0, 96, 28, 4, 0, 192, 103, 20, 2>>,
    <<301, 320, 334, 335, 345, 340, 283, 0, 1, 352, 0, 267, 180, 313, 2>>,
    <<219, 219, 224, 205, 188, 184, 215, 182, 0, 341, 0, 213, 182, 218, 2>>,
    <<185, 181, 178, 173, 168, 168, 186, 167, 156, 0, 0, 187, 167, 182, 3>>,
    <<0, 0, 0, 0, 0, 0, 0, 0, 0, 0, 0, 0, 0, 0, 0>>,
    <<11, 18, 18, 32, 53, 69, 12, 79, 25, 4, 0, 0, 86, 17, 2>>,
    <<306, 324, 337, 338, 348, 347, 290, 0, 1, 352, 0, 273, 0, 318, 2>>,
    <<214, 26, 22, 70, 103, 122, 202, 127, 32, 1, 0, 199, 132, 0, 2>>,
    <<274, 272, 272, 270, 268, 267, 274, 267, 267, 273, 0, 275, 267, 273, 0>>>>

\* By latitude: miles to the meridian 10 r and 10 r + 5 tenths away, r = 2, 4, .. 128.
AcrossNm ==
    770 :> <<<<26, 53, 107, 213, 410, 699, 779>>, <<33, 60, 114, 219, 416, 702, 779>>>>
      @@ 772 :> <<<<26, 53, 106, 210, 404, 689, 767>>, <<33, 59, 112, 216, 410, 692, 767>>>>
      @@ 775 :> <<<<25, 51, 103, 205, 395, 673, 750>>, <<32, 58, 109, 211, 400, 675, 750>>>>
      @@ 780 :> <<<<24, 49, 99, 197, 379, 646, 720>>, <<31, 56, 105, 203, 384, 648, 720>>>>
      @@ 783 :> <<<<24, 48, 97, 192, 370, 630, 702>>, <<30, 54, 103, 198, 375, 632, 702>>>>
      @@ 785 :> <<<<23, 47, 95, 189, 363, 619, 690>>, <<29, 53, 101, 194, 368, 621, 690>>>>
      @@ 790 :> <<<<22, 45, 91, 180, 348, 592, 660>>, <<28, 51, 96, 186, 353, 595, 660>>>>
      @@ 800 :> <<<<20, 41, 83, 164, 316, 538, 600>>, <<26, 46, 88, 169, 321, 541, 600>>>>
      @@ 822 :> <<<<16, 32, 64, 128, 247, 420, 468>>, <<20, 36, 68, 132, 250, 422, 468>>>>
      @@ 895 :> <<<<1, 2, 4, 8, 15, 26, 29>>, <<1, 2, 4, 8, 16, 27, 29>>>>

Coords == {Where[n] : n \in DOMAIN Where}
Row(c) == SelectInSeq(Order, LAMBDA n : Where[n] = c)

Table(t) == [a \in Coords |-> [c \in Coords |-> t[Row(a)][Row(c)]]]

MCDistanceTo == Table(Nm)
MCBearingTo  == Table(Deg)

Doubling == <<20, 40, 80, 160, 320, 640, 900>>

\* Elsewhere the bound of the nearest meridian before.
MCAcross ==
    [lat \in DOMAIN AcrossNm |->
        [dlon \in 0..900 |->
            LET before == SelectLastInSeq(Doubling, LAMBDA r : r <= dlon)
            IN  IF before = 0 THEN 0
                ELSE AcrossNm[lat][IF dlon >= Doubling[before] + 5 THEN 2 ELSE 1][before]]]

MCToUpper(n) ==
    CASE n = "depa" -> "DEPA" [] n = "s1" -> "S1" [] n = "char" -> "CHAR" [] OTHER -> n
MCPrefixed   == {"RW09", "RW27"}
MCTooLong    == {"TOOLONGNAME"}
MCSlashed    == "DELTA/XX" :> [ident |-> "DELTA", region |-> "XX"]
                  @@ "CHAR/YY" :> [ident |-> "CHAR", region |-> "YY"]
MCStartsWith == {<<"XX", "X">>, <<"XY", "X">>, <<"XX", "XX">>, <<"XY", "XY">>}
                  \cup {<<d, p>> \in {"J1", "J2", "J3", "J4", "J5", "J6", "J7"}
                                      \X {"J", "J1", "J2", "J5"} : p \in {"J", d}}
MCHash01     == [s \in {7} |-> [t \in (0..20) \X (0..20) \X (0..7) |->
                                  (37 * t[1] + 11 * t[2] + 53 * t[3]) % 100]]

(***************************************************************************)
(* The data sets.                                                          *)
(***************************************************************************)
Key(n) == [ident |-> n, region |-> IF n \in {"ECHO", "GATE", "IAF"} THEN "XY" ELSE "XX"]

Waypoint(n) == [ident |-> Key(n), coord |-> Where[n], kind |-> "kFix"]
Fixes == <<"ALFA", "BRAVO", "CHAR", "DELTA", "ECHO", "GATE", "EXIT", "IAF", "WEST", "NORTH",
           "LOST", "POLE">>
Waypoints == [i \in DOMAIN Fixes |-> Waypoint(Fixes[i])]
Airports  == <<[ident |-> Key("DEPA"), coord |-> Where.DEPA],
               [ident |-> Key("ARRI"), coord |-> Where.ARRI]>>

Airway(name, from, to, direction) ==
    [from |-> Key(from), to |-> Key(to), from_hint |-> NoHint, to_hint |-> Where[to],
     name |-> name, direction |-> direction, level |-> "kHigh", base_fl |-> 0, top_fl |-> 0]

Band(airway, level, base, top) ==
    [airway EXCEPT !.level = level, !.base_fl = base, !.top_fl = top]

Core == <<Airway(<<"J1">>, "ALFA", "BRAVO", "kBoth"),
          Airway(<<"J1", "J2">>, "BRAVO", "CHAR", "kBoth"),
          Airway(<<"J2">>, "CHAR", "DELTA", "kForward"),
          Airway(<<"J1">>, "BRAVO", "DELTA", "kBoth"),
          Airway(<<"J2", "", "J3">>, "ECHO", "DELTA", "kBackward")>>

\* Each makes a gate of a procedure reachable by airway.
ToGate   == Airway(<<"J3">>, "ECHO", "GATE", "kForward")
FromExit == Airway(<<"J4">>, "EXIT", "ALFA", "kForward")
ToIaf    == Airway(<<"J5">>, "DELTA", "IAF", "kForward")

\* A second airway beside the first, one with a name of its own, and one whose end is
\* not where the data says.
Beside  == Airway(<<"J4">>, "BRAVO", "ALFA", "kBackward")
Farther == Airway(<<"J6">>, "WEST", "NORTH", "kBoth")
Astray  == [Airway(<<"J7">>, "ALFA", "CHAR", "kBoth") EXCEPT !.to_hint = Where.WEST]

Nav(more) == [waypoints |-> Waypoints, airports |-> Airports, airways |-> Core \o more,
              mora |-> <<>>]

\* Low and high airways side by side, and a long way round with its point midway.
Banded ==
    <<Band(Airway(<<"J1">>, "ALFA", "BRAVO", "kBoth"), "kHigh", 250, 0),
      Band(Beside, "kLow", 0, 240),
      Band(Airway(<<"J1", "J2">>, "BRAVO", "CHAR", "kBoth"), "kBoth", 0, 0),
      Airway(<<"J2">>, "CHAR", "DELTA", "kForward"),
      Band(Airway(<<"J1">>, "BRAVO", "DELTA", "kBoth"), "kHigh", 120, 330),
      Airway(<<"J2", "", "J3">>, "ECHO", "DELTA", "kBackward"),
      Airway(<<"J5">>, "ALFA", "WEST", "kForward"), Airway(<<"J5">>, "WEST", "ECHO", "kForward"),
      ToGate>>

MCGreatCircle == (Where.ALFA :> (Where.WEST :> <<At(790, -1786)>>))

\* High ground under the middle of a leg, beside the antimeridian or on the way round.
Ground == {<<>>, <<78, -180>> :> 200, <<79, -177>> :> 300 @@ <<78, -179>> :> 220,
           <<79, -176>> :> 140 @@ <<78, -177>> :> 120}

\* A second CHAR that no airway serves, on a shorter way.
Namesake == [ident |-> [ident |-> "CHAR", region |-> "YY"], coord |-> Where.IAF, kind |-> "kFix"]

\* A network far to the north, on which a damaged row has a place too.
Northern ==
    <<Airway(<<"J6">>, "WEST", "NORTH", "kBoth"), Airway(<<"J6">>, "NORTH", "POLE", "kForward"),
      [Airway(<<"J6">>, "LOST", "WEST", "kBoth") EXCEPT !.to_hint = NoHint]>>

(***************************************************************************)
(* Published procedures.                                                   *)
(***************************************************************************)
Fly(term, fix, nm) ==
    [fix |-> IF fix = "" THEN [ident |-> "", region |-> ""] ELSE Key(fix),
     hint |-> IF fix \in {"GATE", "IAF"} THEN Where[fix] ELSE NoHint,
     path_term |-> term, distance_nm |-> nm, is_mapt |-> FALSE]

Mapt(leg) == [leg EXCEPT !.is_mapt = TRUE]

Procedure(type, name, transition, runway, legs) ==
    [type |-> type, name |-> name, transition |-> transition, runway |-> runway, legs |-> legs]

\* S1 and S4 end at EXIT, S2 and S3 at ALFA; a climb without a fix measures 20 miles.
S1 == Procedure("kSid", "S1", "", "RW09", <<Fly("CA", "", 0), Fly("DF", "EXIT", 0)>>)
S2 == Procedure("kSid", "S2", "", "RW27",
                <<Fly("IF", "EXIT", 0), Fly("CA", "", 20), Fly("FA", "", 30), Fly("TF", "ALFA", 0)>>)
S3 == Procedure("kSid", "S3", "ALFA", "", <<Fly("TF", "ALFA", 0), Fly("FM", "BRAVO", 0)>>)
S4 == Procedure("kSid", "S4", "", "", <<Fly("IF", "ALFA", 0), Fly("TF", "EXIT", 0)>>)
Vectors == Procedure("kSid", "S5", "", "", <<Fly("CA", "", 0), Fly("FM", "ALFA", 0)>>)

\* The arrivals start at GATE, T3 with a long way round; P1 has a transition from IAF and a final past it.
T1 == Procedure("kStar", "T1", "", "", <<Fly("IF", "GATE", 0), Fly("TF", "IAF", 0)>>)
T2 == Procedure("kStar", "T2", "", "RW27",
                <<Fly("IF", "GATE", 0), Fly("VM", "", 30), Fly("TF", "IAF", 0)>>)
T3 == Procedure("kStar", "T3", "", "",
                <<Fly("IF", "GATE", 0), Fly("VM", "", 60), Fly("TF", "IAF", 0)>>)
P1 == Procedure("kApproach", "P1", "IAF", "RW27", <<Fly("IF", "IAF", 0), Fly("TF", "GATE", 0)>>)
P1Final == Procedure("kApproach", "P1", "", "RW27",
                     <<Fly("IF", "GATE", 0), Mapt(Fly("TF", "IAF", 0)), Fly("TF", "EXIT", 0)>>)
P2 == Procedure("kApproach", "P2", "", "RW09", <<Fly("IF", "ECHO", 0), Mapt(Fly("CF", "IAF", 0))>>)

Publish(procedures) ==
    [error |-> "none", published |-> TRUE,
     data |-> [procedures |-> procedures, runways |-> <<"RW09">>]]
Corrupt == [error |-> "kCacheCorrupt", published |-> FALSE]

Departures == {<<S1>>, <<S1, S4>>, <<S4, S1>>, <<S2, S3>>, <<S3, S2>>, <<S1, S2>>, <<Vectors>>}
Arrivals   == {<<T1, T2>>, <<T2, T1>>, <<T1, P1, P1Final>>, <<P1, P1Final, P2>>, <<P2, T2>>,
               <<P2, T3>>, <<T3, T1, P2>>}

World(kind, nav, cifp) == [kind |-> kind, nav |-> nav, cifp |-> cifp]
Both(d, a) == [DEPA |-> Publish(d), ARRI |-> Publish(a)]

RouteWorlds ==
    {World("routes", Nav(more), Both(p[1], p[2])) :
        more \in {<<>>, <<ToIaf>>, <<FromExit, Beside>>, <<FromExit, ToGate>>,
                  <<ToGate, Beside, ToIaf, Astray>>},
        p \in {<<d, <<T3, T1, P2>>>> : d \in Departures} \cup {<<<<S1, S4>>, a>> : a \in Arrivals}}
      \cup {World("routes", Nav(<<ToIaf>>), [DEPA |-> Publish(<<S1>>)]),
            World("routes", Nav(<<ToIaf>>), [ARRI |-> Publish(<<T1>>)]),
            World("routes", Nav(<<ToIaf>>), [DEPA |-> Publish(<<S1>>), ARRI |-> Corrupt]),
            World("routes", Nav(<<ToIaf>>), [DEPA |-> Publish(<<T1>>), ARRI |-> Publish(<<S1>>)])}

\* Data sets a loader must not hand over, and one airway name more than there are ids.
Refused ==
    {World("routes", [Nav(<<>>) EXCEPT !.waypoints[1].kind = "kIlsDme"], <<>>),
     World("routes", [Nav(<<>>) EXCEPT !.waypoints[1].kind = "kOther"], <<>>),
     World("routes", [Nav(<<>>) EXCEPT !.airports[1].ident.ident = "TOOLONGNAME"], <<>>),
     World("routes", Nav(<<ToGate, Beside, ToIaf, Farther>>), <<>>)}

StringWorlds ==
    {World("strings", Nav(<<ToGate, Beside, Farther>>), Both(<<S1>>, <<T1>>)),
     World("strings", Nav(<<FromExit, Astray>>), [DEPA |-> Publish(<<S2>>), ARRI |-> Corrupt])}

NearestWorlds ==
    {World("nearest", Nav(<<ToGate, FromExit>>), <<>>),
     World("nearest", [Nav(<<>>) EXCEPT !.airways = Northern \o @], <<>>),
     World("nearest", [Nav(<<>>) EXCEPT !.airways = Northern], <<>>)}

ConstrainedWorlds ==
    {World("constrained", [waypoints |-> Append(Waypoints, Namesake), airports |-> Airports,
                           airways |-> Banded, mora |-> ground], Both(<<S1>>, a))
        : ground \in Ground, a \in {<<T1>>, <<P2, T3>>}}

MCWorlds == RouteWorlds \cup ConstrainedWorlds \cup Refused \cup StringWorlds \cup NearestWorlds

\* A second DELTA, of another region, beside ALFA.
Twin == [ident |-> [ident |-> "DELTA", region |-> "YY"], coord |-> Where.TWIN, kind |-> "kFix"]
TwinWorlds == {World("routes", [Nav(<<>>) EXCEPT !.waypoints = Append(@, Twin)],
                     Both(<<S1>>, <<T1>>))}

(***************************************************************************)
(* The questions.                                                          *)
(***************************************************************************)
Named(name) == [NoSelector EXCEPT !.name = name]
Dotted(name, transition) == [name |-> name, dotted |-> TRUE, transition |-> transition]
End(airport, procedure, runway) == [airport |-> airport, procedure |-> procedure, runway |-> runway]
Ask(from, to) ==
    [dep |-> from, arr |-> to, via |-> <<>>, avoid_waypoints |-> {}, rules |-> <<>>,
     altitude |-> NoAltitude, level |-> "kNone", seed |-> NoSeed]

Rule(regions, designators, match, action, fraction) ==
    [region_prefixes |-> regions, designators |-> designators, match |-> match,
     action |-> action, penalty_fraction |-> fraction]
Forbid(d) == Rule({}, {d}, "kExact", "kBlock", 0)

FromDepa == End("depa", NoSelector, "")
ToArri   == End("ARRI", NoSelector, "")
Plainly  == Ask(FromDepa, ToArri)

Attaching ==
    {Plainly,
     [Plainly EXCEPT !.avoid_waypoints = {"GATE"}, !.rules = <<Forbid("J2")>>],
     [Plainly EXCEPT !.avoid_waypoints = {"BRAVO"}],
     [Plainly EXCEPT !.avoid_waypoints = {"ALFA"}],
     Ask(End("DEPA", NoSelector, "27"), End("ARRI", NoSelector, "RW27")),
     Ask(End("DEPA", Named("s1"), ""), End("ARRI", Named("T1"), "")),
     Ask(End("DEPA", Dotted("S3", "ALFA"), ""), ToArri),
     Ask(FromDepa, End("ARRI", Dotted("T1", "GATE"), "")),
     Ask(FromDepa, End("ARRI", NoSelector, "18")),
     Ask(End("NOWHERE", NoSelector, ""), ToArri)}

Levels == {[Plainly EXCEPT !.altitude = [min_fl |-> f[1], max_fl |-> f[2]]] :
             f \in {<<100, 110>>, <<130, 150>>, <<200, 240>>, <<230, 260>>, <<340, 350>>}}
Ruled  == {[Plainly EXCEPT !.rules = rules] : rules \in
             {<<Rule({"XY"}, {"J"}, "kPrefix", "kBlock", 0)>>,
              <<Rule({"X"}, {"J2", "J5"}, "kExact", "kBlock", 0)>>,
              <<Rule({"XX"}, {"J1"}, "kPrefix", "kPenalize", 30), Rule({}, {}, "kExact", "kPenalize", -5)>>,
              <<Forbid("J1"), Forbid("J3")>>, <<Forbid("J1"), Forbid("J2"), Forbid("J7")>>}}
Via    == {[Plainly EXCEPT !.via = via] : via \in
             {<<"BRAVO", "DELTA/XX">>, <<"DELTA", "BRAVO">>, <<"char">>, <<"EXIT">>, <<"LOST">>,
              <<"NOWHERE">>, <<"CHAR", "CHAR">>, <<"CHAR/YY">>,
              <<"ALFA", "BRAVO", "CHAR", "DELTA">>}}
Others == {[Plainly EXCEPT !.level = "kLow"], [Plainly EXCEPT !.level = "kHigh"],
           [Plainly EXCEPT !.seed = 7], [Plainly EXCEPT !.avoid_waypoints = {"DELTA/XX"}],
           [Plainly EXCEPT !.avoid_waypoints = {"CHAR"}, !.via = <<"CHAR">>]}

MCRequests == [routes |-> Attaching, constrained |-> Levels \cup Ruled \cup Via \cup Others]

Words == {"DCT", "SID", "STAR", "BRAVO", "CHAR", "DELTA/XX", "J1", "J2", "T1"}

MCFilings ==
    {<<"DEPA">> \o m \o <<"ARRI">> : m \in UNION {[1..n -> Words] : n \in 0..3}}
      \cup {<<"DEPA", s>> \o <<f, a, t>> \o <<d, "ARRI">> : s \in {"S1", "SID", "DCT"},
              f \in {"ALFA", "BRAVO", "DELTA"}, a \in {"J1", "J2", "J3", "J4", "J6", "DCT"},
              t \in {"BRAVO", "CHAR", "DELTA", "ECHO"}, d \in {"STAR", "DCT", "T1"}}
      \cup {<<"DEPA", "SID", "ALFA", a, f, c, g, "STAR", "ARRI">> : a \in {"J1", "J4"},
              f \in {"BRAVO", "CHAR", "DELTA"}, c \in {"J1", "J2", "DCT"},
              g \in {"CHAR", "DELTA", "ECHO"}}
      \cup {<<>>, <<"DEPA">>, <<"LOST", "DCT", "ALFA", "DCT", "ARRI">>,
            <<"DEPA", "DCT", "ALFA", "DCT", "LOST">>}

MCPositions ==
    {[coord |-> Where[n], count |-> k, inbound |-> i] :
        n \in DOMAIN Where, k \in 0..4, i \in BOOLEAN}
=============================================================================

----------------------------- MODULE MCService -----------------------------
(***************************************************************************)
(* An instance of Service for TLC: pairs of lookups on threads that share  *)
(* the procedure cache, and route queries one at a time.                   *)
(***************************************************************************)
EXTENDS Service, TLC

CONSTANTS t1, t2, t3

MCAirports == {"ZBAA", "ZXXX"}
MCStrangers == {"BOTON", "LONG"}
MCWithProcedures == {"ZBAA"}
MCVertices == {[ident |-> "ZBAA", airport |-> TRUE], [ident |-> "ZXXX", airport |-> TRUE],
               [ident |-> "BOTON", airport |-> FALSE]}
MCPublished == [kind \in {"airway", "navaid_detail", "hold", "msa"} |->
                  IF kind = "msa" THEN {"ZBAA"} ELSE {"BOTON"}]
MCProcedureNames == [a \in MCWithProcedures |-> {"DEEZZ5"}]

MCLong == {"LONG"}
MCUpper ==
  [s \in MCAirports \cup MCStrangers
         \cup {"", "DEEZZ5", "J1", "J60", "ZB", "*", "NOPE"} |-> s]
  @@ ("zbaa" :> "ZBAA") @@ ("deezz5" :> "DEEZZ5") @@ ("zb" :> "ZB") @@ ("j1" :> "J1")

-----------------------------------------------------------------------------
(* Lookups: found, missing, mixed, malformed and too many.                 *)
Sel(a) == [airport |-> a, procedure |-> ""]
Detail(a, p) == [airport |-> a, procedure |-> p]
Ask(front, kind, sels) == [op |-> "lookup", front |-> front, kind |-> kind, sels |-> sels]

MCCachedLookups == {
  Ask("wire", "airport", <<Sel("ZBAA"), Sel("ZXXX")>>),
  Ask("wire", "airport", <<Sel("BOTON"), Sel("zbaa")>>),
  Ask("wire", "procedure", <<Sel("ZXXX"), Sel("ZBAA")>>),
  Ask("wire", "procedure", <<Sel("BOTON"), Sel("ZXXX")>>),
  Ask("wire", "procedure_legs", <<Detail("zbaa", "deezz5")>>),
  Ask("wire", "procedure_legs", <<Detail("ZBAA", "NOPE")>>),
  Ask("cli", "procedure", <<Sel("ZXXX"), Detail("ZBAA", "DEEZZ5")>>),
  Ask("cli", "procedure", <<Sel("ZBAA"), Detail("ZBAA", "NOPE")>>) }

MCPlainLookups == {
  Ask("wire", "waypoint", <<Sel("BOTON"), Sel("ZBAA")>>),
  Ask("wire", "airway", <<Sel("ZBAA")>>),
  Ask("cli", "msa", <<Sel("zbaa")>>),
  Ask("wire", "airport", <<>>),
  Ask("wire", "hold", <<Sel("LONG")>>),
  Ask("wire", "procedure_legs", <<Detail("ZBAA", "")>>),
  Ask("cli", "procedure", <<Sel("ZBAA"), Sel("ZBAA"), Sel("ZXXX")>>) }

MCLookups == MCCachedLookups \cup MCPlainLookups

-----------------------------------------------------------------------------
(* Route queries: one or two options away from the plainest request.       *)
Item(n) == [name |-> n, star |-> FALSE]
Star(n) == [name |-> n, star |-> TRUE]
Filter(regions, designators, action) ==
  [colon |-> TRUE, regions |-> regions, designators |-> designators, action |-> action,
   hasValue |-> FALSE, value |-> Garbage]

NoNames == [n \in Names |-> ""]
BaseFlags ==
  [departure |-> "ZBAA", arrival |-> "ZXXX", alt |-> <<>>, level |-> "none", k |-> 1,
   names |-> NoNames, avoid_wpt |-> <<>>, airway_filter |-> <<>>, seed |-> NoSeed, via |-> <<>>]

Alts == {<<>>, <<0>>, <<kMaxFl>>, <<kMaxFl + 1>>, <<3, 4>>, <<4, 3>>, <<Garbage>>,
         <<Garbage, 3>>, <<3, kMaxFl + 1>>}
NameLists == {<<Item("zb")>>, <<Item("ZB"), Item("J1")>>, <<Star("J1"), Star("J60")>>,
              <<Star("J1"), Item("J60")>>, <<BareStar>>, <<BareStar, Item("ZB")>>, <<Star("*")>>,
              <<Item("")>>, <<Item("ZB"), Item("")>>}
Values == {0, 8, -1, Garbage, NonFinite}
Filters ==
  {Filter(r, d, "block") : r \in NameLists, d \in NameLists}
  \cup {Filter(<<Item("ZB")>>, <<Item("J1")>>, a) : a \in {"", "penalize", "reroute"}}
  \cup {[Filter(<<Item("ZB")>>, <<Item("J1")>>, a) EXCEPT !.hasValue = TRUE, !.value = v] :
          a \in {"block", "penalize"}, v \in Values}
  \cup {[Filter(<<Item("ZB")>>, <<Item("")>>, "") EXCEPT !.colon = FALSE]}
Rule == Filter(<<Item("ZB")>>, <<Item("J1")>>, "")
FilterLists ==
  {<<>>, <<Rule, Filter(<<BareStar>>, <<Star("J60")>>, "penalize")>>, <<Rule, Rule, Rule>>}
  \cup {<<f>> : f \in Filters}
Lists == {<<>>, <<"BOTON">>, <<"", "BOTON">>, <<"BOTON", "BOTON">>, <<"BOTON", "ZB", "J1">>, <<"LONG">>}

MCFlags ==
  {[BaseFlags EXCEPT !.alt = a, !.k = k] : a \in Alts, k \in {0, 1, 2, kMaxK, kMaxK + 1}}
  \cup {[BaseFlags EXCEPT !.airway_filter = f] : f \in FilterLists}
  \cup {[BaseFlags EXCEPT !.avoid_wpt = a, !.via = v] : a \in Lists, v \in Lists}
  \cup {[BaseFlags EXCEPT !.level = l, !.seed = s] :
          l \in {"none", "low", "high", "mid", ""}, s \in {NoSeed, 0, MaxUint, MaxUint + 1}}
  \cup {[BaseFlags EXCEPT !.departure = d, !.names = [NoNames EXCEPT !["departure_sid"] = s]] :
          d \in {"", "ZBAA", "LONG"}, s \in {"", "DEEZZ5", "LONG"}}

Fronts == {"wire", "cli"}
MCRouteQueries ==
  {[op |-> "find_routes", front |-> f, flags |-> g] : f \in Fronts, g \in MCFlags}
  \cup {[op |-> "parse_route", front |-> f, route |-> r] :
          f \in Fronts, r \in {String(""), String("BOTON"), String("LONG")}}
  \cup {[op |-> "parse_route", front |-> "wire", route |-> r] : r \in {Absent, Other}}

-----------------------------------------------------------------------------
One(q) == t1 :> <<q>> @@ t2 :> <<>> @@ t3 :> <<>>
Two(q, r) == t1 :> <<q>> @@ t2 :> <<r>> @@ t3 :> <<>>
Three(p, q, r) == t1 :> <<p, q>> @@ t2 :> <<r>> @@ t3 :> <<r>>

\* Three threads race on one airport, and one of them goes on to a lookup that
\* meets the entry the race left.
Legs == Ask("wire", "procedure_legs", <<Detail("zbaa", "deezz5")>>)
MCWorkloads ==
  {One(q) : q \in MCPlainLookups \cup MCRouteQueries}
  \cup {Two(q, r) : q \in MCCachedLookups, r \in MCCachedLookups}
  \cup {Three(Legs, q, Legs) : q \in MCCachedLookups}
=============================================================================

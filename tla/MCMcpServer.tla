---------------------------- MODULE MCMcpServer ----------------------------
(* Documents and requests for McpServer: the cases of the dispatcher one by *)
(* one, batches that mix them, and requests on both sides of every cap.     *)
EXTENDS McpServer

MCTools == <<"find_routes", "lookup_airways">>
MCToolStatus(tool, cycle) == IF tool = "find_routes" THEN 200 ELSE 422

NoParams == [object |-> FALSE, version |-> Absent, name |-> Absent, badCycle |-> FALSE, cycle |-> NoCycle]
Call(name, bad, cycle) ==
    [object |-> TRUE, version |-> Absent, name |-> name, badCycle |-> bad, cycle |-> cycle]
Obj(id, method, params) ==
    [kind |-> "object", id |-> id, version |-> "2.0", method |-> method, params |-> params]
Scalar == [kind |-> "scalar"]
Arr(items) == [kind |-> "array", items |-> items]

Ping(id) == Obj(id, "ping", NoParams)
Init1(id) == Obj(id, "initialize", [NoParams EXCEPT !.object = TRUE, !.version = "2024-11-05"])
NoVersion(id) == [Ping(id) EXCEPT !.version = Absent]

MCDocs == [
    ping |-> Ping("i1"), noteping |-> Ping(Absent), nullid |-> Ping(Wrong),
    init |-> Init1("i1"), noteinit |-> Init1(Absent), noversion |-> NoVersion("i1"),
    notenoversion |-> NoVersion(Absent), nomethod |-> Obj("i1", Wrong, NoParams),
    notenomethod |-> Obj(Absent, Absent, NoParams), other |-> Obj("i1", "resources/list", NoParams),
    note |-> Obj(Absent, "notifications/initialized", NoParams),
    list |-> Obj("i1", "tools/list", NoParams), noparams |-> Obj("i1", "tools/call", NoParams),
    noname |-> Obj("i1", "tools/call", Call(Absent, FALSE, NoCycle)),
    cycles |-> Obj("i1", "tools/call", Call(ListCycles, FALSE, NoCycle)),
    route |-> Obj("i1", "tools/call", Call("find_routes", FALSE, NoCycle)),
    airway |-> Obj("i1", "tools/call", Call("lookup_airways", FALSE, 2602)),
    badcycle |-> Obj("i1", "tools/call", Call("find_routes", TRUE, NoCycle)),
    nocycle |-> Obj("i1", "tools/call", Call("find_routes", FALSE, 2601)),
    zerocycle |-> Obj("i1", "tools/call", Call("find_routes", FALSE, 0)),
    notool |-> Obj("i1", "tools/call", Call("junk", FALSE, NoCycle)),
    scalar |-> Scalar,
    empty |-> Arr(<<>>), notes |-> Arr(<<Ping(Absent), Ping(Absent)>>),
    mixed |-> Arr(<<Ping("i1"), Ping(Absent), Scalar, Ping("i2")>>),
    refused |-> Arr(<<Init1(Absent), Init1("i1"), Arr(<<Ping("i2")>>)>>),
    toomany |-> Arr(<<Ping("i1"), Ping("i2"), Ping("i3"), Ping(Absent), Ping("i4")>>)]

MCTextLength == [n \in DOMAIN MCDocs |-> IF n \in {"ping", "mixed", "scalar"} THEN 3 ELSE 2]

Bytes == {"/mcp", "/", "?", "x", "X", "t", "T", "e", "E", "y", "origin", "host", "accept",
          "text/event-stream", "100", "://", "here", "127.0.0.1", "0.0.0.0", "there", ":", "[", "]", "localhost", "::1"}
MCToLower == [b \in Bytes |-> IF b = "T" THEN "t" ELSE IF b = "E" THEN "e"
                              ELSE IF b = "X" THEN "x" ELSE b]

MCBodyByte == {<<n, k>> : n \in DOMAIN MCDocs, k \in 1..3}

MCTransferEncoding == <<"t", "e">>
MCExpect == <<"e", "x">>
MCContinueValue == <<"100">>
MCBindHost == <<"0.0.0.0">>

Hdr(name, value) == [name |-> name, value |-> value]
Post(url, headers, body) ==
    [method |-> "POST", url |-> url, headers |-> headers, body |-> body, keepAlive |-> TRUE]
Junk == <<<<"ping", 2>>>>
Mcp == <<"/mcp">>

MCRequests ==
    {Post(Mcp, h, TextOf(n)) : n \in DOMAIN MCDocs, h \in {<<>>, <<Hdr(<<"accept">>, <<"text/event-stream">>)>>}}
      \cup {Post(u, <<>>, TextOf("init")) :
              u \in {<<"/mcp", "/">>, <<"/mcp", "?", "x">>, <<"/", "x">>, <<"/mcp", "/", "/">>,
                     <<"/mcp", "?", "x", "x">>}}
      \cup {Post(Mcp, h, b) : b \in {<<>>, Junk, TextOf("ping"), TextOf("ping") \o TextOf("ping")},
              h \in {<<Hdr(<<"T", "e">>, <<"x">>)>>, <<Hdr(<<"e", "X">>, <<"100">>)>>,
                     <<Hdr(<<"e", "X">>, <<"x">>), Hdr(<<"x">>, <<>>)>>,
                     <<Hdr(<<"x">>, <<"x", "x">>), Hdr(<<"y">>, <<"x", "x">>)>>,
                     <<Hdr(<<"x">>, <<"x", "x">>), Hdr(<<"y">>, <<"x", "x", "x">>)>>,
                     <<Hdr(<<"x", "x", "x">>, <<"x", "x", "x", "x">>)>>,
                     <<Hdr(<<"x">>, <<>>), Hdr(<<"y">>, <<>>), Hdr(<<"x">>, <<>>)>>}}
      \cup {Post(Mcp, <<Hdr(<<"origin">>, o)>>, TextOf("ping")) :
              o \in {<<"x", "://", "there">>, <<"x", "://", "localhost", ":", "x">>,
                     <<"x", "://", "[", "::1", "]">>, <<"x">>, <<"x", "://", "[", "x">>}}
      \cup {Post(Mcp, <<Hdr(<<"origin">>, <<"://", "here">>), Hdr(<<"host">>, <<"here">>)>>, TextOf("ping"))}
      \cup {[Post(Mcp, <<>>, <<>>) EXCEPT !.method = m] : m \in {"GET", "HEAD", "DELETE", "PUT"}}
      \cup {[Post(Mcp, <<>>, TextOf("ping")) EXCEPT !.keepAlive = FALSE]}

LineOf(text, cr) == [text |-> text, cr |-> cr]
Lines == {LineOf(t, cr) : t \in {<<>>, Junk, TextOf("scalar") \o Junk} \cup {TextOf(n) : n \in DOMAIN MCDocs},
          cr \in BOOLEAN}
MCInputs ==
    {g \in {[lines |-> <<a, b>>, terminated |-> t] : a, b \in Lines, t \in BOOLEAN} :
        g.terminated \/ Ended(Last(g.lines)) # <<>>}
============================================================================

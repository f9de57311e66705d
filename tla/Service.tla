------------------------------ MODULE Service ------------------------------
(***************************************************************************)
(* The query service shared by bf-http, bf-mcp and bf: the argument        *)
(* adapters (service/handlers.cc, apps/cli), the typed entries that map an *)
(* outcome to a status (service/queries.cc) and the lookups of the engine  *)
(* (io/navdb/query.cc), on top of the procedure cache that all worker      *)
(* threads of a server share (module ProcedureCache).                      *)
(*                                                                         *)
(* A thread serves the queries of its queue one after the other.  Reading  *)
(* the immutable parts of a database is one step; a lookup that needs      *)
(* procedures calls ProceduresFor once per identifier, and other threads   *)
(* run between its steps.                                                  *)
(***************************************************************************)
EXTENDS ProcedureCache, RouteArgs, FiniteSets

CONSTANTS
  Vertices,        \* the graph's vertices: [ident, airport]
  Published,       \* the identifiers that have an airway, navaid_detail, hold, msa
  ProcedureNames,  \* the procedures of each airport in WithProcedures
  Lookups,         \* the lookups clients send
  RouteQueries,    \* the route queries clients send
  Workloads        \* the queries the threads may be given

\* A lookup is [op, front, kind, sels]: a sequence of selectors, each an
\* identifier and, for procedure detail, a procedure name.  A route query is
\* [op, front, flags]: the options of bf route, or the JSON that says the same
\* ("wire"); a route string is [op, front, route].
ASSUME ServiceAssumption ==
  /\ Airports = {v.ident : v \in {w \in Vertices : w.airport}}
  /\ DOMAIN Published = {"airway", "navaid_detail", "hold", "msa"}
  /\ DOMAIN ProcedureNames = WithProcedures
  /\ Workloads \subseteq [Threads -> Seq(Lookups \cup RouteQueries)]
  /\ \A q \in RouteQueries :
       /\ q.op \in {"find_routes", "parse_route"}
       /\ q.op = "find_routes" => q.flags \in Options
  /\ \A q \in Lookups :
       /\ q.op = "lookup"
       /\ q.front \in {"wire", "cli"}
       /\ q.kind \in {"waypoint", "airport", "procedure", "procedure_legs"}
                    \cup DOMAIN Published
       /\ DOMAIN q.sels = 1 .. Len(q.sels) /\ Len(q.sels) \in Nat
       /\ \A i \in DOMAIN q.sels :
            /\ Upper[q.sels[i].airport] \in Icaos
            /\ q.kind = "airport" => q.sels[i].procedure = ""

VARIABLES
  queue,    \* queue[t]: the queries t has still to serve
  job,      \* job[t]: the lookup t is in the middle of
  told      \* told[t]: the last answer t gave

serviceVars == <<queue, job, told>>
allVars == <<vars, serviceVars>>

Nothing == [op |-> "nothing"]
Refused == 400
NotFound == 404
Unprocessable == 422

-----------------------------------------------------------------------------
(* Lookups: the arguments.                                                 *)

\* The lookups that read the procedure cache.
UsesProcedures(q) == q.kind \in {"airport", "procedure", "procedure_legs"}

IsDetail(sel) == sel.procedure # ""

\* The adapters: MakeLookupAdapter and LookupProcedureLegsHandler.
WireLookupOk(q) ==
  /\ Len(q.sels) \in 1 .. kMaxIdListSize
  /\ \A i \in DOMAIN q.sels : q.sels[i].airport \notin Long /\ q.sels[i].procedure \notin Long
  /\ q.kind = "procedure_legs" => q.sels[1].airport # "" /\ q.sels[1].procedure # ""

\* bf query checks nothing but what the typed entries check for everyone.
RejectOversizedIds(q) == Len(q.sels) > kMaxIdListSize

LookupRefused(q) == (q.front = "wire" /\ ~WireLookupOk(q)) \/ RejectOversizedIds(q)

-----------------------------------------------------------------------------
(* What the engine finds for one selector: "none", "found", or for an      *)
(* airport whose procedures do not count "bare" and "corrupt".             *)

VerticesByIdent(s) == {v \in Vertices : v.ident = s}

\* An airport's code is no waypoint.
LookupWaypoint(s) == IF \E v \in VerticesByIdent(s) : ~v.airport THEN "found" ELSE "none"

LookupPublished(kind, s) == IF s \in Published[kind] THEN "found" ELSE "none"

LookupImmutable(q, i) ==
  LET s == Upper[q.sels[i].airport]
  IN  IF q.kind = "waypoint" THEN LookupWaypoint(s) ELSE LookupPublished(q.kind, s)

\* LookupAirports: an airport is reported whatever becomes of its procedures.
\* Only damage to a cache is flagged.
AirportInfo(r) ==
  IF r = Err THEN IF Source = "archive" THEN "corrupt" ELSE "bare"
  ELSE IF r = None THEN "bare" ELSE "found"

\* LookupProcedures, LookupProcedureDetail: every transition of that name.
ProcedureInfo(sel, r) ==
  IF r = None \/ (IsDetail(sel) /\ Upper[sel.procedure] \notin ProcedureNames[Upper[sel.airport]])
  THEN "none" ELSE "found"

-----------------------------------------------------------------------------
Idle(t) == pc[t] = "idle" /\ job[t] = Nothing

Serve(t, op) == Idle(t) /\ queue[t] # <<>> /\ Head(queue[t]).op = op

\* The status of a lookup that ran to its end: wholly missing is a 404.
LookupStatus(found) == IF \A i \in DOMAIN found : found[i] = "none" THEN NotFound ELSE 200

Tell(t, q, status, body) ==
  told' = [told EXCEPT ![t] = [op |-> q.op, query |-> q, status |-> status, body |-> body]]

Dequeue(t) == queue' = [queue EXCEPT ![t] = Tail(queue[t])]

RefuseLookup(t) ==
  /\ Serve(t, "lookup")
  /\ LookupRefused(Head(queue[t]))
  /\ Tell(t, Head(queue[t]), Refused, <<>>)
  /\ Dequeue(t)
  /\ UNCHANGED <<vars, job>>

\* RunGroupedLookup, RunOptionalLookup and LookupMsa over immutable data.
AnswerLookup(t) ==
  /\ Serve(t, "lookup")
  /\ LET q == Head(queue[t])
         found == [i \in DOMAIN q.sels |-> LookupImmutable(q, i)]
     IN  /\ ~LookupRefused(q)
         /\ ~UsesProcedures(q)
         /\ Tell(t, q, LookupStatus(found), found)
  /\ Dequeue(t)
  /\ UNCHANGED <<vars, job>>

\* The selectors ProceduresFor has to be called for: an unknown airport is
\* passed over by LookupAirports alone.
Wanted(q) ==
  {i \in DOMAIN q.sels : q.kind = "airport" => Upper[q.sels[i].airport] \in Airports}

StartLookup(t) ==
  /\ Serve(t, "lookup")
  /\ LET q == Head(queue[t])
     IN  /\ ~LookupRefused(q)
         /\ UsesProcedures(q)
         /\ job' = [job EXCEPT ![t] =
                      [op |-> "lookup", query |-> q, waits |-> 0, left |-> Wanted(q),
                       found |-> [i \in DOMAIN q.sels |-> "none"]]]
  /\ Dequeue(t)
  /\ UNCHANGED <<vars, told>>

\* LookupProceduresMixed reads the details while it goes through the selectors
\* and the summaries in one batch after that; alone, each goes in order.
Before(q, i, j) ==
  \/ IsDetail(q.sels[i]) /\ ~IsDetail(q.sels[j])
  \/ (IsDetail(q.sels[i]) <=> IsDetail(q.sels[j])) /\ i < j

AskProcedures(t) ==
  /\ job[t] # Nothing
  /\ job[t].waits = 0
  /\ \E i \in job[t].left :
       /\ \A j \in job[t].left \ {i} : Before(job[t].query, i, j)
       /\ Call(t, Upper[job[t].query.sels[i].airport])
       /\ job' = [job EXCEPT ![t].waits = i]
  /\ UNCHANGED <<queue, told>>

\* Mutant: answers are stored in the order they arrive.
CollectInOrder(t, info) ==
  LET n == Cardinality(DOMAIN job[t].found) - Cardinality(job[t].left) + 1
  IN  /\ job' = [job EXCEPT ![t].found = [@ EXCEPT ![n] = info],
                            ![t].left = @ \ {job[t].waits},
                            ![t].waits = 0]
      /\ UNCHANGED <<vars, queue, told>>

\* What the call returned is stored at its own index.
CollectAs(t, info) ==
  /\ job' = [job EXCEPT ![t].found = [@ EXCEPT ![job[t].waits] = info],
                        ![t].left = @ \ {job[t].waits},
                        ![t].waits = 0]
  /\ UNCHANGED <<vars, queue, told>>

Returned(t) == job[t] # Nothing /\ pc[t] = "idle" /\ job[t].waits # 0

CollectAirport(t) ==
  /\ Returned(t)
  /\ job[t].query.kind = "airport"
  /\ CollectAs(t, AirportInfo(result[t]))

CollectProcedures(t) ==
  /\ Returned(t)
  /\ job[t].query.kind # "airport"
  /\ result[t] # Err
  /\ CollectAs(t, ProcedureInfo(job[t].query.sels[job[t].waits], result[t]))

\* One unreadable airport fails the whole lookup.
FailLookup(t) ==
  /\ Returned(t)
  /\ job[t].query.kind # "airport"
  /\ result[t] = Err
  /\ Tell(t, job[t].query, Unprocessable, <<>>)
  /\ job' = [job EXCEPT ![t] = Nothing]
  /\ UNCHANGED <<vars, queue>>

FinishLookup(t) ==
  /\ job[t] # Nothing
  /\ job[t].waits = 0
  /\ job[t].left = {}
  /\ Tell(t, job[t].query, LookupStatus(job[t].found), job[t].found)
  /\ job' = [job EXCEPT ![t] = Nothing]
  /\ UNCHANGED <<vars, queue>>

-----------------------------------------------------------------------------
(* find_routes and parse_route: what the search itself does is module      *)
(* RoutePipeline's subject, so any well-formed request may end either way. *)

\* The JSON object that says what the options say; see Sayable.
OptionalString(s) == IF s = "" THEN Absent ELSE String(s)
JsonList(s) == IF s = <<>> THEN Absent ELSE Array([i \in DOMAIN s |-> String(s[i])])
JsonNumber(f) == IF f \in {Garbage, NonFinite} THEN Other ELSE Int32(f)

JsonNames(items) ==
  IF IsAny(items) THEN Array(<<String("*")>>)
  ELSE Array([i \in DOMAIN items |->
                String(IF items[i] = BareStar THEN "*" ELSE items[i].name)])

JsonRule(spec) ==
  [region_prefixes |-> JsonNames(spec.regions),
   designators |-> IF spec.colon THEN JsonNames(spec.designators) ELSE Absent,
   match |-> IF AllStarred(spec.designators) THEN String("prefix")
             ELSE IF NoneStarred(spec.designators) THEN String("exact") ELSE Other,
   action |-> OptionalString(spec.action),
   penalty_fraction |-> IF ~spec.hasValue THEN Absent
                        ELSE IF spec.value \in {Garbage, NonFinite} THEN Other
                        ELSE Double(spec.value)]

ArgsOf(flags) ==
  [departure |-> String(flags.departure), arrival |-> String(flags.arrival),
   names |-> [n \in Names |-> OptionalString(flags.names[n])],
   min_fl |-> IF flags.alt = <<>> THEN Absent ELSE JsonNumber(flags.alt[1]),
   max_fl |-> IF Len(flags.alt) < 2 THEN Absent ELSE JsonNumber(flags.alt[2]),
   level |-> String(flags.level), k |-> JsonNumber(flags.k),
   avoid_waypoints |-> JsonList(flags.avoid_wpt),
   airway_rules |-> Array([i \in DOMAIN flags.airway_filter |->
                             [type |-> "object", val |-> JsonRule(flags.airway_filter[i])]]),
   random_seed |-> IF flags.seed = NoSeed THEN Absent ELSE Int32(flags.seed),
   forced_points |-> JsonList(flags.via)]

RequestOk(front, flags) ==
  IF front = "wire" THEN FindRoutesArgsOk(ArgsOf(flags)) ELSE RouteFlagsOk(flags)
Request(front, flags) ==
  IF front = "wire" THEN RequestOfArgs(ArgsOf(flags)) ELSE RequestOfFlags(flags)

\* NavDatabase::FindRoutes has its own cap on the rules.
EngineTakes(request) == Len(request.airway_rules) <= kMaxRules

RefuseRoutes(t) ==
  /\ Serve(t, "find_routes")
  /\ ~RequestOk(Head(queue[t]).front, Head(queue[t]).flags)
  /\ Tell(t, Head(queue[t]), Refused, <<>>)
  /\ Dequeue(t)
  /\ UNCHANGED <<vars, job>>

AnswerRoutes(t) ==
  /\ Serve(t, "find_routes")
  /\ LET q == Head(queue[t])
         request == Request(q.front, q.flags)
     IN  /\ RequestOk(q.front, q.flags)
         /\ \E status \in {200, Unprocessable} :
              /\ status = 200 => EngineTakes(request)
              /\ Tell(t, q, status, request)
  /\ Dequeue(t)
  /\ UNCHANGED <<vars, job>>

\* ParseRouteHandler refuses what is not a string of a sensible length; bf
\* parse_route hands on whatever the shell passed.
ParseRefused(q) == q.front = "wire" /\ ~RequireNonEmptyString(q.route)

RefuseParse(t) ==
  /\ Serve(t, "parse_route")
  /\ ParseRefused(Head(queue[t]))
  /\ Tell(t, Head(queue[t]), Refused, <<>>)
  /\ Dequeue(t)
  /\ UNCHANGED <<vars, job>>

AnswerParse(t) ==
  /\ Serve(t, "parse_route")
  /\ LET q == Head(queue[t])
     IN  /\ ~ParseRefused(q)
         /\ \E status \in {200, Unprocessable} : Tell(t, q, status, q.route.val)
  /\ Dequeue(t)
  /\ UNCHANGED <<vars, job>>

-----------------------------------------------------------------------------
ServiceInit ==
  /\ Init
  /\ queue \in Workloads
  /\ job = [t \in Threads |-> Nothing]
  /\ told = [t \in Threads |-> Nothing]

CacheStep(t) == Step(t) /\ UNCHANGED serviceVars

ServiceStep(t) ==
  \/ CacheStep(t)
  \/ RefuseLookup(t) \/ AnswerLookup(t)
  \/ StartLookup(t) \/ AskProcedures(t)
  \/ CollectAirport(t) \/ CollectProcedures(t)
  \/ FailLookup(t) \/ FinishLookup(t)
  \/ RefuseRoutes(t) \/ AnswerRoutes(t)
  \/ RefuseParse(t) \/ AnswerParse(t)

ServiceNext == \E t \in Threads : ServiceStep(t)

ServiceSpec == ServiceInit /\ [][ServiceNext]_allVars

-----------------------------------------------------------------------------
(* Properties.                                                             *)

\* What a selector of a procedure lookup deserves, from the data alone: an
\* airport's procedures are there or not, whatever other threads do.
HasProcedure(sel) ==
  /\ HasSource
  /\ Upper[sel.airport] \in WithProcedures
  /\ IsDetail(sel) => Upper[sel.procedure] \in ProcedureNames[Upper[sel.airport]]

TrueInfo(q, i, info) ==
  LET sel == q.sels[i]
  IN  IF q.kind = "airport"
      THEN /\ info = "none" <=> Upper[sel.airport] \notin Airports
           /\ info = "found" => HasProcedure(sel)
           /\ info = "bare" /\ HasProcedure(sel) => Source = "loader"
           /\ info = "corrupt" => Source = "archive"
      ELSE info = IF HasProcedure(sel) THEN "found" ELSE "none"

\* A lookup that goes through the procedure cache, one call per selector with
\* other threads in between, answers every selector at its own place and with
\* the truth: a 404 only when nothing asked for exists, and an error of the
\* source as a 422 or a "corrupt" airport, not as missing procedures
\* (queries.cc:138-301, query.cc:53-183).  The exception in TrueInfo is an
\* airport of the text source, whose read error query.cc:72 does not flag.
AnswersAreTrue ==
  \A t \in Threads :
    LET a == told[t]
    IN  (a.op = "lookup" /\ UsesProcedures(a.query)) =>
          IF a.status \in {Refused, Unprocessable}
          THEN a.status = Unprocessable => a.query.kind # "airport" /\ Source # "nowhere"
          ELSE /\ DOMAIN a.body = DOMAIN a.query.sels
               /\ \A i \in DOMAIN a.body : TrueInfo(a.query, i, a.body[i])
               /\ a.status = NotFound <=> \A i \in DOMAIN a.body : a.body[i] = "none"

SayableList(items) ==
  /\ Len(items) <= kMaxIdListSize
  /\ \A i \in DOMAIN items : items[i].name \notin Long \cup {"*"}

SayableFilter(spec) ==
  /\ spec.hasValue => spec.action = "penalize"
  /\ SayableList(spec.regions) /\ SayableList(spec.designators)

\* Options whose JSON form exists and is not refused for a limit that only
\* the wire has: the length of a string, the size of the avoid list, and the
\* number after "block", which JSON ignores.  What JSON reads as something else
\* has no such form either: an empty level, which is no level there, and the
\* prefix "*" of a "**", which is every name.
Sayable(flags) ==
  /\ {flags.departure, flags.arrival} \cap (Long \cup {""}) = {}
  /\ flags.level # ""
  /\ \A n \in Names : flags.names[n] \notin Long
  /\ \A s \in {flags.avoid_wpt[i] : i \in DOMAIN flags.avoid_wpt}
                \cup {flags.via[i] : i \in DOMAIN flags.via} : s \notin Long
  /\ Len(flags.avoid_wpt) <= kMaxIdListSize
  /\ \A i \in DOMAIN flags.airway_filter : SayableFilter(flags.airway_filter[i])

\* The two validators, written separately, agree: what one front end sends to
\* the search is the request the other would have sent for the same question,
\* and neither answers what the other refuses (handlers.cc:311-451,
\* cmd_route.cc:106-156, cli_common.cc:30-220).
FrontEndsAgree ==
  \A t \in Threads :
    LET a == told[t]
        other == IF a.query.front = "wire" THEN "cli" ELSE "wire"
        flags == a.query.flags
        searched == a.status # Refused /\ EngineTakes(a.body)
    IN  (a.op = "find_routes" /\ Sayable(flags)) =>
          /\ searched <=> RequestOk(other, flags) /\ EngineTakes(Request(other, flags))
          /\ searched => a.body = Request(other, flags)
=============================================================================
